--------------------------- MODULE UpstreamProofs ----------------------------
(* Theorems about what lies between the bridge and its upstreams: the pool   *)
(* of clients (UpstreamClients), for any number of requests, settings and    *)
(* connections and any size of the map, the catalog of models                *)
(* (CatalogSnapshot), for any number of lists, requests and restarts, and    *)
(* the translator of what the upstreams stream (StreamTranslator), for any   *)
(* pieces of content, any number of chunks and any limit on calls.           *)
EXTENDS UpstreamClients, CatalogSnapshot, StreamTranslator,
        FiniteSetTheorems, SequenceTheorems, FiniteInduction, TLAPS

-----------------------------------------------------------------------------
(* The clients. *)

Todo == {todo[i] : i \in DOMAIN todo}

(* Whose HTTP clients they are. *)
OwnOf ==
    /\ \A o \in Object, k \in Kind : slot[o][k] # NoHttp => slot[o][k][1] = o
    /\ \A r \in Request : at[r] = Running => using[r] \in Http /\ using[r][1] = object[r]

(* The count an object keeps is that of its calls. *)
CountOf ==
    \A o \in Object : IsFiniteSet(Calling(o)) /\ Cardinality(Calling(o)) = active[o]

(* What is in the map was made and is not retired; what was never made is    *)
(* nowhere.                                                                  *)
MapOf ==
    /\ Len(pool) <= PoolEntries
    /\ \A i, j \in DOMAIN pool : keyOf[pool[i]] = keyOf[pool[j]] => i = j
    /\ \A i \in DOMAIN pool : ~retired[pool[i]] /\ at[pool[i]] # "new"
    /\ \A i \in DOMAIN todo : at[todo[i]] # "new"
    /\ IF ShuttingDown THEN pool = <<>> ELSE todo = <<>>
    /\ \A r \in Request :
         IF at[r] = "new" THEN ~retired[r] /\ object[r] = r ELSE at[object[r]] # "new"

(* What is not retired is in the map or waits for the shutdown. *)
HomeOf ==
    /\ \A r \in Request :
         at[r] # "new" /\ ~retired[object[r]] => object[r] \in Pooled \cup Todo
    /\ \A c \in open : ~retired[c[1]] => c[1] \in Pooled \cup Todo

(* Only an object whose calls all began after it was retired is closed. *)
Quit(o) == retired[o] /\ \A r \in Calling(o) : late[r]

QuitOf ==
    /\ \A o \in Object : Closing(task[o]) => Quit(o)
    /\ \A r \in Request : at[r] = "leaving" <=> Closing(ender[r])
    /\ \A r \in Request : at[r] = "leaving" => Quit(object[r])
    /\ Closing(closer) => todo # <<>> /\ Quit(Head(todo))

(* An object that is not retired has only open clients; one without late     *)
(* calls knows its open clients.                                             *)
SlotOf ==
    /\ \A o \in Object : ~retired[o] => \A k \in Kind : slot[o][k] \in open \cup {NoHttp}
    /\ lateUsed \subseteq {o \in Object : retired[o]}
    /\ \A c \in open : c[1] \notin lateUsed => \E k \in Kind : slot[c[1]][k] = c

(* What a close has dealt with when it stands at a step. *)
PassedIn(slots, clients, step) ==
    /\ step \in {"plain", "stream"} => slots["plain"] \notin clients
    /\ step = "stream" => slots["stream"] \notin clients

Passed(o, step) == PassedIn(slot[o], open, step)

StageOf ==
    /\ \A o \in Object : o \notin lateUsed => Passed(o, task[o])
    /\ \A r \in Request :
         at[r] = "leaving" /\ object[r] \notin lateUsed => Passed(object[r], ender[r])
    /\ Closing(closer) /\ Head(todo) \notin lateUsed => Passed(Head(todo), closer)

AttendedOf == \A c \in open : c[1] \notin lateUsed => Attended(c[1])

ClientsInv ==
    /\ ClientsTypeOK /\ OwnOf /\ CountOf /\ MapOf /\ HomeOf /\ QuitOf
    /\ EarlyCallUncut /\ SlotOf /\ StageOf /\ AttendedOf
-----------------------------------------------------------------------------
(* Sequences. *)
Source(i, j, n) == IF j < i THEN j ELSE IF j < n THEN j + 1 ELSE i

(* One element appended. *)
LEMMA AppendForms ==
    ASSUME NEW S, NEW s \in Seq(S), NEW x \in S
    PROVE  /\ Append(s, x) \in Seq(S) /\ Len(Append(s, x)) = Len(s) + 1 /\ Len(s) \in Nat
           /\ DOMAIN Append(s, x) = 1..(Len(s) + 1) /\ DOMAIN s = 1..Len(s)
           /\ \A j \in 1..Len(s) : Append(s, x)[j] = s[j]
           /\ Append(s, x)[Len(s) + 1] = x
OBVIOUS

(* An element taken out, *)
Without(S, s, i, c) ==
    /\ c \in Seq(S) /\ Len(c) = Len(s) - 1
    /\ \A j \in 1..(Len(s) - 1) : c[j] = IF j < i THEN s[j] ELSE s[j + 1]

(* and put back at the end. *)
Moved(S, s, i, later) ==
    /\ later \in Seq(S) /\ Len(later) = Len(s)
    /\ DOMAIN later = 1..Len(s) /\ DOMAIN s = 1..Len(s)
    /\ \A j \in 1..Len(s) : Source(i, j, Len(s)) \in 1..Len(s)
    /\ \A j \in 1..Len(s) : later[j] = s[Source(i, j, Len(s))]
    /\ \A j, k \in 1..Len(s) : Source(i, j, Len(s)) = Source(i, k, Len(s)) => j = k
    /\ \A k \in 1..Len(s) : \E j \in 1..Len(s) : Source(i, j, Len(s)) = k

LEMMA Removed ==
    ASSUME NEW S, NEW s \in Seq(S), NEW i \in 1..Len(s)
    PROVE  Without(S, s, i, SubSeq(s, 1, i - 1) \o SubSeq(s, i + 1, Len(s)))
<1> DEFINE n == Len(s)
           a == SubSeq(s, 1, i - 1)
           b == SubSeq(s, i + 1, n)
<1>0. n \in Nat /\ i \in Int /\ 1 <= i /\ i <= n
  OBVIOUS
<1>1. a \in Seq(S) /\ Len(a) = i - 1 /\ \A j \in 1..(i - 1) : a[j] = s[j]
  <2>1. 1 \in Int /\ i - 1 \in Int /\ \A j \in 1..(i - 1) : s[j] \in S
    BY <1>0
  <2>2. /\ a \in Seq(S) /\ Len(a) = IF 1 <= i - 1 THEN i - 1 - 1 + 1 ELSE 0
        /\ \A j \in 1..(i - 1 - 1 + 1) : a[j] = s[1 + j - 1]
    BY <2>1, SubSeqProperties
  <2>3. Len(a) = i - 1
    BY <1>0, <2>2
  <2>4. i - 1 - 1 + 1 = i - 1 /\ \A j \in 1..(i - 1) : 1 + j - 1 = j
    BY <1>0
  <2>5. \A j \in 1..(i - 1) : a[j] = s[j]
    BY <2>2, <2>4
  <2> QED
    BY <2>2, <2>3, <2>5
<1>2. b \in Seq(S) /\ Len(b) = n - i /\ \A j \in 1..(n - i) : b[j] = s[j + i]
  <2>1. i + 1 \in Int /\ n \in Int /\ \A j \in (i + 1)..n : s[j] \in S
    BY <1>0
  <2>2. /\ b \in Seq(S) /\ Len(b) = IF i + 1 <= n THEN n - (i + 1) + 1 ELSE 0
        /\ \A j \in 1..(n - (i + 1) + 1) : b[j] = s[i + 1 + j - 1]
    BY <2>1, SubSeqProperties
  <2>3. Len(b) = n - i
    BY <1>0, <2>2
  <2>4. n - (i + 1) + 1 = n - i /\ \A j \in 1..(n - i) : i + 1 + j - 1 = j + i
    BY <1>0
  <2>5. \A j \in 1..(n - i) : b[j] = s[j + i]
    BY <2>2, <2>4
  <2> QED
    BY <2>2, <2>3, <2>5
<1> HIDE DEF n, a, b
<1>4. a \o b \in Seq(S) /\ Len(a \o b) = n - 1
  <2>1. a \o b \in Seq(S) /\ Len(a \o b) = Len(a) + Len(b)
    BY <1>1, <1>2, ConcatProperties
  <2>2. i - 1 + (n - i) = n - 1
    BY <1>0
  <2> QED
    BY <1>1, <1>2, <2>1, <2>2
<1>5. \A j \in 1..(n - 1) : (a \o b)[j] = IF j < i THEN s[j] ELSE s[j + 1]
  <2> SUFFICES ASSUME NEW j \in 1..(n - 1)
               PROVE  (a \o b)[j] = IF j < i THEN s[j] ELSE s[j + 1]
    OBVIOUS
  <2>1. \A k \in 1..(Len(a) + Len(b)) :
          (a \o b)[k] = IF k <= Len(a) THEN a[k] ELSE b[k - Len(a)]
    BY <1>1, <1>2, ConcatProperties
  <2>2. j \in 1..(Len(a) + Len(b)) /\ (j <= Len(a) <=> j < i) /\ j - Len(a) = j - i + 1
    BY <1>0, <1>1, <1>2
  <2>3. CASE j < i
    <3>1. (a \o b)[j] = a[j] /\ j \in 1..(i - 1)
      BY <1>0, <2>1, <2>2, <2>3
    <3> QED
      BY <1>1, <2>3, <3>1
  <2>4. CASE ~(j < i)
    <3>1. (a \o b)[j] = b[j - i + 1] /\ j - i + 1 \in 1..(n - i)
      BY <1>0, <2>1, <2>2, <2>4, SMTT(60)
    <3>2. j - i + 1 + i = j + 1
      BY <1>0
    <3> QED
      BY <1>2, <2>4, <3>1, <3>2
  <2> QED
    BY <2>3, <2>4
<1> QED
  BY <1>4, <1>5 DEF a, b, n, Without

LEMMA MoveLast ==
    ASSUME NEW S, NEW s \in Seq(S), NEW i \in 1..Len(s), NEW c \in Seq(S), Without(S, s, i, c)
    PROVE  Moved(S, s, i, Append(c, s[i]))
<1> DEFINE n == Len(s)
           x == s[i]
           later == Append(c, x)
<1>0. /\ n \in Nat /\ i \in Int /\ 1 <= i /\ i <= n /\ x \in S
      /\ DOMAIN s = 1..n
  OBVIOUS
<1>a. /\ Len(c) = n - 1
      /\ \A j \in 1..(n - 1) : c[j] = IF j < i THEN s[j] ELSE s[j + 1]
  BY DEF Without
<1>x. s[i] = x
  OBVIOUS
<1> HIDE DEF n, x
<1>b. Len(c) + 1 = n
  BY <1>0, <1>a
<1>7. /\ later \in Seq(S) /\ Len(later) = n /\ later[n] = x /\ DOMAIN later = 1..n
      /\ \A j \in 1..(n - 1) : later[j] = IF j < i THEN s[j] ELSE s[j + 1]
  <2>1. /\ later \in Seq(S) /\ Len(later) = Len(c) + 1 /\ DOMAIN later = 1..(Len(c) + 1)
        /\ \A j \in 1..Len(c) : later[j] = c[j]
        /\ later[Len(c) + 1] = x
    BY <1>0, AppendForms
  <2>2. \A j \in 1..(n - 1) : later[j] = c[j]
    BY <1>a, <2>1
  <2> QED
    BY <1>a, <1>b, <2>1, <2>2
<1> HIDE DEF later
<1>8. \A j \in 1..n : Source(i, j, n) \in 1..n /\ later[j] = s[Source(i, j, n)]
  <2> SUFFICES ASSUME NEW j \in 1..n
               PROVE  Source(i, j, n) \in 1..n /\ later[j] = s[Source(i, j, n)]
    OBVIOUS
  <2>1. CASE j = n
    <3>1. Source(i, j, n) = i
      BY <1>0, <2>1 DEF Source
    <3>2. i \in 1..n /\ later[j] = s[i]
      BY <1>0, <1>7, <1>x, <2>1
    <3> QED
      BY <3>1, <3>2
  <2>2. CASE j # n
    <3>1. j \in 1..(n - 1)
      BY <1>0, <2>2
    <3>2. later[j] = IF j < i THEN s[j] ELSE s[j + 1]
      BY <1>7, <3>1
    <3>3. Source(i, j, n) = IF j < i THEN j ELSE j + 1
      BY <1>0, <3>1 DEF Source
    <3>4. Source(i, j, n) \in 1..n
      BY <1>0, <3>1 DEF Source
    <3> QED
      BY <3>2, <3>3, <3>4
  <2> QED
    BY <2>1, <2>2
<1>9. \A j, k \in 1..n : Source(i, j, n) = Source(i, k, n) => j = k
  BY <1>0 DEF Source
<1>10. \A k \in 1..n : \E j \in 1..n : Source(i, j, n) = k
  <2> SUFFICES ASSUME NEW k \in 1..n PROVE \E j \in 1..n : Source(i, j, n) = k
    OBVIOUS
  <2>1. CASE k < i
    BY <1>0, <2>1 DEF Source
  <2>2. CASE k = i
    <3>1. n \in 1..n /\ Source(i, n, n) = i
      BY <1>0 DEF Source
    <3> QED
      BY <2>2, <3>1
  <2>3. CASE k > i
    <3>1. k - 1 \in 1..n /\ Source(i, k - 1, n) = k
      BY <1>0, <2>3 DEF Source
    <3> QED
      BY <3>1
  <2> QED
    BY <1>0, <2>1, <2>2, <2>3
<1> QED
  BY <1>0, <1>7, <1>8, <1>9, <1>10 DEF later, n, x, Moved

(* The first element dropped. *)
LEMMA TailForms ==
    ASSUME NEW S, NEW s \in Seq(S), s # <<>>
    PROVE  /\ Tail(s) \in Seq(S) /\ Len(Tail(s)) = Len(s) - 1 /\ Len(s) \in Nat /\ Len(s) >= 1
           /\ \A j \in 1..(Len(s) - 1) : Tail(s)[j] = s[j + 1]
           /\ Head(s) = s[1] /\ 1 \in DOMAIN s /\ DOMAIN s = 1..Len(s)
           /\ DOMAIN Tail(s) = 1..(Len(s) - 1)
           /\ {Tail(s)[i] : i \in DOMAIN Tail(s)} \subseteq {s[i] : i \in DOMAIN s}
           /\ \A i \in DOMAIN s : s[i] = Head(s) \/ s[i] \in {Tail(s)[j] : j \in DOMAIN Tail(s)}
<1>1. Len(s) \in Nat /\ Len(s) >= 1 /\ DOMAIN s = 1..Len(s) /\ Head(s) = s[1] /\ 1 \in DOMAIN s
  OBVIOUS
<1>2. /\ Tail(s) \in Seq(S) /\ Len(Tail(s)) = Len(s) - 1
      /\ \A j \in 1..(Len(s) - 1) : Tail(s)[j] = s[j + 1]
      /\ DOMAIN Tail(s) = 1..(Len(s) - 1)
  OBVIOUS
<1>3. \A j \in 1..(Len(s) - 1) : j + 1 \in 1..Len(s)
  BY <1>1
<1>4. {Tail(s)[i] : i \in DOMAIN Tail(s)} \subseteq {s[i] : i \in DOMAIN s}
  BY <1>1, <1>2, <1>3
<1>5. \A i \in DOMAIN s : s[i] = Head(s) \/ s[i] \in {Tail(s)[j] : j \in DOMAIN Tail(s)}
  <2> SUFFICES ASSUME NEW i \in 1..Len(s), i # 1
               PROVE  s[i] \in {Tail(s)[j] : j \in DOMAIN Tail(s)}
    BY <1>1
  <2>1. i - 1 \in 1..(Len(s) - 1) /\ i - 1 + 1 = i
    BY <1>1
  <2>2. Tail(s)[i - 1] = s[i]
    BY <1>2, <2>1
  <2> QED
    BY <1>2, <2>1, <2>2
<1> QED
  BY <1>1, <1>2, <1>4, <1>5

-----------------------------------------------------------------------------
LEMMA ClientsBegin == ClientsInit => ClientsInv
<1> SUFFICES ASSUME ClientsInit PROVE ClientsInv
  OBVIOUS
<1>a. \A o \in Object : Calling(o) = {}
  BY DEF ClientsInit, Calling, Running
<1>1. ClientsTypeOK
  <2>1. pool \in Seq(Object) /\ todo \in Seq(Object)
    BY DEF ClientsInit
  <2>2. calls \in 0..MaxConnections
    BY ClientsAssumption DEF ClientsInit
  <2>3. /\ late \in [Request -> BOOLEAN] /\ retired \in [Object -> BOOLEAN]
        /\ keyOf \in [Object -> Key]
    BY DEF ClientsInit
  <2>4. /\ slot \in [Object -> [Kind -> Http \cup {NoHttp}]]
        /\ using \in [Request -> Http \cup {NoHttp}]
        /\ object \in [Request -> Object] /\ active \in [Object -> Nat]
    BY DEF ClientsInit, Object
  <2>5. /\ at \in [Request -> {"new", "routed", Running, "leaving", "done"}]
        /\ task \in [Object -> CloseStage \cup {"none"}]
        /\ ender \in [Request -> CloseStage \cup {"none"}]
        /\ closer \in CloseStage \cup {"none", "next"}
    BY DEF ClientsInit
  <2>6. lateUsed \in SUBSET Object /\ open \in SUBSET Http
    BY DEF ClientsInit
  <2> QED
    BY <2>1, <2>2, <2>3, <2>4, <2>5, <2>6 DEF ClientsTypeOK
<1>2. OwnOf
  BY DEF ClientsInit, OwnOf, Running
<1>3. CountOf
  <2>1. IsFiniteSet({}) /\ Cardinality({}) = 0
    BY FS_EmptySet
  <2> QED
    BY <1>a, <2>1 DEF CountOf, ClientsInit
<1>4. MapOf
  <2>1. Len(pool) <= PoolEntries
    BY ClientsAssumption DEF ClientsInit
  <2> QED
    BY <2>1 DEF ClientsInit, MapOf, ShuttingDown, Object
<1>5. HomeOf /\ QuitOf
  BY DEF ClientsInit, HomeOf, QuitOf, Closing
<1>6. EarlyCallUncut /\ SlotOf
  BY DEF ClientsInit, EarlyCallUncut, SlotOf, Running
<1>7. StageOf /\ AttendedOf
  BY DEF ClientsInit, StageOf, AttendedOf, Closing, Passed, PassedIn
<1> QED
  BY <1>1, <1>2, <1>3, <1>4, <1>5, <1>6, <1>7 DEF ClientsInv

-----------------------------------------------------------------------------
(* What one step of a close does to the HTTP clients. *)
LEMMA CloseEffect ==
    ASSUME ClientsTypeOK, OwnOf, SlotOf, NEW o \in Object, NEW step, Closing(step),
           CloseStep(o, step)
    PROVE  /\ NextStage(o, step) \in {"plain", "stream", "done"}
           /\ slot' \in [Object -> [Kind -> Http \cup {NoHttp}]]
           /\ open' \subseteq open
           /\ \A p \in Object : p # o => slot'[p] = slot[p]
           /\ \A k \in Kind : slot'[o][k] \in {slot[o][k], NoHttp}
           /\ \A c \in open : c[1] # o => c \in open'
           /\ o \notin lateUsed /\ Passed(o, step) =>
                /\ \A c \in open' : c[1] = o =>
                      NextStage(o, step) # "done" /\ \E k \in Kind : slot'[o][k] = c
                /\ PassedIn(slot'[o], open', NextStage(o, step))
<1> DEFINE next == NextStage(o, step)
<1>0. /\ slot \in [Object -> [Kind -> Http \cup {NoHttp}]] /\ open \in SUBSET Http
      /\ NoHttp \notin Http /\ NoHttp \notin open
  BY ClientsAssumption DEF ClientsTypeOK
<1>1. next \in {"plain", "stream", "done"}
  BY DEF NextStage
<1>2. /\ next = "plain" => step = "start" /\ slot[o]["plain"] \in open
      /\ next = "stream" => /\ step \in {"start", "plain"} /\ slot[o]["stream"] \in open
                            /\ step = "start" => slot[o]["plain"] \notin open
      /\ next = "done" => /\ step \in {"start", "plain"} => slot[o]["stream"] \notin open
                          /\ step = "start" => slot[o]["plain"] \notin open
  BY DEF NextStage
<1>3. /\ slot' = [slot EXCEPT
           ![o]["plain"] = IF next = "plain" THEN @ ELSE NoHttp,
           ![o]["stream"] = IF next = "done" THEN NoHttp ELSE @]
      /\ open' = IF next = "done" THEN open ELSE open \ {slot[o][next]}
  BY DEF CloseStep
<1> HIDE DEF next
<1>k. Kind = {"plain", "stream"}
  BY DEF Kind
<1>4. /\ slot'[o]["plain"] = IF next = "plain" THEN slot[o]["plain"] ELSE NoHttp
      /\ slot'[o]["stream"] = IF next = "done" THEN NoHttp ELSE slot[o]["stream"]
  BY <1>0, <1>3, <1>k
<1>5. slot' \in [Object -> [Kind -> Http \cup {NoHttp}]]
  <2>1. /\ slot[o] \in [Kind -> Http \cup {NoHttp}]
        /\ \A v, w \in Http \cup {NoHttp} :
             [[slot[o] EXCEPT !["plain"] = v] EXCEPT !["stream"] = w]
               \in [Kind -> Http \cup {NoHttp}]
    BY <1>0, <1>k
  <2> QED
    BY <1>0, <1>3, <1>k
<1>6. \A p \in Object : p # o => slot'[p] = slot[p]
  BY <1>0, <1>3
<1>7. \A k \in Kind : slot'[o][k] \in {slot[o][k], NoHttp}
  BY <1>4, <1>k
<1>8. open' \subseteq open
  BY <1>3
<1>9. \A c \in open : c[1] # o => c \in open'
  <2>1. next # "done" => slot[o][next] \in Http /\ slot[o][next] # NoHttp
    BY <1>0, <1>1, <1>2
  <2>2. next # "done" => slot[o][next][1] = o
    BY <1>1, <1>k, <2>1 DEF OwnOf
  <2> QED
    BY <1>3, <2>2
<1>10. ASSUME o \notin lateUsed, Passed(o, step)
       PROVE  /\ \A c \in open' : c[1] = o => next # "done" /\ \E k \in Kind : slot'[o][k] = c
              /\ PassedIn(slot'[o], open', next)
  <2>0. /\ step \in {"plain", "stream"} => slot[o]["plain"] \notin open
        /\ step = "stream" => slot[o]["stream"] \notin open
    BY <1>10 DEF Passed, PassedIn
  <2>1. \A c \in open : c[1] = o => slot[o]["plain"] = c \/ slot[o]["stream"] = c
    BY <1>10, <1>k DEF SlotOf
  <2>2. step \in {"start", "plain", "stream"}
    BY DEF Closing
  <2>3. CASE next = "plain"
    <3>1. step = "start" /\ open' = open \ {slot[o]["plain"]}
      BY <1>2, <1>3, <2>3
    <3>2. \A c \in open' : c[1] = o => c = slot'[o]["stream"]
      BY <1>4, <2>1, <2>3, <3>1
    <3> QED
      BY <1>k, <1>4, <2>3, <3>1, <3>2 DEF PassedIn
  <2>4. CASE next = "stream"
    <3>1. slot[o]["plain"] \notin open /\ open' = open \ {slot[o]["stream"]}
      BY <1>2, <1>3, <2>0, <2>4
    <3>2. \A c \in open' : c[1] # o
      BY <2>1, <3>1
    <3> QED
      BY <1>0, <1>4, <2>4, <3>1, <3>2 DEF PassedIn
  <2>5. CASE next = "done"
    <3>1. slot[o]["plain"] \notin open /\ slot[o]["stream"] \notin open /\ open' = open
      BY <1>2, <1>3, <2>0, <2>2, <2>5
    <3>2. \A c \in open' : c[1] # o
      BY <2>1, <3>1
    <3> QED
      BY <2>5, <3>2 DEF PassedIn
  <2> QED
    BY <1>1, <2>3, <2>4, <2>5
<1> QED
  BY <1>1, <1>5, <1>6, <1>7, <1>8, <1>9, <1>10 DEF next

(* What a step of a close leaves alone, whoever takes it. *)
CloseFrame ==
    /\ UNCHANGED <<object, using, late, calls, pool, keyOf, retired, active, lateUsed>>
    /\ \A r \in Request : (at'[r] = Running <=> at[r] = Running) /\ (at'[r] = "new" <=> at[r] = "new")

LEMMA CallingStays == CloseFrame => \A o \in Object : Calling(o)' = Calling(o)
BY DEF CloseFrame, Calling

LEMMA QuitStays == CloseFrame => \A o \in Object : Quit(o)' <=> Quit(o)
<1> SUFFICES ASSUME CloseFrame, NEW o \in Object PROVE Quit(o)' <=> Quit(o)
  OBVIOUS
<1>1. Calling(o)' = Calling(o)
  BY CallingStays
<1>2. retired' = retired /\ late' = late
  BY DEF CloseFrame
<1> QED
  BY <1>1, <1>2 DEF Quit

LEMMA CloseKeeps ==
    ASSUME ClientsInv, CloseFrame, NEW o \in Object, NEW step, Closing(step), Quit(o),
           CloseStep(o, step), o \notin lateUsed => Passed(o, step)
    PROVE  /\ OwnOf' /\ CountOf' /\ EarlyCallUncut' /\ SlotOf'
           /\ slot' \in [Object -> [Kind -> Http \cup {NoHttp}]]
           /\ open' \subseteq open
           /\ \A p \in Object : \A q : PassedIn(slot[p], open, q) => PassedIn(slot'[p], open', q)
           /\ NextStage(o, step) \in {"plain", "stream", "done"}
           /\ o \notin lateUsed =>
                /\ PassedIn(slot'[o], open', NextStage(o, step))
                /\ \A c \in open' : c[1] = o => NextStage(o, step) # "done"
<1>0. ClientsTypeOK /\ OwnOf /\ SlotOf /\ CountOf /\ EarlyCallUncut
  BY DEF ClientsInv
<1>a. /\ slot \in [Object -> [Kind -> Http \cup {NoHttp}]] /\ open \in SUBSET Http
      /\ NoHttp \notin open /\ object \in [Request -> Object] /\ late \in [Request -> BOOLEAN]
      /\ "plain" \in Kind /\ "stream" \in Kind
  BY <1>0, ClientsAssumption DEF ClientsTypeOK, Kind
<1>1. /\ NextStage(o, step) \in {"plain", "stream", "done"}
      /\ slot' \in [Object -> [Kind -> Http \cup {NoHttp}]]
      /\ open' \subseteq open
      /\ \A p \in Object : p # o => slot'[p] = slot[p]
      /\ \A k \in Kind : slot'[o][k] \in {slot[o][k], NoHttp}
      /\ \A c \in open : c[1] # o => c \in open'
      /\ o \notin lateUsed =>
           /\ \A c \in open' : c[1] = o =>
                 NextStage(o, step) # "done" /\ \E k \in Kind : slot'[o][k] = c
           /\ PassedIn(slot'[o], open', NextStage(o, step))
  BY <1>0, CloseEffect
<1>2. /\ UNCHANGED <<object, using, late, retired, active, lateUsed>>
      /\ \A r \in Request : at'[r] = Running <=> at[r] = Running
  BY DEF CloseFrame
<1>3. OwnOf'
  <2>1. ASSUME NEW p \in Object, NEW k \in Kind, slot'[p][k] # NoHttp PROVE slot'[p][k][1] = p
    <3>1. slot'[p][k] = slot[p][k]
      BY <1>1, <2>1
    <3> QED
      BY <1>0, <2>1, <3>1 DEF OwnOf
  <2>2. \A r \in Request : at'[r] = Running => using'[r] \in Http /\ using'[r][1] = object'[r]
    BY <1>0, <1>2 DEF OwnOf
  <2> QED
    BY <2>1, <2>2 DEF OwnOf
<1>4. CountOf'
  BY <1>0, <1>2, CallingStays DEF CountOf
<1>5. EarlyCallUncut'
  <2> SUFFICES ASSUME NEW r \in Request, at[r] = Running, ~late[r] PROVE using[r] \in open'
    BY <1>2 DEF EarlyCallUncut
  <2>1. using[r] \in open /\ using[r][1] = object[r]
    BY <1>0 DEF EarlyCallUncut, OwnOf
  <2>2. object[r] # o
    BY <1>a DEF Quit, Calling
  <2> QED
    BY <1>1, <2>1, <2>2
<1>6. SlotOf'
  <2>1. ASSUME NEW p \in Object, ~retired[p], NEW k \in Kind
        PROVE  slot'[p][k] \in open' \cup {NoHttp}
    <3>1. p # o
      BY <2>1 DEF Quit
    <3>2. slot'[p][k] = slot[p][k] /\ slot[p][k] \in open \cup {NoHttp}
      BY <1>0, <1>1, <2>1, <3>1 DEF SlotOf
    <3>3. slot[p][k] # NoHttp => slot[p][k][1] = p
      BY <1>0 DEF OwnOf
    <3> QED
      BY <1>1, <3>1, <3>2, <3>3
  <2>2. lateUsed' \subseteq {p \in Object : retired'[p]}
    BY <1>0, <1>2 DEF SlotOf
  <2>3. ASSUME NEW c \in open', c[1] \notin lateUsed PROVE \E k \in Kind : slot'[c[1]][k] = c
    <3>1. CASE c[1] = o
      BY <1>1, <2>3, <3>1
    <3>2. CASE c[1] # o
      <4>1. c \in open /\ c[1] \in Object
        BY <1>a, <1>1 DEF Http
      <4> QED
        BY <1>0, <1>1, <2>3, <3>2, <4>1 DEF SlotOf
    <3> QED
      BY <3>1, <3>2
  <2> QED
    BY <1>2, <2>1, <2>2, <2>3 DEF SlotOf
<1>7. ASSUME NEW p \in Object, NEW q, PassedIn(slot[p], open, q)
      PROVE  PassedIn(slot'[p], open', q)
  <2>1. \A k \in Kind : slot'[p][k] = slot[p][k] \/ slot'[p][k] = NoHttp
    BY <1>1
  <2> QED
    BY <1>a, <1>1, <1>7, <2>1 DEF PassedIn
<1> QED
  BY <1>1, <1>3, <1>4, <1>5, <1>6, <1>7

-----------------------------------------------------------------------------
(* The steps of the three that close. *)
LEMMA TaskStepKeeps == ASSUME ClientsInv, NEW o \in Object, TaskStep(o) PROVE ClientsInv'
<1>0. /\ ClientsTypeOK /\ MapOf /\ HomeOf /\ QuitOf /\ StageOf /\ AttendedOf
  BY DEF ClientsInv
<1>1. /\ Closing(task[o]) /\ CloseStep(o, task[o])
      /\ task' = [task EXCEPT ![o] = NextStage(o, task[o])]
      /\ UNCHANGED <<at, object, using, late, calls, pool, keyOf, retired, active, lateUsed,
                     ender, todo, closer>>
  BY DEF TaskStep, requestVars, closeVars
<1>2. CloseFrame
  BY <1>1 DEF CloseFrame
<1>3. Quit(o) /\ (o \notin lateUsed => Passed(o, task[o]))
  BY <1>0, <1>1 DEF QuitOf, StageOf
<1>4. /\ OwnOf' /\ CountOf' /\ EarlyCallUncut' /\ SlotOf'
      /\ slot' \in [Object -> [Kind -> Http \cup {NoHttp}]]
      /\ open' \subseteq open
      /\ \A p \in Object : \A q : PassedIn(slot[p], open, q) => PassedIn(slot'[p], open', q)
      /\ NextStage(o, task[o]) \in {"plain", "stream", "done"}
      /\ o \notin lateUsed =>
           /\ PassedIn(slot'[o], open', NextStage(o, task[o]))
           /\ \A c \in open' : c[1] = o => NextStage(o, task[o]) # "done"
  BY <1>1, <1>2, <1>3, CloseKeeps
<1>5. /\ task' \in [Object -> CloseStage \cup {"none"}]
      /\ task'[o] = NextStage(o, task[o])
      /\ \A p \in Object : p # o => task'[p] = task[p]
  <2>1. task \in [Object -> CloseStage \cup {"none"}] /\ {"plain", "stream", "done"} \subseteq CloseStage
    BY <1>0 DEF ClientsTypeOK, CloseStage
  <2> QED
    BY <1>1, <1>4, <2>1
<1>6. ClientsTypeOK'
  BY <1>0, <1>1, <1>4, <1>5 DEF ClientsTypeOK
<1>7. MapOf'
  BY <1>0, <1>1 DEF MapOf, ShuttingDown
<1>8. HomeOf'
  BY <1>0, <1>1, <1>4 DEF HomeOf, Pooled, Todo
<1>o. object \in [Request -> Object] /\ todo \in Seq(Object)
  BY <1>0 DEF ClientsTypeOK
<1>9. QuitOf'
  <2>0. \A p \in Object : Quit(p)' <=> Quit(p)
    BY <1>2, QuitStays
  <2>1. \A p \in Object : Closing(task'[p]) => Quit(p)'
    <3>1. Quit(o)'
      BY <1>3, <2>0
    <3>2. \A p \in Object : p # o /\ Closing(task'[p]) => Quit(p)'
      BY <1>0, <1>5, <2>0 DEF QuitOf
    <3> QED
      BY <3>1, <3>2
  <2>2. \A r \in Request : at'[r] = "leaving" => object'[r] \in Object /\ Quit(object[r])'
    BY <1>0, <1>1, <1>o, <2>0 DEF QuitOf
  <2>3. Closing(closer') => todo' # <<>> /\ Quit(Head(todo))'
    <3>1. todo # <<>> => Head(todo) \in Object
      BY <1>o
    <3> QED
      BY <1>0, <1>1, <2>0, <3>1 DEF QuitOf
  <2> QED
    BY <1>0, <1>1, <2>1, <2>2, <2>3 DEF QuitOf
<1>10. StageOf'
  <2>1. \A p \in Object : p \notin lateUsed => PassedIn(slot'[p], open', task'[p])
    BY <1>0, <1>4, <1>5 DEF StageOf, Passed
  <2>2. \A r \in Request :
          at[r] = "leaving" /\ object[r] \notin lateUsed => PassedIn(slot'[object[r]], open', ender[r])
    BY <1>0, <1>4, <1>o DEF StageOf, Passed
  <2>3. Closing(closer) /\ Head(todo) \notin lateUsed => PassedIn(slot'[Head(todo)], open', closer)
    <3>1. Closing(closer) => Head(todo) \in Object
      BY <1>0, <1>o DEF QuitOf
    <3> QED
      BY <1>0, <1>4, <3>1 DEF StageOf, Passed
  <2> QED
    BY <1>1, <2>1, <2>2, <2>3 DEF StageOf, Passed
<1>11. AttendedOf'
  <2> SUFFICES ASSUME NEW c \in open', c[1] \notin lateUsed PROVE Attended(c[1])'
    BY <1>1 DEF AttendedOf
  <2>0. c \in open /\ c[1] \in Object
    BY <1>0, <1>4 DEF ClientsTypeOK, Http
  <2>1. CASE c[1] = o
    <3>1. Closing(task'[o])
      BY <1>4, <1>5, <2>1 DEF Closing
    <3> QED
      BY <2>1, <3>1 DEF Attended
  <2>2. CASE c[1] # o
    <3>1. Attended(c[1]) /\ task'[c[1]] = task[c[1]]
      BY <1>0, <1>5, <2>0, <2>2 DEF AttendedOf
    <3>2. Calling(c[1])' = Calling(c[1])
      BY <1>2, <2>0, CallingStays
    <3> QED
      BY <1>1, <3>1, <3>2 DEF Attended, Pooled
  <2> QED
    BY <2>1, <2>2
<1> QED
  BY <1>4, <1>6, <1>7, <1>8, <1>9, <1>10, <1>11 DEF ClientsInv

LEMMA EndStepKeeps == ASSUME ClientsInv, NEW r \in Request, EndStep(r) PROVE ClientsInv'
<1> DEFINE o == object[r]
<1>0. /\ ClientsTypeOK /\ MapOf /\ HomeOf /\ QuitOf /\ StageOf /\ AttendedOf
  BY DEF ClientsInv
<1>o. object \in [Request -> Object] /\ todo \in Seq(Object) /\ o \in Object
  BY <1>0 DEF ClientsTypeOK
<1>1. /\ at[r] = "leaving" /\ CloseStep(o, ender[r])
      /\ ender' = [ender EXCEPT ![r] = NextStage(o, ender[r])]
      /\ at' = [at EXCEPT ![r] = IF ender'[r] = "done" THEN "routed" ELSE at[r]]
      /\ UNCHANGED <<object, using, late, calls, pool, keyOf, retired, active, lateUsed,
                     task, todo, closer>>
  BY DEF EndStep
<1>n. NextStage(o, ender[r]) \in {"plain", "stream", "done"}
  BY DEF NextStage
<1>5. /\ ender' \in [Request -> CloseStage \cup {"none"}]
      /\ ender'[r] = NextStage(o, ender[r])
      /\ \A q \in Request : q # r => ender'[q] = ender[q]
  <2>1. ender \in [Request -> CloseStage \cup {"none"}] /\ {"plain", "stream", "done"} \subseteq CloseStage
    BY <1>0 DEF ClientsTypeOK, CloseStage
  <2> QED
    BY <1>1, <1>n, <2>1
<1>a. /\ at \in [Request -> {"new", "routed", Running, "leaving", "done"}]
      /\ at' \in [Request -> {"new", "routed", Running, "leaving", "done"}]
      /\ at'[r] = IF ender'[r] = "done" THEN "routed" ELSE "leaving"
      /\ \A q \in Request : q # r => at'[q] = at[q]
  BY <1>0, <1>1 DEF ClientsTypeOK
<1>2. CloseFrame
  BY <1>1, <1>a DEF CloseFrame, Running
<1>c. Closing(ender[r])
  BY <1>0, <1>1 DEF QuitOf
<1>3. Quit(o) /\ (o \notin lateUsed => Passed(o, ender[r]))
  BY <1>0, <1>1 DEF QuitOf, StageOf
<1> HIDE DEF o
<1>4. /\ OwnOf' /\ CountOf' /\ EarlyCallUncut' /\ SlotOf'
      /\ slot' \in [Object -> [Kind -> Http \cup {NoHttp}]]
      /\ open' \subseteq open
      /\ \A p \in Object : \A q : PassedIn(slot[p], open, q) => PassedIn(slot'[p], open', q)
      /\ o \notin lateUsed =>
           /\ PassedIn(slot'[o], open', NextStage(o, ender[r]))
           /\ \A c \in open' : c[1] = o => NextStage(o, ender[r]) # "done"
  BY <1>1, <1>2, <1>3, <1>o, <1>c, CloseKeeps
<1>6. ClientsTypeOK'
  BY <1>0, <1>1, <1>4, <1>5, <1>a DEF ClientsTypeOK
<1>7. MapOf'
  <2>1. \A q \in Request : at'[q] = "new" <=> at[q] = "new"
    BY <1>2 DEF CloseFrame
  <2>2. (\A i \in DOMAIN pool : pool[i] \in Request) /\ (\A i \in DOMAIN todo : todo[i] \in Request)
    BY <1>0 DEF ClientsTypeOK, Object
  <2>3. \A q \in Request : object[q] \in Request
    BY <1>o DEF Object
  <2> QED
    BY <1>0, <1>1, <2>1, <2>2, <2>3 DEF MapOf, ShuttingDown
<1>8. HomeOf'
  <2>1. \A q \in Request : at'[q] = "new" <=> at[q] = "new"
    BY <1>2 DEF CloseFrame
  <2> QED
    BY <1>0, <1>1, <1>4, <2>1 DEF HomeOf, Pooled, Todo
<1>9. QuitOf'
  <2>0. \A p \in Object : Quit(p)' <=> Quit(p)
    BY <1>2, QuitStays
  <2>1. \A p \in Object : Closing(task'[p]) => Quit(p)'
    BY <1>0, <1>1, <2>0 DEF QuitOf
  <2>2. \A q \in Request : at'[q] = "leaving" <=> Closing(ender'[q])
    <3>1. at'[r] = "leaving" <=> Closing(ender'[r])
      BY <1>5, <1>a, <1>n DEF Closing
    <3> QED
      BY <1>0, <1>5, <1>a, <3>1 DEF QuitOf
  <2>3. \A q \in Request : at'[q] = "leaving" => at[q] = "leaving"
    BY <1>1, <1>a
  <2>4. \A q \in Request : at'[q] = "leaving" => Quit(object[q])'
    BY <1>0, <1>1, <1>o, <2>0, <2>3 DEF QuitOf
  <2>5. Closing(closer') => todo' # <<>> /\ Quit(Head(todo))'
    <3>1. todo # <<>> => Head(todo) \in Object
      BY <1>o
    <3> QED
      BY <1>0, <1>1, <2>0, <3>1 DEF QuitOf
  <2> QED
    BY <1>1, <2>1, <2>2, <2>4, <2>5 DEF QuitOf
<1>10. StageOf'
  <2>1. \A p \in Object : p \notin lateUsed => PassedIn(slot'[p], open', task[p])
    BY <1>0, <1>4 DEF StageOf, Passed
  <2>2. \A q \in Request :
          at'[q] = "leaving" /\ object[q] \notin lateUsed =>
             PassedIn(slot'[object[q]], open', ender'[q])
    <3>1. object[r] \notin lateUsed => PassedIn(slot'[object[r]], open', ender'[r])
      BY <1>4, <1>5 DEF o
    <3>2. \A q \in Request : q # r /\ at[q] = "leaving" /\ object[q] \notin lateUsed =>
             PassedIn(slot'[object[q]], open', ender[q])
      BY <1>0, <1>4, <1>o DEF StageOf, Passed
    <3> QED
      BY <1>5, <1>a, <3>1, <3>2
  <2>3. Closing(closer) /\ Head(todo) \notin lateUsed => PassedIn(slot'[Head(todo)], open', closer)
    <3>1. Closing(closer) => Head(todo) \in Object
      BY <1>0, <1>o DEF QuitOf
    <3> QED
      BY <1>0, <1>4, <3>1 DEF StageOf, Passed
  <2> QED
    BY <1>1, <2>1, <2>2, <2>3 DEF StageOf, Passed
<1>11. AttendedOf'
  <2> SUFFICES ASSUME NEW c \in open', c[1] \notin lateUsed PROVE Attended(c[1])'
    BY <1>1 DEF AttendedOf
  <2>0. c \in open /\ c[1] \in Object
    BY <1>0, <1>4 DEF ClientsTypeOK, Http
  <2>1. CASE c[1] = o
    <3>1. Closing(ender'[r]) /\ object'[r] = c[1]
      BY <1>1, <1>4, <1>5, <1>n, <2>1 DEF Closing, o
    <3> QED
      BY <3>1 DEF Attended
  <2>2. CASE c[1] # o
    <3>1. Attended(c[1])
      BY <1>0, <2>0 DEF AttendedOf
    <3>2. Calling(c[1])' = Calling(c[1])
      BY <1>2, <2>0, CallingStays
    <3>3. \A q \in Request : object[q] = c[1] => ender'[q] = ender[q]
      BY <1>5, <2>2 DEF o
    <3> QED
      BY <1>1, <3>1, <3>2, <3>3 DEF Attended, Pooled
  <2> QED
    BY <2>1, <2>2
<1> QED
  BY <1>4, <1>6, <1>7, <1>8, <1>9, <1>10, <1>11 DEF ClientsInv

LEMMA CloserStepKeeps == ASSUME ClientsInv, CloserStep PROVE ClientsInv'
<1> DEFINE o == Head(todo)
           next == NextStage(o, closer)
<1>0. /\ ClientsTypeOK /\ MapOf /\ HomeOf /\ QuitOf /\ StageOf /\ AttendedOf
  BY DEF ClientsInv
<1>1. /\ Closing(closer) /\ CloseStep(o, closer)
      /\ \/ next = "done" /\ closer' = "next" /\ todo' = Tail(todo)
         \/ next # "done" /\ closer' = next /\ UNCHANGED todo
      /\ UNCHANGED <<at, object, using, late, calls, pool, keyOf, retired, active, lateUsed,
                     ender, task>>
  BY DEF CloserStep, requestVars
<1>n. next \in {"plain", "stream", "done"}
  BY DEF NextStage
<1>t. todo \in Seq(Object) /\ todo # <<>> /\ Quit(o)
  BY <1>0, <1>1 DEF ClientsTypeOK, QuitOf
<1>o. /\ object \in [Request -> Object] /\ o \in Object
      /\ Tail(todo) \in Seq(Object)
      /\ {Tail(todo)[i] : i \in DOMAIN Tail(todo)} \subseteq Todo
      /\ \A p \in Todo : p = o \/ p \in {Tail(todo)[i] : i \in DOMAIN Tail(todo)}
  <2>1. object \in [Request -> Object] /\ o \in Object
    BY <1>0, <1>t DEF ClientsTypeOK
  <2> QED
    BY <1>t, <2>1, TailForms DEF Todo
<1>2. CloseFrame
  BY <1>1 DEF CloseFrame
<1>3. o \notin lateUsed => Passed(o, closer)
  BY <1>0, <1>1 DEF StageOf
<1> HIDE DEF o, next
<1>4. /\ OwnOf' /\ CountOf' /\ EarlyCallUncut' /\ SlotOf'
      /\ slot' \in [Object -> [Kind -> Http \cup {NoHttp}]]
      /\ open' \subseteq open
      /\ \A p \in Object : \A q : PassedIn(slot[p], open, q) => PassedIn(slot'[p], open', q)
      /\ o \notin lateUsed =>
           /\ PassedIn(slot'[o], open', next)
           /\ \A c \in open' : c[1] = o => next # "done"
  BY <1>1, <1>2, <1>3, <1>o, <1>t, CloseKeeps DEF next
<1>5. /\ todo' \in Seq(Object) /\ Todo' \subseteq Todo
      /\ \A p \in Todo : p = o \/ p \in Todo'
      /\ closer' \in CloseStage \cup {"none", "next"} /\ closer' # "none" /\ closer # "none"
  BY <1>1, <1>n, <1>o, <1>t DEF Todo, CloseStage, Closing
<1>6. ClientsTypeOK'
  BY <1>0, <1>1, <1>4, <1>5 DEF ClientsTypeOK
<1>r. retired[o]
  BY <1>t DEF Quit
<1>7. MapOf'
  <2>1. \A i \in DOMAIN todo' : at[todo'[i]] # "new"
    <3>1. \A p \in Todo : at[p] # "new"
      BY <1>0 DEF MapOf, Todo
    <3> QED
      BY <1>5, <3>1 DEF Todo
  <2>2. ShuttingDown /\ ShuttingDown'
    BY <1>5 DEF ShuttingDown
  <2> QED
    BY <1>0, <1>1, <2>1, <2>2 DEF MapOf
<1>8. HomeOf'
  <2>1. \A p \in Pooled \cup Todo : ~retired[p] => p \in Pooled' \cup Todo'
    BY <1>1, <1>5, <1>r DEF Pooled
  <2> QED
    BY <1>0, <1>1, <1>4, <2>1 DEF HomeOf
<1>9. QuitOf'
  <2>0. \A p \in Object : Quit(p)' <=> Quit(p)
    BY <1>2, QuitStays
  <2>1. \A p \in Object : Closing(task'[p]) => Quit(p)'
    BY <1>0, <1>1, <2>0 DEF QuitOf
  <2>2. \A q \in Request : at'[q] = "leaving" => Quit(object[q])'
    BY <1>0, <1>1, <1>o, <2>0 DEF QuitOf
  <2>3. Closing(closer') => todo' # <<>> /\ Quit(Head(todo))'
    <3>1. Closing(closer') => todo' = todo
      BY <1>1 DEF Closing
    <3> QED
      BY <1>1, <1>t, <1>o, <2>0, <3>1 DEF o, Quit
  <2> QED
    BY <1>0, <1>1, <2>1, <2>2, <2>3 DEF QuitOf
<1>10. StageOf'
  <2>1. \A p \in Object : p \notin lateUsed => PassedIn(slot'[p], open', task[p])
    BY <1>0, <1>4 DEF StageOf, Passed
  <2>2. \A q \in Request :
          at[q] = "leaving" /\ object[q] \notin lateUsed =>
             PassedIn(slot'[object[q]], open', ender[q])
    BY <1>0, <1>4, <1>o DEF StageOf, Passed
  <2>3. Closing(closer') /\ Head(todo)' \notin lateUsed => PassedIn(slot'[Head(todo)'], open', closer')
    <3>1. Closing(closer') => todo' = todo /\ closer' = next
      BY <1>1 DEF Closing
    <3> QED
      BY <1>4, <3>1 DEF o
  <2> QED
    BY <1>1, <2>1, <2>2, <2>3 DEF StageOf, Passed
<1>11. AttendedOf'
  <2> SUFFICES ASSUME NEW c \in open', c[1] \notin lateUsed PROVE Attended(c[1])'
    BY <1>1 DEF AttendedOf
  <2>0. c \in open /\ c[1] \in Object
    BY <1>0, <1>4 DEF ClientsTypeOK, Http
  <2>1. CASE c[1] = o
    <3>1. todo' = todo
      BY <1>1, <1>4, <2>1
    <3>2. o \in Todo
      BY <1>t DEF Todo, o
    <3> QED
      BY <2>1, <3>1, <3>2 DEF Attended, Todo
  <2>2. CASE c[1] # o
    <3>1. Attended(c[1])
      BY <1>0, <2>0 DEF AttendedOf
    <3>2. Calling(c[1])' = Calling(c[1])
      BY <1>2, <2>0, CallingStays
    <3>3. c[1] \in Todo => c[1] \in Todo'
      BY <1>5, <2>2
    <3> QED
      BY <1>1, <3>1, <3>2, <3>3 DEF Attended, Pooled, Todo
  <2> QED
    BY <2>1, <2>2
<1> QED
  BY <1>4, <1>6, <1>7, <1>8, <1>9, <1>10, <1>11 DEF ClientsInv

-----------------------------------------------------------------------------
(* The shutdown. *)
LEMMA LeaveKeeps == ASSUME ClientsInv, NEW r \in Request, Leave(r) PROVE ClientsInv'
<1>0. /\ ClientsTypeOK /\ OwnOf /\ CountOf /\ MapOf /\ HomeOf /\ QuitOf
      /\ EarlyCallUncut /\ SlotOf /\ StageOf /\ AttendedOf
  BY DEF ClientsInv
<1>1. /\ at[r] = "routed" /\ at' = [at EXCEPT ![r] = "done"]
      /\ UNCHANGED <<object, using, late, calls, pool, keyOf, retired, active, slot, task,
                     lateUsed, open, ender, todo, closer>>
  BY DEF Leave, objectVars, closeVars
<1>a. /\ at' \in [Request -> {"new", "routed", Running, "leaving", "done"}]
      /\ at'[r] = "done" /\ \A q \in Request : q # r => at'[q] = at[q]
  BY <1>0, <1>1 DEF ClientsTypeOK
<1>b. \A q \in Request : /\ at'[q] = "new" <=> at[q] = "new"
                         /\ at'[q] = Running <=> at[q] = Running
                         /\ at'[q] = "leaving" <=> at[q] = "leaving"
  BY <1>1, <1>a DEF Running
<1>2. CloseFrame
  BY <1>1, <1>b DEF CloseFrame
<1>c. \A o \in Object : Calling(o)' = Calling(o) /\ (Quit(o)' <=> Quit(o))
  BY <1>2, CallingStays, QuitStays
<1>o. /\ object \in [Request -> Object] /\ todo \in Seq(Object)
      /\ \A i \in DOMAIN pool : pool[i] \in Object
      /\ \A i \in DOMAIN todo : todo[i] \in Object
      /\ todo # <<>> => Head(todo) \in Object
  <2>1. todo \in Seq(Object) /\ pool \in Seq(Object)
    BY <1>0 DEF ClientsTypeOK
  <2> QED
    BY <1>0, <2>1 DEF ClientsTypeOK
<1>3. ClientsTypeOK'
  BY <1>0, <1>1, <1>a DEF ClientsTypeOK
<1>4. OwnOf' /\ EarlyCallUncut'
  BY <1>0, <1>1, <1>b DEF OwnOf, EarlyCallUncut
<1>5. CountOf'
  BY <1>0, <1>1, <1>c DEF CountOf
<1>6. MapOf'
  BY <1>0, <1>1, <1>b, <1>o DEF MapOf, ShuttingDown, Object
<1>7. HomeOf' /\ SlotOf'
  BY <1>0, <1>1, <1>b DEF HomeOf, Pooled, Todo, SlotOf
<1>8. QuitOf'
  BY <1>0, <1>1, <1>b, <1>c, <1>o DEF QuitOf
<1>9. StageOf'
  BY <1>0, <1>1, <1>b DEF StageOf, Passed
<1>10. AttendedOf'
  <2> SUFFICES ASSUME NEW c \in open, c[1] \notin lateUsed PROVE Attended(c[1])'
    BY <1>1 DEF AttendedOf
  <2>1. Attended(c[1]) /\ c[1] \in Object
    BY <1>0 DEF AttendedOf, ClientsTypeOK, Http
  <2> QED
    BY <1>1, <1>c, <2>1 DEF Attended, Pooled
<1> QED
  BY <1>3, <1>4, <1>5, <1>6, <1>7, <1>8, <1>9, <1>10 DEF ClientsInv

LEMMA ShutdownKeeps == ASSUME ClientsInv, Shutdown PROVE ClientsInv'
<1>0. /\ ClientsTypeOK /\ OwnOf /\ CountOf /\ MapOf /\ HomeOf /\ QuitOf
      /\ EarlyCallUncut /\ SlotOf /\ StageOf /\ AttendedOf
  BY DEF ClientsInv
<1>1. /\ ~ShuttingDown /\ todo' = pool /\ pool' = <<>> /\ closer' = "next"
      /\ UNCHANGED <<at, object, using, late, calls, keyOf, retired, active, slot, task,
                     lateUsed, open, ender>>
  BY DEF Shutdown, requestVars, objectVars
<1>2. Todo = {} /\ Pooled' = {} /\ Todo' = Pooled
  BY <1>0, <1>1 DEF MapOf, Todo, Pooled
<1>c. \A o \in Object : Calling(o)' = Calling(o) /\ (Quit(o)' <=> Quit(o))
  BY <1>1 DEF Calling, Quit
<1>3. ClientsTypeOK'
  <2>1. <<>> \in Seq(Object)
    OBVIOUS
  <2> QED
    BY <1>0, <1>1, <2>1 DEF ClientsTypeOK
<1>4. OwnOf' /\ EarlyCallUncut' /\ SlotOf'
  BY <1>0, <1>1 DEF OwnOf, EarlyCallUncut, SlotOf
<1>5. CountOf'
  BY <1>0, <1>1, <1>c DEF CountOf
<1>6. MapOf'
  <2>1. Len(pool') <= PoolEntries
    BY <1>1, ClientsAssumption
  <2> QED
    BY <1>0, <1>1, <2>1 DEF MapOf, ShuttingDown
<1>7. HomeOf'
  BY <1>0, <1>1, <1>2 DEF HomeOf
<1>8. QuitOf'
  <2>1. object \in [Request -> Object]
    BY <1>0 DEF ClientsTypeOK
  <2> QED
    BY <1>0, <1>1, <1>c, <2>1 DEF QuitOf, Closing
<1>9. StageOf'
  BY <1>0, <1>1 DEF StageOf, Passed, Closing
<1>10. AttendedOf'
  <2> SUFFICES ASSUME NEW c \in open, c[1] \notin lateUsed PROVE Attended(c[1])'
    BY <1>1 DEF AttendedOf
  <2>1. Attended(c[1]) /\ c[1] \in Object
    BY <1>0 DEF AttendedOf, ClientsTypeOK, Http
  <2>2. c[1] \in Pooled \cup Todo => c[1] \in Pooled' \cup Todo'
    BY <1>2
  <2> QED
    BY <1>1, <1>c, <2>1, <2>2 DEF Attended, Todo
<1> QED
  BY <1>3, <1>4, <1>5, <1>6, <1>7, <1>8, <1>9, <1>10 DEF ClientsInv

LEMMA NoCalls == ASSUME CountOf, NEW o \in Object PROVE active[o] = 0 <=> Calling(o) = {}
BY FS_EmptySet DEF CountOf

LEMMA CloserVisitsKeeps == ASSUME ClientsInv, CloserVisits PROVE ClientsInv'
<1> DEFINE o == Head(todo)
<1>0. /\ ClientsTypeOK /\ OwnOf /\ CountOf /\ MapOf /\ HomeOf /\ QuitOf
      /\ EarlyCallUncut /\ SlotOf /\ StageOf /\ AttendedOf
  BY DEF ClientsInv
<1>1. /\ closer = "next" /\ todo # <<>> /\ retired' = [retired EXCEPT ![o] = TRUE]
      /\ \/ active[o] = 0 /\ closer' = "start" /\ UNCHANGED todo
         \/ active[o] # 0 /\ todo' = Tail(todo) /\ UNCHANGED closer
      /\ UNCHANGED <<at, object, using, late, calls, pool, keyOf, active, slot, task,
                     lateUsed, open, ender>>
  BY DEF CloserVisits, requestVars
<1>t. todo \in Seq(Object)
  BY <1>0 DEF ClientsTypeOK
<1>o. /\ object \in [Request -> Object] /\ o \in Object /\ o \in Todo
      /\ Tail(todo) \in Seq(Object)
      /\ {Tail(todo)[i] : i \in DOMAIN Tail(todo)} \subseteq Todo
      /\ \A p \in Todo : p = o \/ p \in {Tail(todo)[i] : i \in DOMAIN Tail(todo)}
  <2>1. object \in [Request -> Object] /\ o \in Object /\ o \in Todo
    BY <1>0, <1>1, <1>t DEF ClientsTypeOK, Todo
  <2> QED
    BY <1>1, <1>t, <2>1, TailForms DEF Todo
<1>n. active[o] = 0 <=> Calling(o) = {}
  BY <1>0, <1>o, NoCalls
<1> HIDE DEF o
<1>2. /\ retired' \in [Object -> BOOLEAN] /\ retired'[o]
      /\ \A p \in Object : p # o => retired'[p] = retired[p]
      /\ \A p \in Object : retired[p] => retired'[p]
  BY <1>0, <1>1, <1>o DEF ClientsTypeOK
<1>5. /\ todo' \in Seq(Object) /\ Todo' \subseteq Todo
      /\ \A p \in Todo : p = o \/ p \in Todo'
      /\ closer' \in CloseStage \cup {"none", "next"} /\ closer' # "none" /\ closer # "none"
  BY <1>1, <1>o, <1>t DEF Todo, CloseStage
<1>c. \A p \in Object : Calling(p)' = Calling(p) /\ (Quit(p) => Quit(p)')
  BY <1>1, <1>2 DEF Calling, Quit
<1>3. ClientsTypeOK'
  BY <1>0, <1>1, <1>2, <1>5 DEF ClientsTypeOK
<1>4. OwnOf' /\ EarlyCallUncut'
  BY <1>0, <1>1 DEF OwnOf, EarlyCallUncut
<1>6. CountOf'
  BY <1>0, <1>1, <1>c DEF CountOf
<1>7. MapOf'
  <2>0. \A p \in Todo : at[p] # "new"
    BY <1>0 DEF MapOf, Todo
  <2>1. \A i \in DOMAIN todo' : at[todo'[i]] # "new"
    BY <1>5, <2>0 DEF Todo
  <2>2. ShuttingDown /\ ShuttingDown' /\ pool = <<>>
    BY <1>0, <1>5 DEF ShuttingDown, MapOf
  <2>3. \A q \in Request : at[q] = "new" => ~retired'[q]
    BY <1>0, <1>2, <1>o, <2>0 DEF MapOf, Object
  <2> QED
    BY <1>0, <1>1, <2>1, <2>2, <2>3 DEF MapOf
<1>8. HomeOf'
  <2>1. \A p \in Pooled \cup Todo : p \in Object
    BY <1>0, <1>t DEF Pooled, Todo, ClientsTypeOK
  <2>2. \A p \in Pooled \cup Todo : ~retired'[p] => p \in Pooled' \cup Todo'
    BY <1>1, <1>2, <1>5 DEF Pooled
  <2>3. \A c \in open : c[1] \in Object
    BY <1>0 DEF ClientsTypeOK, Http
  <2> QED
    BY <1>0, <1>1, <1>2, <1>o, <2>2, <2>3 DEF HomeOf
<1>9. QuitOf'
  <2>1. \A p \in Object : Closing(task'[p]) => Quit(p)'
    BY <1>0, <1>1, <1>c DEF QuitOf
  <2>2. \A q \in Request : at'[q] = "leaving" => Quit(object[q])'
    BY <1>0, <1>1, <1>o, <1>c DEF QuitOf
  <2>3. Closing(closer') => todo' # <<>> /\ Quit(Head(todo))'
    <3>1. SUFFICES ASSUME Closing(closer') PROVE todo' # <<>> /\ Quit(Head(todo))'
      OBVIOUS
    <3>2. active[o] = 0 /\ todo' = todo /\ o' = o
      BY <1>1, <3>1 DEF Closing, o
    <3>3. Calling(o)' = {} /\ retired'[o']
      BY <1>2, <1>c, <1>n, <1>o, <3>2
    <3>4. Quit(o)'
      BY <3>3 DEF Quit
    <3> QED
      BY <1>1, <3>2, <3>4 DEF o
  <2> QED
    BY <1>0, <1>1, <2>1, <2>2, <2>3 DEF QuitOf
<1>10. SlotOf'
  <2>1. \A p \in Object : ~retired'[p] => ~retired[p]
    BY <1>2
  <2>2. lateUsed' \subseteq {p \in Object : retired'[p]}
    BY <1>0, <1>1, <1>2 DEF SlotOf
  <2> QED
    BY <1>0, <1>1, <2>1, <2>2 DEF SlotOf
<1>11. StageOf'
  <2>1. Closing(closer') => closer' = "start"
    BY <1>1 DEF Closing
  <2>2. \A clients, slots : PassedIn(slots, clients, "start")
    BY DEF PassedIn
  <2>3. Closing(closer') => PassedIn(slot'[Head(todo')], open', closer')
    BY <2>1, <2>2
  <2>4. \A p \in Object : p \notin lateUsed' => PassedIn(slot'[p], open', task'[p])
    BY <1>0, <1>1 DEF StageOf, Passed
  <2>5. \A q \in Request :
          at'[q] = "leaving" /\ object'[q] \notin lateUsed' =>
             PassedIn(slot'[object'[q]], open', ender'[q])
    BY <1>0, <1>1 DEF StageOf, Passed
  <2> QED
    BY <2>3, <2>4, <2>5 DEF StageOf, Passed
<1>12. AttendedOf'
  <2> SUFFICES ASSUME NEW c \in open, c[1] \notin lateUsed PROVE Attended(c[1])'
    BY <1>1 DEF AttendedOf
  <2>1. Attended(c[1]) /\ c[1] \in Object
    BY <1>0 DEF AttendedOf, ClientsTypeOK, Http
  <2>2. CASE c[1] \in Todo /\ c[1] \notin Todo'
    <3>1. c[1] = o /\ todo' # todo
      BY <1>5, <2>2 DEF Todo
    <3>2. Calling(c[1])' # {}
      BY <1>1, <1>c, <1>n, <1>o, <3>1
    <3> QED
      BY <3>2 DEF Attended
  <2>3. CASE ~(c[1] \in Todo /\ c[1] \notin Todo')
    BY <1>1, <1>c, <2>1, <2>3 DEF Attended, Pooled, Todo
  <2> QED
    BY <2>2, <2>3
<1> QED
  BY <1>3, <1>4, <1>6, <1>7, <1>8, <1>9, <1>10, <1>11, <1>12 DEF ClientsInv

-----------------------------------------------------------------------------
(* Requests that come. *)
LEMMA ReuseKeeps == ASSUME ClientsInv, NEW r \in Request, Reuse(r) PROVE ClientsInv'
<1>0. /\ ClientsTypeOK /\ OwnOf /\ CountOf /\ MapOf /\ HomeOf /\ QuitOf
      /\ EarlyCallUncut /\ SlotOf /\ StageOf /\ AttendedOf
  BY DEF ClientsInv
<1>p. pool \in Seq(Object) /\ DOMAIN pool = 1..Len(pool)
  BY <1>0 DEF ClientsTypeOK
<1>1. PICK i \in 1..Len(pool) :
        /\ object' = [object EXCEPT ![r] = pool[i]]
        /\ pool' = Append(SubSeq(pool, 1, i - 1) \o SubSeq(pool, i + 1, Len(pool)), pool[i])
  BY <1>p DEF Reuse, Position
<1>2. /\ at[r] = "new" /\ ~ShuttingDown /\ at' = [at EXCEPT ![r] = "routed"]
      /\ UNCHANGED <<using, late, calls, keyOf, retired, active, slot, task, lateUsed, open,
                     ender, todo, closer>>
  BY DEF Reuse, objectVars, closeVars
<1>3. /\ pool' \in Seq(Object) /\ Len(pool') = Len(pool) /\ DOMAIN pool' = 1..Len(pool)
      /\ \A j \in 1..Len(pool) : Source(i, j, Len(pool)) \in 1..Len(pool)
      /\ \A j \in 1..Len(pool) : pool'[j] = pool[Source(i, j, Len(pool))]
      /\ \A j, k \in 1..Len(pool) : Source(i, j, Len(pool)) = Source(i, k, Len(pool)) => j = k
      /\ \A k \in 1..Len(pool) : \E j \in 1..Len(pool) : Source(i, j, Len(pool)) = k
  <2> DEFINE c == SubSeq(pool, 1, i - 1) \o SubSeq(pool, i + 1, Len(pool))
  <2>1. i \in 1..Len(pool) /\ pool \in Seq(Object) /\ pool' = Append(c, pool[i])
    BY <1>1, <1>p
  <2>2. Without(Object, pool, i, c)
    BY <2>1, Removed
  <2> HIDE DEF c
  <2>c. c \in Seq(Object)
    BY <2>2 DEF Without
  <2>3. Moved(Object, pool, i, Append(c, pool[i]))
    BY <2>1, <2>2, <2>c, MoveLast
  <2>4. Moved(Object, pool, i, pool')
    BY <2>1, <2>3
  <2> QED
    BY <2>4 DEF Moved
<1>4. Pooled' = Pooled
  <2>1. \A o : o \in Pooled' => o \in Pooled
    BY <1>p, <1>3 DEF Pooled
  <2>2. \A o : o \in Pooled => o \in Pooled'
    BY <1>p, <1>3, SMTT(60) DEF Pooled
  <2> QED
    BY <2>1, <2>2
<1>a. /\ at' \in [Request -> {"new", "routed", Running, "leaving", "done"}]
      /\ at'[r] = "routed" /\ \A q \in Request : q # r => at'[q] = at[q]
      /\ object' \in [Request -> Object] /\ object'[r] = pool[i] /\ pool[i] \in Object
      /\ \A q \in Request : q # r => object'[q] = object[q]
  BY <1>0, <1>1, <1>2, <1>p DEF ClientsTypeOK
<1>r. at[pool[i]] # "new" /\ pool[i] # r /\ pool[i] \in Pooled
  BY <1>0, <1>2, <1>p DEF MapOf, Pooled
<1>c. \A o \in Object : Calling(o)' = Calling(o) /\ (Quit(o)' <=> Quit(o))
  <2>1. \A q \in Request : at'[q] = Running <=> at[q] = Running
    BY <1>2, <1>a DEF Running
  <2>2. \A q \in Request : at[q] = Running => object'[q] = object[q]
    BY <1>2, <1>a DEF Running
  <2>3. \A o \in Object : Calling(o)' = Calling(o)
    BY <2>1, <2>2 DEF Calling
  <2> QED
    BY <1>2, <2>3 DEF Quit
<1>l. \A q \in Request :
        at'[q] = "leaving" <=> at[q] = "leaving" /\ object'[q] = object[q]
  BY <1>2, <1>a
<1>5. ClientsTypeOK'
  BY <1>0, <1>2, <1>3, <1>a DEF ClientsTypeOK
<1>6. OwnOf' /\ EarlyCallUncut' /\ SlotOf'
  <2>1. \A q \in Request : at'[q] = Running => at[q] = Running /\ object'[q] = object[q]
    BY <1>2, <1>a DEF Running
  <2> QED
    BY <1>0, <1>2, <2>1 DEF OwnOf, EarlyCallUncut, SlotOf
<1>7. CountOf'
  BY <1>0, <1>2, <1>c DEF CountOf
<1>8. MapOf'
  <2>1. Len(pool') <= PoolEntries
    BY <1>0, <1>3 DEF MapOf
  <2>2. \A j, k \in DOMAIN pool' : keyOf'[pool'[j]] = keyOf'[pool'[k]] => j = k
    <3>1. \A j, k \in 1..Len(pool) : keyOf[pool[j]] = keyOf[pool[k]] => j = k
      BY <1>0, <1>p DEF MapOf
    <3> SUFFICES ASSUME NEW j \in 1..Len(pool), NEW k \in 1..Len(pool),
                        keyOf[pool'[j]] = keyOf[pool'[k]]
                 PROVE  j = k
      BY <1>2, <1>3
    <3> DEFINE u == Source(i, j, Len(pool))
               v == Source(i, k, Len(pool))
    <3>2. u \in 1..Len(pool) /\ v \in 1..Len(pool) /\ pool'[j] = pool[u] /\ pool'[k] = pool[v]
      BY <1>3
    <3>3. u = v => j = k
      BY <1>3
    <3> HIDE DEF u, v
    <3> QED
      BY <3>1, <3>2, <3>3
  <2>3. \A j \in DOMAIN pool' : ~retired'[pool'[j]] /\ at'[pool'[j]] # "new"
    <3>1. \A o \in Pooled : ~retired[o] /\ at[o] # "new" /\ o \in Request
      BY <1>0, <1>p DEF MapOf, Pooled, Object
    <3>2. \A o \in Pooled' : ~retired'[o] /\ at'[o] # "new"
      BY <1>2, <1>4, <1>a, <3>1
    <3> QED
      BY <3>2 DEF Pooled
  <2>4. todo' = <<>> /\ ~ShuttingDown'
    BY <1>0, <1>2 DEF MapOf, ShuttingDown
  <2>5. \A q \in Request :
          IF at'[q] = "new" THEN ~retired'[q] /\ object'[q] = q ELSE at'[object'[q]] # "new"
    <3>1. at'[object'[r]] # "new" /\ at'[r] # "new"
      BY <1>a, <1>r DEF Object
    <3>2. ASSUME NEW q \in Request, q # r
          PROVE  IF at'[q] = "new" THEN ~retired'[q] /\ object'[q] = q ELSE at'[object'[q]] # "new"
      <4>1. IF at[q] = "new" THEN ~retired[q] /\ object[q] = q ELSE at[object[q]] # "new"
        BY <1>0 DEF MapOf
      <4>2. object[q] \in Request
        BY <1>0 DEF ClientsTypeOK, Object
      <4> QED
        BY <1>2, <1>a, <3>2, <4>1, <4>2
    <3> QED
      BY <3>1, <3>2
  <2> QED
    BY <2>1, <2>2, <2>3, <2>4, <2>5 DEF MapOf
<1>9. HomeOf'
  <2>1. \A q \in Request :
          at'[q] # "new" /\ ~retired'[object'[q]] => object'[q] \in Pooled' \cup Todo'
    BY <1>0, <1>2, <1>4, <1>a, <1>r DEF HomeOf, Todo
  <2> QED
    BY <1>0, <1>2, <1>4, <2>1 DEF HomeOf, Todo
<1>10. QuitOf'
  <2>1. \A q \in Request : at'[q] = "leaving" => Quit(object[q]) /\ object[q] \in Object
    BY <1>0, <1>l DEF QuitOf, ClientsTypeOK
  <2>2. \A q \in Request : at'[q] = "leaving" => Quit(object[q])'
    BY <1>c, <1>l, <2>1
  <2>3. ~Closing(closer)
    BY <1>2 DEF ShuttingDown, Closing
  <2>4. \A q \in Request : at'[q] = "leaving" <=> at[q] = "leaving"
    BY <1>2, <1>a
  <2> QED
    BY <1>0, <1>2, <1>c, <2>2, <2>3, <2>4 DEF QuitOf
<1>11. StageOf'
  <2>1. ~Closing(closer)
    BY <1>2 DEF ShuttingDown, Closing
  <2> QED
    BY <1>0, <1>2, <1>l, <2>1 DEF StageOf, Passed
<1>12. AttendedOf'
  <2> SUFFICES ASSUME NEW c \in open, c[1] \notin lateUsed PROVE Attended(c[1])'
    BY <1>2 DEF AttendedOf
  <2>1. Attended(c[1]) /\ c[1] \in Object
    BY <1>0 DEF AttendedOf, ClientsTypeOK, Http
  <2>2. \A q \in Request : Closing(ender[q]) => object'[q] = object[q]
    BY <1>0, <1>2, <1>a DEF QuitOf
  <2> QED
    BY <1>2, <1>4, <1>c, <2>1, <2>2 DEF Attended
<1> QED
  BY <1>5, <1>6, <1>7, <1>8, <1>9, <1>10, <1>11, <1>12 DEF ClientsInv

LEMMA Follows == \A n \in Nat : \A j \in 1..n : j # n => j \in 1..(n - 1) /\ j + 1 \in 1..n
OBVIOUS

(* The map with a new object, and what it pushed out. *)
LEMMA MakeForms ==
    ASSUME ClientsInv, NEW r \in Request, Make(r)
    PROVE  /\ pool' \in Seq(Object) /\ Len(pool') <= PoolEntries
           /\ \A j, k \in DOMAIN pool' : keyOf[pool'[j]] = keyOf[pool'[k]] => j = k
           /\ r \in Pooled' /\ Pooled' \subseteq Pooled \cup {r}
           /\ retired' \in [Object -> BOOLEAN] /\ task' \in [Object -> CloseStage \cup {"none"}]
           /\ \A o \in Object : o \notin Pooled \ Pooled' =>
                                   retired'[o] = retired[o] /\ task'[o] = task[o]
           /\ \A o \in Pooled \ Pooled' :
                /\ retired'[o]
                /\ task'[o] = IF active[o] = 0 THEN "start" ELSE task[o]
<1>0. ClientsTypeOK /\ MapOf
  BY DEF ClientsInv
<1>1. /\ at[r] = "new" /\ Position(r) = {} /\ r \in Object
      /\ \/ /\ Len(pool) < PoolEntries /\ pool' = Append(pool, r) /\ UNCHANGED <<retired, task>>
         \/ /\ ~(Len(pool) < PoolEntries) /\ pool' = Append(Tail(pool), r)
            /\ retired' = [retired EXCEPT ![Head(pool)] = TRUE] /\ RetireIdle(Head(pool))
  BY DEF Make, Object
<1>2. /\ pool \in Seq(Object) /\ DOMAIN pool = 1..Len(pool) /\ Len(pool) \in Nat
      /\ PoolEntries \in Nat /\ PoolEntries >= 1 /\ Len(pool) <= PoolEntries
  BY <1>0, ClientsAssumption DEF ClientsTypeOK, MapOf
<1>3. \A j \in DOMAIN pool : keyOf[pool[j]] # keyOf[r]
  BY <1>1 DEF Position
<1>4. r \notin Pooled
  BY <1>3 DEF Pooled
<1>5. /\ retired \in [Object -> BOOLEAN] /\ task \in [Object -> CloseStage \cup {"none"}]
      /\ "start" \in CloseStage
  BY <1>0 DEF ClientsTypeOK, CloseStage
<1>6. CASE Len(pool) < PoolEntries
  <2>1. pool' = Append(pool, r) /\ UNCHANGED <<retired, task>>
    BY <1>1, <1>6
  <2>2. /\ pool' \in Seq(Object) /\ Len(pool') = Len(pool) + 1
        /\ DOMAIN pool' = 1..(Len(pool) + 1)
        /\ \A j \in 1..Len(pool) : pool'[j] = pool[j]
        /\ pool'[Len(pool) + 1] = r
    BY <1>1, <1>2, <2>1, AppendForms
  <2>3. Len(pool') <= PoolEntries
    BY <1>2, <1>6, <2>2
  <2>4. \A j \in DOMAIN pool' : j \in DOMAIN pool \/ j = Len(pool) + 1
    BY <1>2, <2>2
  <2>5. \A j, k \in DOMAIN pool' : keyOf[pool'[j]] = keyOf[pool'[k]] => j = k
    <3>1. \A j, k \in DOMAIN pool : keyOf[pool[j]] = keyOf[pool[k]] => j = k
      BY <1>0 DEF MapOf
    <3>2. \A j \in DOMAIN pool : pool'[j] = pool[j]
      BY <1>2, <2>2
    <3> QED
      BY <1>3, <2>2, <2>4, <3>1, <3>2
  <2>6. r \in Pooled' /\ Pooled' = Pooled \cup {r}
    <3>1. Len(pool) + 1 \in DOMAIN pool' /\ \A j \in DOMAIN pool : j \in DOMAIN pool'
      BY <1>2, <2>2
    <3>2. \A j \in DOMAIN pool : pool'[j] = pool[j]
      BY <1>2, <2>2
    <3>3. r \in Pooled' /\ Pooled \subseteq Pooled'
      BY <2>2, <3>1, <3>2 DEF Pooled
    <3>4. Pooled' \subseteq Pooled \cup {r}
      BY <2>2, <2>4, <3>2 DEF Pooled
    <3> QED
      BY <3>3, <3>4
  <2> QED
    BY <1>5, <2>1, <2>2, <2>3, <2>5, <2>6
<1>7. CASE ~(Len(pool) < PoolEntries)
  <2> DEFINE h == Head(pool)
             rest == Tail(pool)
  <2>0. pool # <<>> /\ Len(pool) = PoolEntries
    <3>0. /\ Len(pool) \in Nat /\ PoolEntries \in Nat /\ PoolEntries >= 1
          /\ Len(pool) <= PoolEntries /\ ~(Len(pool) < PoolEntries)
      BY <1>2, <1>7
    <3>1. Len(pool) = PoolEntries /\ Len(pool) # 0
      BY <3>0
    <3> QED
      BY <3>1
  <2>1. pool' = Append(rest, r) /\ retired' = [retired EXCEPT ![h] = TRUE] /\ RetireIdle(h)
    BY <1>1, <1>7
  <2>2. /\ rest \in Seq(Object) /\ Len(rest) = Len(pool) - 1
        /\ \A j \in 1..(Len(pool) - 1) : rest[j] = pool[j + 1]
        /\ h = pool[1] /\ 1 \in DOMAIN pool
        /\ \A j \in DOMAIN pool : pool[j] = h \/ pool[j] \in {rest[k] : k \in DOMAIN rest}
        /\ DOMAIN rest = 1..(Len(pool) - 1)
    BY <1>2, <2>0, TailForms, SMTT(60)
  <2> HIDE DEF h, rest
  <2>3. /\ pool' \in Seq(Object) /\ Len(pool') = Len(rest) + 1
        /\ DOMAIN pool' = 1..(Len(rest) + 1)
        /\ \A j \in 1..Len(rest) : pool'[j] = rest[j]
        /\ pool'[Len(rest) + 1] = r
    BY <1>1, <2>1, <2>2, AppendForms
  <2>4. /\ Len(pool') <= PoolEntries /\ DOMAIN pool' = 1..Len(pool)
        /\ pool'[Len(pool)] = r /\ Len(pool) \in DOMAIN pool'
        /\ \A j \in DOMAIN pool' : j # Len(pool) => j + 1 \in DOMAIN pool /\ pool'[j] = pool[j + 1]
    <3>1. Len(rest) + 1 = Len(pool) /\ Len(rest) = Len(pool) - 1 /\ Len(pool) >= 1
      BY <1>2, <2>0, <2>2, SMTT(60)
    <3>2. \A j \in 1..Len(pool) : j # Len(pool) =>
            j \in 1..(Len(pool) - 1) /\ j + 1 \in 1..Len(pool)
      BY <1>2, Follows
    <3>3. /\ Len(pool') <= PoolEntries /\ DOMAIN pool' = 1..Len(pool)
          /\ pool'[Len(pool)] = r /\ Len(pool) \in DOMAIN pool'
      BY <1>2, <2>3, <3>1
    <3> QED
      BY <1>2, <2>2, <2>3, <3>1, <3>2, <3>3
  <2>5. \A j, k \in DOMAIN pool : keyOf[pool[j]] = keyOf[pool[k]] => j = k
    BY <1>0 DEF MapOf
  <2>6. \A j, k \in DOMAIN pool' : keyOf[pool'[j]] = keyOf[pool'[k]] => j = k
    <3> SUFFICES ASSUME NEW j \in DOMAIN pool', NEW k \in DOMAIN pool',
                        keyOf[pool'[j]] = keyOf[pool'[k]]
                 PROVE  j = k
      OBVIOUS
    <3>1. CASE j = Len(pool) /\ k = Len(pool)
      BY <3>1
    <3>2. CASE j = Len(pool) /\ k # Len(pool)
      BY <1>3, <2>4, <3>2
    <3>3. CASE j # Len(pool) /\ k = Len(pool)
      BY <1>3, <2>4, <3>3
    <3>4. CASE j # Len(pool) /\ k # Len(pool)
      <4>1. j + 1 = k + 1 /\ j \in Int /\ k \in Int
        BY <1>2, <2>4, <2>5, <3>4
      <4> QED
        BY <4>1
    <3> QED
      BY <3>1, <3>2, <3>3, <3>4
  <2>7. /\ r \in Pooled' /\ Pooled' \subseteq Pooled \cup {r}
        /\ Pooled \subseteq Pooled' \cup {h} /\ h \in Pooled
    <3>1. r \in Pooled' /\ Pooled' \subseteq Pooled \cup {r}
      BY <2>4 DEF Pooled
    <3>2. {rest[k] : k \in DOMAIN rest} \subseteq Pooled'
      <4>1. DOMAIN rest = 1..Len(rest) /\ \A k \in 1..Len(rest) : k \in DOMAIN pool'
        BY <1>2, <2>2, <2>3
      <4> QED
        BY <2>3, <4>1 DEF Pooled
    <3>3. Pooled \subseteq Pooled' \cup {h} /\ h \in Pooled
      BY <2>2, <3>2 DEF Pooled
    <3> QED
      BY <3>1, <3>3
  <2>8. h \notin Pooled' /\ h \in Object
    <3>1. h \in Object /\ h # r
      BY <1>2, <1>4, <2>2, <2>7
    <3>2. \A j \in DOMAIN pool' : pool'[j] # h
      <4> SUFFICES ASSUME NEW j \in DOMAIN pool', pool'[j] = h PROVE FALSE
        OBVIOUS
      <4>1. j # Len(pool) /\ j + 1 \in DOMAIN pool /\ pool[j + 1] = pool[1]
        BY <2>2, <2>4, <3>1
      <4>2. j + 1 = 1 /\ j \in 1..Len(pool)
        BY <2>2, <2>4, <2>5, <4>1
      <4> QED
        BY <1>2, <4>2
    <3> QED
      BY <3>1, <3>2 DEF Pooled
  <2>9. Pooled \ Pooled' = {h}
    BY <2>7, <2>8
  <2>10. /\ retired' \in [Object -> BOOLEAN] /\ retired'[h]
         /\ \A o \in Object : o # h => retired'[o] = retired[o]
    BY <1>5, <2>1, <2>8
  <2>11. /\ task' \in [Object -> CloseStage \cup {"none"}]
         /\ task'[h] = IF active[h] = 0 THEN "start" ELSE task[h]
         /\ \A o \in Object : o # h => task'[o] = task[o]
    BY <1>5, <2>1, <2>8 DEF RetireIdle
  <2> QED
    BY <2>3, <2>4, <2>6, <2>7, <2>9, <2>10, <2>11
<1> QED
  BY <1>6, <1>7

LEMMA MakeKeeps == ASSUME ClientsInv, NEW r \in Request, Make(r) PROVE ClientsInv'
<1>0. /\ ClientsTypeOK /\ OwnOf /\ CountOf /\ MapOf /\ HomeOf /\ QuitOf
      /\ EarlyCallUncut /\ SlotOf /\ StageOf /\ AttendedOf
  BY DEF ClientsInv
<1>1. /\ pool' \in Seq(Object) /\ Len(pool') <= PoolEntries
      /\ \A j, k \in DOMAIN pool' : keyOf[pool'[j]] = keyOf[pool'[k]] => j = k
      /\ r \in Pooled' /\ Pooled' \subseteq Pooled \cup {r}
      /\ retired' \in [Object -> BOOLEAN] /\ task' \in [Object -> CloseStage \cup {"none"}]
      /\ \A o \in Object : o \notin Pooled \ Pooled' => retired'[o] = retired[o] /\ task'[o] = task[o]
      /\ \A o \in Pooled \ Pooled' :
           /\ retired'[o]
           /\ task'[o] = IF active[o] = 0 THEN "start" ELSE task[o]
  BY MakeForms
<1>2. /\ at[r] = "new" /\ ~ShuttingDown /\ at' = [at EXCEPT ![r] = "routed"]
      /\ UNCHANGED <<object, using, late, calls, keyOf, active, slot, lateUsed, open, ender,
                     todo, closer>>
  BY DEF Make, closeVars
<1>a. /\ at' \in [Request -> {"new", "routed", Running, "leaving", "done"}]
      /\ at'[r] = "routed" /\ \A q \in Request : q # r => at'[q] = at[q]
      /\ object \in [Request -> Object] /\ r \in Object
  BY <1>0, <1>2 DEF ClientsTypeOK, Object
<1>b. /\ \A o \in Pooled : ~retired[o] /\ at[o] # "new" /\ o \in Object
      /\ Pooled \subseteq Object /\ todo = <<>> /\ closer = "none"
      /\ ~retired[r] /\ object[r] = r /\ r \notin Pooled
  <2>1. \A o \in Pooled : ~retired[o] /\ at[o] # "new" /\ o \in Object
    BY <1>0 DEF MapOf, Pooled, ClientsTypeOK
  <2> QED
    BY <1>0, <1>2, <2>1 DEF MapOf, ShuttingDown
<1>c. \A o \in Object : Calling(o)' = Calling(o)
  <2>1. \A q \in Request : at'[q] = Running <=> at[q] = Running
    BY <1>2, <1>a DEF Running
  <2> QED
    BY <1>2, <2>1 DEF Calling
<1>d. \A o \in Object : retired[o] => retired'[o] /\ task'[o] = task[o] /\ (Quit(o) => Quit(o)')
  <2>1. \A o \in Object : retired[o] => retired'[o] /\ task'[o] = task[o]
    BY <1>1, <1>b
  <2> QED
    BY <1>2, <1>c, <2>1 DEF Quit
<1>5. ClientsTypeOK'
  BY <1>0, <1>1, <1>2, <1>a DEF ClientsTypeOK
<1>6. OwnOf' /\ EarlyCallUncut'
  <2>1. \A q \in Request : at'[q] = Running => at[q] = Running
    BY <1>2, <1>a DEF Running
  <2> QED
    BY <1>0, <1>2, <2>1 DEF OwnOf, EarlyCallUncut
<1>7. CountOf'
  BY <1>0, <1>2, <1>c DEF CountOf
<1>8. MapOf'
  <2>1. \A o \in Pooled' : ~retired'[o] /\ at'[o] # "new"
    <3>1. ~retired'[r] /\ at'[r] # "new"
      BY <1>1, <1>a, <1>b
    <3>2. \A o \in Pooled : o \in Pooled' => ~retired'[o] /\ at'[o] # "new"
      BY <1>1, <1>2, <1>a, <1>b DEF Object
    <3> QED
      BY <1>1, <3>1, <3>2
  <2>2. \A j \in DOMAIN pool' : ~retired'[pool'[j]] /\ at'[pool'[j]] # "new"
    BY <2>1 DEF Pooled
  <2>3. \A q \in Request :
          IF at'[q] = "new" THEN ~retired'[q] /\ object[q] = q ELSE at'[object[q]] # "new"
    <3> SUFFICES ASSUME NEW q \in Request, q # r
                 PROVE  IF at'[q] = "new" THEN ~retired'[q] /\ object[q] = q
                                          ELSE at'[object[q]] # "new"
      BY <1>a, <1>b
    <3>1. IF at[q] = "new" THEN ~retired[q] /\ object[q] = q ELSE at[object[q]] # "new"
      BY <1>0 DEF MapOf
    <3>2. object[q] \in Request /\ q \in Object
      BY <1>a DEF Object
    <3>3. at[q] = "new" => ~retired'[q]
      BY <1>1, <1>b, <3>1, <3>2
    <3> QED
      BY <1>a, <3>1, <3>2, <3>3
  <2>4. DOMAIN todo' = {} /\ ~ShuttingDown'
    BY <1>2, <1>b DEF ShuttingDown
  <2> QED
    BY <1>1, <1>2, <1>b, <2>2, <2>3, <2>4 DEF MapOf
<1>9. HomeOf'
  <2>0. Todo = {} /\ Todo' = {}
    BY <1>2, <1>b DEF Todo
  <2>1. \A o \in Object : (~retired[o] => o \in Pooled) /\ ~retired'[o] => o \in Pooled'
    BY <1>1, <1>b
  <2>2. \A q \in Request : at'[q] # "new" /\ ~retired'[object[q]] => object[q] \in Pooled'
    <3>1. \A q \in Request : q # r /\ at[q] # "new" /\ ~retired[object[q]] => object[q] \in Pooled
      BY <1>0, <2>0 DEF HomeOf
    <3> QED
      BY <1>1, <1>a, <1>b, <2>1, <3>1
  <2>3. \A c \in open : ~retired'[c[1]] => c[1] \in Pooled'
    <3>1. \A c \in open : c[1] \in Object /\ (~retired[c[1]] => c[1] \in Pooled)
      BY <1>0, <2>0 DEF HomeOf, ClientsTypeOK, Http
    <3> QED
      BY <2>1, <3>1
  <2> QED
    BY <1>2, <2>0, <2>2, <2>3 DEF HomeOf
<1>10. QuitOf'
  <2>1. \A o \in Object : Closing(task'[o]) => Quit(o)'
    <3> SUFFICES ASSUME NEW o \in Object, Closing(task'[o]) PROVE Quit(o)'
      OBVIOUS
    <3>1. CASE o \in Pooled \ Pooled' /\ active[o] = 0
      <4>1. Calling(o) = {}
        BY <1>0, <3>1, NoCalls
      <4> QED
        BY <1>1, <1>c, <3>1, <4>1 DEF Quit
    <3>2. CASE ~(o \in Pooled \ Pooled' /\ active[o] = 0)
      <4>1. task'[o] = task[o]
        BY <1>1, <3>2
      <4>2. Quit(o)
        BY <1>0, <4>1 DEF QuitOf
      <4>3. retired[o]
        BY <4>2 DEF Quit
      <4> QED
        BY <1>d, <4>2, <4>3
    <3> QED
      BY <3>1, <3>2
  <2>2. \A q \in Request : at'[q] = "leaving" <=> at[q] = "leaving"
    BY <1>2, <1>a
  <2>3. \A q \in Request : at[q] = "leaving" => Quit(object[q])'
    <3>1. \A q \in Request : at[q] = "leaving" => Quit(object[q]) /\ object[q] \in Object
      BY <1>0, <1>a DEF QuitOf
    <3>2. \A o \in Object : Quit(o) => Quit(o)'
      <4>1. \A o \in Object : Quit(o) => retired[o]
        BY DEF Quit
      <4> QED
        BY <1>d, <4>1
    <3> QED
      BY <1>2, <3>1, <3>2
  <2>4. \A q \in Request : at'[q] = "leaving" => Quit(object[q])'
    BY <2>2, <2>3
  <2>5. ~Closing(closer')
    BY <1>2, <1>b DEF Closing
  <2>6. \A q \in Request : at'[q] = "leaving" <=> Closing(ender'[q])
    BY <1>0, <1>2, <2>2 DEF QuitOf
  <2> QED
    BY <1>2, <2>1, <2>4, <2>5, <2>6 DEF QuitOf
<1>11. SlotOf'
  <2>1. \A o \in Object : ~retired'[o] => ~retired[o]
    BY <1>d
  <2>2. lateUsed \subseteq {o \in Object : retired'[o]}
    BY <1>0, <1>d DEF SlotOf
  <2> QED
    BY <1>0, <1>2, <2>1, <2>2 DEF SlotOf
<1>12. StageOf'
  <2>1. \A o \in Object : o \notin lateUsed => Passed(o, task[o])
    BY <1>0 DEF StageOf
  <2>2. \A o \in Object : task'[o] = "start" \/ task'[o] = task[o]
    BY <1>1
  <2>3. \A o \in Object : o \notin lateUsed' => PassedIn(slot'[o], open', task'[o])
    BY <1>2, <2>1, <2>2 DEF Passed, PassedIn
  <2>4. \A q \in Request :
          at'[q] = "leaving" /\ object'[q] \notin lateUsed' =>
             PassedIn(slot'[object'[q]], open', ender'[q])
    BY <1>0, <1>2, <1>a DEF StageOf, Passed
  <2>5. ~Closing(closer')
    BY <1>2, <1>b DEF Closing
  <2> QED
    BY <2>3, <2>4, <2>5 DEF StageOf, Passed
<1>13. AttendedOf'
  <2> SUFFICES ASSUME NEW c \in open, c[1] \notin lateUsed PROVE Attended(c[1])'
    BY <1>2 DEF AttendedOf
  <2>c. PICK o : o = c[1]
    OBVIOUS
  <2>1. Attended(o) /\ o \in Object
    BY <1>0, <2>c DEF AttendedOf, ClientsTypeOK, Http
  <2>t. \A i \in DOMAIN todo : FALSE
    BY <1>b
  <2>2. CASE o \in Pooled'
    BY <2>2, <2>c DEF Attended
  <2>3. CASE o \in Pooled \ Pooled' /\ active[o] = 0
    <3>1. Closing(task'[o])
      BY <1>1, <2>3 DEF Closing
    <3> QED
      BY <3>1, <2>c DEF Attended
  <2>4. CASE o \in Pooled \ Pooled' /\ active[o] # 0
    <3>1. Calling(o) # {}
      BY <1>0, <2>1, <2>4, NoCalls
    <3> QED
      BY <1>c, <2>1, <2>c, <3>1 DEF Attended
  <2>5. CASE o \notin Pooled /\ o \notin Pooled'
    <3>1. task'[o] = task[o] /\ Calling(o)' = Calling(o)
      BY <1>1, <1>c, <2>1, <2>5
    <3>2. Calling(o) # {} \/ Closing(task[o]) \/ \E q \in Request : object[q] = o /\ Closing(ender[q])
      BY <2>1, <2>5, <2>t DEF Attended
    <3> QED
      BY <1>2, <2>c, <3>1, <3>2 DEF Attended
  <2> QED
    BY <2>2, <2>3, <2>4, <2>5
<1> QED
  BY <1>5, <1>6, <1>7, <1>8, <1>9, <1>10, <1>11, <1>12, <1>13 DEF ClientsInv

(* The HTTP client of a call, found or made. *)
LEMMA BeginForms ==
    ASSUME ClientsInv, NEW r \in Request, NEW kind \in Kind, Begin(r, kind)
    PROVE  \E http \in Http :
             /\ http[1] = object[r] /\ using' = [using EXCEPT ![r] = http]
             /\ slot' \in [Object -> [Kind -> Http \cup {NoHttp}]]
             /\ slot'[object[r]][kind] = http
             /\ \A p \in Object, k \in Kind :
                  /\ slot'[p][k] = slot[p][k] \/ (p = object[r] /\ k = kind)
                  /\ slot[p][k] # NoHttp => slot'[p][k] = slot[p][k]
             /\ \A p \in Object : p # object[r] => slot'[p] = slot[p]
             /\ open \subseteq open' /\ open' \subseteq open \cup {http}
             /\ ~retired[object[r]] => http \in open'
<1> DEFINE o == object[r]
<1>0. ClientsTypeOK /\ OwnOf /\ SlotOf
  BY DEF ClientsInv
<1>1. PICK http \in ClientFor(o, kind) :
        /\ using' = [using EXCEPT ![r] = http]
        /\ slot' = [slot EXCEPT ![o][kind] = http]
        /\ open' = IF slot[o][kind] = NoHttp THEN open \cup {http} ELSE open
  BY DEF Begin
<1>2. /\ o \in Object /\ slot \in [Object -> [Kind -> Http \cup {NoHttp}]]
      /\ NoHttp \notin Http
  BY <1>0, ClientsAssumption DEF ClientsTypeOK
<1> HIDE DEF o
<1>3. http \in Http /\ http[1] = o /\ (slot[o][kind] = NoHttp \/ slot[o][kind] = http)
  <2>1. CASE slot[o][kind] # NoHttp
    <3>1. http = slot[o][kind]
      BY <1>1, <2>1 DEF ClientFor
    <3> QED
      BY <1>0, <1>2, <2>1, <3>1 DEF OwnOf
  <2>2. CASE slot[o][kind] = NoHttp
    <3>1. http \in {o} \X (1..MaxConnections)
      BY <1>1, <2>2 DEF ClientFor, Unbound
    <3> QED
      BY <1>2, <2>2, <3>1 DEF Http
  <2> QED
    BY <2>1, <2>2
<1>4. /\ slot' \in [Object -> [Kind -> Http \cup {NoHttp}]] /\ slot'[o][kind] = http
      /\ \A p \in Object : p # o => slot'[p] = slot[p]
      /\ \A k \in Kind : k # kind => slot'[o][k] = slot[o][k]
  BY <1>1, <1>2, <1>3
<1>5. \A p \in Object, k \in Kind :
        /\ slot'[p][k] = slot[p][k] \/ (p = o /\ k = kind)
        /\ slot[p][k] # NoHttp => slot'[p][k] = slot[p][k]
  BY <1>3, <1>4
<1>6. ~retired[o] => http \in open'
  BY <1>0, <1>1, <1>2, <1>3 DEF SlotOf
<1> QED
  BY <1>1, <1>3, <1>4, <1>5, <1>6 DEF o

LEMMA BeginKeeps ==
    ASSUME ClientsInv, NEW r \in Request, NEW kind \in Kind, Begin(r, kind)
    PROVE  ClientsInv'
<1>0. /\ ClientsTypeOK /\ OwnOf /\ CountOf /\ MapOf /\ HomeOf /\ QuitOf
      /\ EarlyCallUncut /\ SlotOf /\ StageOf /\ AttendedOf
  BY DEF ClientsInv
<1>p. PICK o \in Object : o = object[r]
  BY <1>0 DEF ClientsTypeOK
<1>1. PICK http \in Http :
        /\ http[1] = o /\ using' = [using EXCEPT ![r] = http]
        /\ slot' \in [Object -> [Kind -> Http \cup {NoHttp}]]
        /\ slot'[o][kind] = http
        /\ \A p \in Object, k \in Kind :
             /\ slot'[p][k] = slot[p][k] \/ (p = o /\ k = kind)
             /\ slot[p][k] # NoHttp => slot'[p][k] = slot[p][k]
        /\ \A p \in Object : p # o => slot'[p] = slot[p]
        /\ open \subseteq open' /\ open' \subseteq open \cup {http}
        /\ ~retired[o] => http \in open'
  BY <1>p, BeginForms
<1>2. /\ at[r] = "routed" /\ calls < MaxConnections /\ at' = [at EXCEPT ![r] = Running]
      /\ calls' = calls + 1 /\ late' = [late EXCEPT ![r] = retired[o]]
      /\ lateUsed' = IF retired[o] THEN lateUsed \cup {o} ELSE lateUsed
      /\ active' = [active EXCEPT ![o] = active[o] + 1]
      /\ UNCHANGED <<object, pool, keyOf, retired, task, ender, todo, closer>>
  BY <1>p DEF Begin, closeVars
<1>3. o \in Object /\ object \in [Request -> Object] /\ NoHttp \notin Http
  BY <1>0, ClientsAssumption DEF ClientsTypeOK
<1>a. /\ at' \in [Request -> {"new", "routed", Running, "leaving", "done"}]
      /\ at'[r] = Running /\ \A q \in Request : q # r => at'[q] = at[q]
      /\ using' \in [Request -> Http \cup {NoHttp}] /\ using'[r] = http
      /\ \A q \in Request : q # r => using'[q] = using[q]
      /\ late' \in [Request -> BOOLEAN] /\ late'[r] = retired[o]
      /\ \A q \in Request : q # r => late'[q] = late[q]
  BY <1>0, <1>1, <1>2, <1>3 DEF ClientsTypeOK
<1>b. /\ active' \in [Object -> Nat] /\ active'[o] = active[o] + 1
      /\ \A p \in Object : p # o => active'[p] = active[p]
  BY <1>0, <1>2, <1>3 DEF ClientsTypeOK
<1>l. /\ lateUsed \subseteq lateUsed' /\ lateUsed' \subseteq lateUsed \cup {o}
      /\ lateUsed' \subseteq Object /\ (retired[o] <=> o \in lateUsed' /\ retired[o])
      /\ ~retired[o] => lateUsed' = lateUsed
  BY <1>0, <1>2, <1>3 DEF ClientsTypeOK
<1>n. /\ \A q \in Request : at'[q] = "new" <=> at[q] = "new"
      /\ \A q \in Request : at'[q] = "leaving" <=> at[q] = "leaving"
  BY <1>2, <1>a DEF Running
<1>c. /\ Calling(o)' = Calling(o) \cup {r} /\ r \notin Calling(o)
      /\ \A p \in Object : p # o => Calling(p)' = Calling(p)
  <2>1. \A p \in Object : Calling(p)' = {q \in Request : at'[q] = Running /\ object[q] = p}
    BY <1>2 DEF Calling
  <2>2. \A q \in Request : at'[q] = Running <=> at[q] = Running \/ q = r
    BY <1>a
  <2>3. at[r] # Running /\ object[r] = o
    BY <1>2, <1>p DEF Running
  <2> QED
    BY <1>3, <2>1, <2>2, <2>3 DEF Calling
<1>q. \A p \in Object : Quit(p) => Quit(p)'
  <2> SUFFICES ASSUME NEW p \in Object, Quit(p) PROVE Quit(p)'
    OBVIOUS
  <2>1. retired[p] /\ \A q \in Calling(p) : late[q] /\ q \in Request
    BY DEF Quit, Calling
  <2>2. \A q \in Calling(p)' : late'[q]
    <3>1. r \notin Calling(p)
      BY <1>2 DEF Calling, Running
    <3>2. \A q \in Calling(p) : late'[q]
      BY <1>a, <2>1, <3>1
    <3>3. p = o => late'[r]
      BY <1>a, <2>1
    <3> QED
      BY <1>c, <3>2, <3>3
  <2> QED
    BY <1>2, <2>1, <2>2 DEF Quit
<1>5. ClientsTypeOK'
  <2>1. open' \subseteq Http
    BY <1>0, <1>1 DEF ClientsTypeOK
  <2>2. calls' \in 0..MaxConnections
    BY <1>0, <1>2, ClientsAssumption DEF ClientsTypeOK
  <2> QED
    BY <1>0, <1>1, <1>2, <1>a, <1>b, <1>l, <2>1, <2>2 DEF ClientsTypeOK
<1>6. OwnOf'
  <2>1. \A p \in Object : \A k \in Kind : slot'[p][k] # NoHttp => slot'[p][k][1] = p
    BY <1>0, <1>1 DEF OwnOf
  <2>2. \A q \in Request : at'[q] = Running => using'[q] \in Http /\ using'[q][1] = object[q]
    BY <1>0, <1>1, <1>a, <1>p DEF OwnOf
  <2> QED
    BY <1>2, <2>1, <2>2 DEF OwnOf
<1>7. CountOf'
  <2>1. IsFiniteSet(Calling(o)) /\ Cardinality(Calling(o)) = active[o]
    BY <1>0, <1>3 DEF CountOf
  <2>2. /\ IsFiniteSet(Calling(o) \cup {r})
        /\ Cardinality(Calling(o) \cup {r}) = active[o] + 1
    BY <1>c, <2>1, FS_AddElement
  <2>3. \A p \in Object : p # o => IsFiniteSet(Calling(p)) /\ Cardinality(Calling(p)) = active[p]
    BY <1>0 DEF CountOf
  <2>4. \A p \in Object : IsFiniteSet(Calling(p)') /\ Cardinality(Calling(p)') = active'[p]
    BY <1>b, <1>c, <2>2, <2>3
  <2> QED
    BY <2>4 DEF CountOf
<1>8. MapOf'
  <2>1. /\ \A i \in DOMAIN pool : at[pool[i]] # "new" => at'[pool[i]] # "new"
        /\ \A i \in DOMAIN todo : at[todo[i]] # "new" => at'[todo[i]] # "new"
        /\ \A q \in Request : at[object[q]] # "new" => at'[object[q]] # "new"
    BY <1>0, <1>3, <1>n DEF ClientsTypeOK, Object
  <2> QED
    BY <1>0, <1>2, <1>n, <2>1 DEF MapOf, ShuttingDown
<1>9. HomeOf'
  <2>1. ~retired[o] => o \in Pooled \cup Todo
    BY <1>0, <1>2, <1>p DEF HomeOf
  <2>2. \A c \in open' : ~retired[c[1]] => c[1] \in Pooled \cup Todo
    BY <1>0, <1>1, <2>1 DEF HomeOf
  <2> QED
    BY <1>0, <1>2, <1>n, <2>2 DEF HomeOf, Pooled, Todo
<1>10. QuitOf'
  <2>1. \A p \in Object : Closing(task'[p]) => Quit(p)'
    BY <1>0, <1>2, <1>q DEF QuitOf
  <2>2. \A q \in Request : at'[q] = "leaving" => Quit(object[q])'
    <3>1. \A q \in Request : at'[q] = "leaving" => Quit(object[q]) /\ object[q] \in Object
      BY <1>0, <1>3, <1>n DEF QuitOf
    <3> QED
      BY <1>2, <1>q, <3>1
  <2>3. Closing(closer) => todo # <<>> /\ Quit(Head(todo))'
    <3>1. todo # <<>> => Head(todo) \in Object
      BY <1>0 DEF ClientsTypeOK
    <3> QED
      BY <1>0, <1>2, <1>q, <3>1 DEF QuitOf
  <2>4. Closing(closer') => todo' # <<>> /\ Quit(Head(todo))'
    BY <1>2, <2>3
  <2> QED
    BY <1>0, <1>2, <1>n, <2>1, <2>2, <2>4 DEF QuitOf
<1>11. EarlyCallUncut'
  BY <1>0, <1>1, <1>a DEF EarlyCallUncut
<1>12. SlotOf'
  <2>1. \A p \in Object : ~retired[p] => \A k \in Kind : slot'[p][k] \in open' \cup {NoHttp}
    BY <1>0, <1>1 DEF SlotOf
  <2>2. lateUsed' \subseteq {p \in Object : retired[p]}
    BY <1>0, <1>2, <1>3 DEF SlotOf
  <2>3. \A c \in open' : c[1] \notin lateUsed' => \E k \in Kind : slot'[c[1]][k] = c
    <3> SUFFICES ASSUME NEW c \in open', c[1] \notin lateUsed'
                 PROVE  \E k \in Kind : slot'[c[1]][k] = c
      OBVIOUS
    <3>1. CASE c = http
      BY <1>1, <3>1
    <3>2. CASE c # http
      <4>1. c \in open /\ c[1] \notin lateUsed
        BY <1>1, <1>l, <3>2
      <4>2. c \in Http /\ c[1] \in Object
        BY <1>0, <4>1 DEF ClientsTypeOK, Http
      <4>3. PICK k \in Kind : slot[c[1]][k] = c
        BY <1>0, <4>1 DEF SlotOf
      <4>4. c # NoHttp
        BY <1>3, <4>2
      <4> QED
        BY <1>1, <4>2, <4>3, <4>4
    <3> QED
      BY <3>1, <3>2
  <2> QED
    BY <1>2, <2>1, <2>2, <2>3 DEF SlotOf
<1>13. StageOf'
  <2>1. \A p \in Object : p # o =>
          \A step : PassedIn(slot[p], open, step) => PassedIn(slot'[p], open', step)
    <3> SUFFICES ASSUME NEW p \in Object, p # o, NEW step, PassedIn(slot[p], open, step)
                 PROVE  PassedIn(slot'[p], open', step)
      OBVIOUS
    <3>1. slot'[p] = slot[p] /\ "plain" \in Kind /\ "stream" \in Kind
      BY <1>1 DEF Kind
    <3>2. \A k \in Kind : slot[p][k] # http
      BY <1>0, <1>1, <1>3 DEF OwnOf
    <3> QED
      BY <1>1, <3>1, <3>2 DEF PassedIn
  <2>2. \A p \in Object : Quit(p) /\ p \notin lateUsed' => p # o /\ p \notin lateUsed
    BY <1>l DEF Quit
  <2>3. \A p \in Object : p \notin lateUsed' => PassedIn(slot'[p], open', task[p])
    <3> SUFFICES ASSUME NEW p \in Object, p \notin lateUsed'
                 PROVE  PassedIn(slot'[p], open', task[p])
      OBVIOUS
    <3>1. CASE Closing(task[p])
      <4>1. p # o /\ p \notin lateUsed
        BY <1>0, <2>2, <3>1 DEF QuitOf
      <4> QED
        BY <1>0, <2>1, <4>1 DEF StageOf, Passed
    <3>2. CASE ~Closing(task[p])
      BY <3>2 DEF PassedIn, Closing
    <3> QED
      BY <3>1, <3>2
  <2>4. \A q \in Request :
          at[q] = "leaving" /\ object[q] \notin lateUsed' =>
             PassedIn(slot'[object[q]], open', ender[q])
    <3> SUFFICES ASSUME NEW q \in Request, at[q] = "leaving", object[q] \notin lateUsed'
                 PROVE  PassedIn(slot'[object[q]], open', ender[q])
      OBVIOUS
    <3>1. object[q] \in Object /\ object[q] # o /\ object[q] \notin lateUsed
      BY <1>0, <1>3, <2>2 DEF QuitOf
    <3>2. PassedIn(slot[object[q]], open, ender[q])
      BY <1>0, <3>1 DEF StageOf, Passed
    <3> QED
      BY <2>1, <3>1, <3>2
  <2>5. Closing(closer) /\ Head(todo) \notin lateUsed' =>
          PassedIn(slot'[Head(todo)], open', closer)
    <3> SUFFICES ASSUME Closing(closer), Head(todo) \notin lateUsed'
                 PROVE  PassedIn(slot'[Head(todo)], open', closer)
      OBVIOUS
    <3>1. Head(todo) \in Object /\ Quit(Head(todo))
      BY <1>0 DEF QuitOf, ClientsTypeOK
    <3>2. Head(todo) # o /\ Head(todo) \notin lateUsed
      BY <2>2, <3>1
    <3>3. PassedIn(slot[Head(todo)], open, closer)
      BY <1>0, <3>2 DEF StageOf, Passed
    <3> QED
      BY <2>1, <3>1, <3>2, <3>3
  <2> QED
    BY <1>2, <1>n, <2>3, <2>4, <2>5 DEF StageOf, Passed
<1>14. AttendedOf'
  <2> SUFFICES ASSUME NEW c \in open', c[1] \notin lateUsed' PROVE Attended(c[1])'
    BY DEF AttendedOf
  <2>c. PICK p : p = c[1]
    OBVIOUS
  <2>0. p \in Object /\ (p # o => c \in open) /\ p \notin lateUsed
    BY <1>0, <1>1, <1>l, <2>c DEF ClientsTypeOK, Http
  <2>1. CASE p = o
    <3>1. r \in Calling(p)'
      BY <1>c, <2>1
    <3> QED
      BY <2>c, <3>1 DEF Attended
  <2>2. CASE p # o
    <3>1. Attended(p) /\ Calling(p)' = Calling(p)
      BY <1>0, <1>c, <2>0, <2>2, <2>c DEF AttendedOf
    <3> QED
      BY <1>2, <2>c, <3>1 DEF Attended, Pooled
  <2> QED
    BY <2>1, <2>2
<1> QED
  BY <1>5, <1>6, <1>7, <1>8, <1>9, <1>10, <1>11, <1>12, <1>13, <1>14 DEF ClientsInv

LEMMA EndKeeps == ASSUME ClientsInv, NEW r \in Request, End(r) PROVE ClientsInv'
<1>0. /\ ClientsTypeOK /\ OwnOf /\ CountOf /\ MapOf /\ HomeOf /\ QuitOf
      /\ EarlyCallUncut /\ SlotOf /\ StageOf /\ AttendedOf
  BY DEF ClientsInv
<1>r. PICK o \in Object : o = object[r]
  BY <1>0 DEF ClientsTypeOK
<1>1. /\ at[r] = Running /\ active' = [active EXCEPT ![o] = active[o] - 1]
      /\ using' = [using EXCEPT ![r] = NoHttp] /\ late' = [late EXCEPT ![r] = FALSE]
      /\ \/ /\ retired[o] /\ active[o] = 1
            /\ at' = [at EXCEPT ![r] = "leaving"] /\ ender' = [ender EXCEPT ![r] = "start"]
         \/ /\ ~(retired[o] /\ active[o] = 1)
            /\ at' = [at EXCEPT ![r] = "routed"] /\ ender' = ender
      /\ UNCHANGED <<object, calls, pool, keyOf, retired, slot, task, lateUsed, open,
                     todo, closer>>
  BY <1>r DEF End, LastOfRetired
<1>3. o \in Object /\ object \in [Request -> Object] /\ "start" \in CloseStage
  BY <1>0 DEF ClientsTypeOK, CloseStage
<1>a. /\ at' \in [Request -> {"new", "routed", Running, "leaving", "done"}]
      /\ at'[r] \in {"routed", "leaving"} /\ \A q \in Request : q # r => at'[q] = at[q]
      /\ using' \in [Request -> Http \cup {NoHttp}]
      /\ \A q \in Request : q # r => using'[q] = using[q]
      /\ late' \in [Request -> BOOLEAN]
      /\ \A q \in Request : q # r => late'[q] = late[q]
      /\ ender' \in [Request -> CloseStage \cup {"none"}]
      /\ \A q \in Request : q # r => ender'[q] = ender[q]
      /\ at'[r] = "leaving" <=> retired[o] /\ active[o] = 1
      /\ ender'[r] = IF at'[r] = "leaving" THEN "start" ELSE ender[r]
  BY <1>0, <1>1, <1>3, ZenonT(60) DEF ClientsTypeOK
<1>c. /\ Calling(o)' = Calling(o) \ {r} /\ r \in Calling(o)
      /\ \A p \in Object : p # o => Calling(p)' = Calling(p)
  <2>1. \A p \in Object : Calling(p)' = {q \in Request : at'[q] = Running /\ object[q] = p}
    BY <1>1 DEF Calling
  <2>2. \A q \in Request : at'[q] = Running <=> at[q] = Running /\ q # r
    BY <1>1, <1>a DEF Running
  <2> QED
    BY <1>1, <1>3, <1>r, <2>1, <2>2 DEF Calling
<1>b. /\ IsFiniteSet(Calling(o)') /\ Cardinality(Calling(o)') = active[o] - 1
      /\ active[o] - 1 \in Nat
  <2>1. IsFiniteSet(Calling(o)) /\ Cardinality(Calling(o)) = active[o]
    BY <1>0, <1>3 DEF CountOf
  <2>2. /\ IsFiniteSet(Calling(o) \ {r})
        /\ Cardinality(Calling(o) \ {r}) = active[o] - 1
    BY <1>c, <2>1, FS_RemoveElement
  <2>3. Cardinality(Calling(o) \ {r}) \in Nat
    BY <2>2, FS_CardinalityType
  <2> QED
    BY <1>c, <2>2, <2>3
<1>d. /\ active' \in [Object -> Nat] /\ active'[o] = active[o] - 1
      /\ \A p \in Object : p # o => active'[p] = active[p]
  BY <1>0, <1>1, <1>3, <1>b DEF ClientsTypeOK
<1>e. active[o] = 1 <=> Calling(o)' = {}
  <2>1. active[o] \in Nat
    BY <1>0 DEF ClientsTypeOK
  <2>2. Cardinality(Calling(o)') = 0 <=> Calling(o)' = {}
    BY <1>b, FS_EmptySet
  <2> QED
    BY <1>b, <2>1, <2>2
<1>n. /\ \A q \in Request : at'[q] = "new" <=> at[q] = "new"
      /\ \A q \in Request : q # r => (at'[q] = "leaving" <=> at[q] = "leaving")
      /\ at[r] # "leaving" /\ ~Closing(ender[r]) /\ Closing("start")
  BY <1>0, <1>1, <1>a DEF Running, QuitOf, Closing
<1>q. \A p \in Object : Quit(p) => Quit(p)'
  <2> SUFFICES ASSUME NEW p \in Object, Quit(p) PROVE Quit(p)'
    OBVIOUS
  <2>1. retired[p] /\ \A q \in Calling(p) : late[q] /\ q \in Request
    BY DEF Quit, Calling
  <2>2. r \notin Calling(p)' /\ Calling(p)' \subseteq Calling(p)
    <3>1. p # o => r \notin Calling(p)
      BY <1>r DEF Calling
    <3> QED
      BY <1>c, <3>1
  <2>3. \A q \in Calling(p)' : late'[q]
    BY <1>a, <2>1, <2>2
  <2> QED
    BY <1>1, <2>1, <2>3 DEF Quit
<1>5. ClientsTypeOK'
  BY <1>0, <1>1, <1>a, <1>d DEF ClientsTypeOK
<1>6. OwnOf' /\ EarlyCallUncut' /\ SlotOf'
  <2>1. \A q \in Request : at'[q] = Running => at[q] = Running /\ q # r
    BY <1>a DEF Running
  <2>2. /\ \A q \in Request : at'[q] = Running => using'[q] \in Http /\ using'[q][1] = object[q]
        /\ \A q \in Request : at'[q] = Running /\ ~late'[q] => using'[q] \in open
    BY <1>0, <1>a, <2>1 DEF OwnOf, EarlyCallUncut
  <2> QED
    BY <1>0, <1>1, <2>2 DEF OwnOf, EarlyCallUncut, SlotOf
<1>7. CountOf'
  <2>1. \A p \in Object : p # o => IsFiniteSet(Calling(p)) /\ Cardinality(Calling(p)) = active[p]
    BY <1>0 DEF CountOf
  <2>2. \A p \in Object : IsFiniteSet(Calling(p)') /\ Cardinality(Calling(p)') = active'[p]
    BY <1>b, <1>c, <1>d, <2>1
  <2> QED
    BY <2>2 DEF CountOf
<1>8. MapOf'
  <2>1. /\ \A i \in DOMAIN pool : at[pool[i]] # "new" => at'[pool[i]] # "new"
        /\ \A i \in DOMAIN todo : at[todo[i]] # "new" => at'[todo[i]] # "new"
        /\ \A q \in Request : at[object[q]] # "new" => at'[object[q]] # "new"
    BY <1>0, <1>3, <1>n DEF ClientsTypeOK, Object
  <2> QED
    BY <1>0, <1>1, <1>n, <2>1 DEF MapOf, ShuttingDown
<1>9. HomeOf'
  BY <1>0, <1>1, <1>n DEF HomeOf, Pooled, Todo
<1>10. QuitOf'
  <2>1. \A p \in Object : Closing(task'[p]) => Quit(p)'
    BY <1>0, <1>1, <1>q DEF QuitOf
  <2>2. \A q \in Request : at'[q] = "leaving" <=> Closing(ender'[q])
    <3>1. \A q \in Request : at[q] = "leaving" <=> Closing(ender[q])
      BY <1>0 DEF QuitOf
    <3> QED
      BY <1>a, <1>n, <3>1
  <2>3. \A q \in Request : at'[q] = "leaving" => Quit(object[q])'
    <3>1. at'[r] = "leaving" => Quit(o)'
      BY <1>1, <1>a, <1>e DEF Quit
    <3>2. \A q \in Request :
            q # r /\ at'[q] = "leaving" => Quit(object[q]) /\ object[q] \in Object
      BY <1>0, <1>3, <1>n DEF QuitOf
    <3> QED
      BY <1>1, <1>q, <1>r, <3>1, <3>2
  <2>5. Closing(closer) => todo # <<>> /\ Quit(Head(todo))'
    <3>1. todo # <<>> => Head(todo) \in Object
      BY <1>0 DEF ClientsTypeOK
    <3> QED
      BY <1>0, <1>1, <1>q, <3>1 DEF QuitOf
  <2>6. Closing(closer') => todo' # <<>> /\ Quit(Head(todo))'
    BY <1>1, <2>5
  <2> QED
    BY <2>1, <2>2, <2>3, <2>6 DEF QuitOf
<1>11. StageOf'
  <2>1. \A q \in Request :
          at'[q] = "leaving" /\ object[q] \notin lateUsed =>
             PassedIn(slot[object[q]], open, ender'[q])
    <3>1. at'[r] = "leaving" => PassedIn(slot[object[r]], open, ender'[r])
      BY <1>a DEF PassedIn
    <3>2. \A q \in Request :
            q # r /\ at'[q] = "leaving" /\ object[q] \notin lateUsed =>
               PassedIn(slot[object[q]], open, ender'[q])
      BY <1>0, <1>a, <1>n DEF StageOf, Passed
    <3> QED
      BY <3>1, <3>2
  <2> QED
    BY <1>0, <1>1, <2>1 DEF StageOf, Passed
<1>12. AttendedOf'
  <2> SUFFICES ASSUME NEW c \in open, c[1] \notin lateUsed PROVE Attended(c[1])'
    BY <1>1 DEF AttendedOf
  <2>c. PICK p : p = c[1]
    OBVIOUS
  <2>0. /\ p \in Object /\ Attended(p) /\ p \notin lateUsed
        /\ ~retired[p] => p \in Pooled \cup Todo
    BY <1>0, <2>c DEF ClientsTypeOK, Http, AttendedOf, HomeOf
  <2>1. CASE Calling(p)' # {}
    BY <2>1, <2>c DEF Attended
  <2>2. CASE p = o /\ Calling(p)' = {} /\ retired[o]
    <3>1. Closing(ender'[r])
      BY <1>a, <1>e, <1>n, <2>2
    <3> QED
      BY <1>1, <1>r, <2>2, <3>1, <2>c DEF Attended
  <2>3. CASE p = o /\ ~retired[o]
    BY <1>1, <2>0, <2>3, <2>c DEF Attended, Pooled, Todo
  <2>4. CASE p # o
    <3>1. Calling(p)' = Calling(p)
      BY <1>c, <2>0, <2>4
    <3>2. \A q \in Request : Closing(ender[q]) => Closing(ender'[q])
      BY <1>a, <1>n
    <3> QED
      BY <1>1, <2>0, <3>1, <3>2, <2>c DEF Attended, Pooled
  <2> QED
    BY <2>1, <2>2, <2>3, <2>4
<1> QED
  BY <1>5, <1>6, <1>7, <1>8, <1>9, <1>10, <1>11, <1>12 DEF ClientsInv

-----------------------------------------------------------------------------
LEMMA ClientsStutter == ClientsInv /\ UNCHANGED clientsVars => ClientsInv'
<1> SUFFICES ASSUME ClientsInv, UNCHANGED clientsVars PROVE ClientsInv'
  OBVIOUS
<1>1. UNCHANGED <<at, object, using, late, calls, pool, keyOf, retired, active, slot, task,
                  lateUsed, open, ender, todo, closer>>
  BY DEF clientsVars, requestVars, objectVars, closeVars
<1>2. \A o : Calling(o)' = Calling(o) /\ (Quit(o)' <=> Quit(o))
  BY <1>1 DEF Calling, Quit
<1>3. ClientsTypeOK' /\ OwnOf' /\ EarlyCallUncut' /\ SlotOf'
  BY <1>1 DEF ClientsInv, ClientsTypeOK, OwnOf, EarlyCallUncut, SlotOf
<1>4. MapOf' /\ HomeOf' /\ StageOf'
  BY <1>1 DEF ClientsInv, MapOf, HomeOf, StageOf, Passed, ShuttingDown, Pooled, Todo
<1>5. CountOf'
  BY <1>1, <1>2 DEF ClientsInv, CountOf
<1>6. QuitOf'
  BY <1>1, <1>2 DEF ClientsInv, QuitOf, Quit, Calling
<1>7. AttendedOf'
  BY <1>1, <1>2 DEF ClientsInv, AttendedOf, Attended, Pooled
<1> QED
  BY <1>3, <1>4, <1>5, <1>6, <1>7 DEF ClientsInv

LEMMA ClientsAlways == ClientsSpec => []ClientsInv
<1>1. ClientsInv /\ ClientsNext => ClientsInv'
  BY ReuseKeeps, MakeKeeps, BeginKeeps, EndKeeps, EndStepKeeps, LeaveKeeps, TaskStepKeeps,
     ShutdownKeeps, CloserVisitsKeeps, CloserStepKeeps DEF ClientsNext
<1>2. ClientsInv /\ [ClientsNext]_clientsVars => ClientsInv'
  BY <1>1, ClientsStutter
<1> QED
  BY ClientsBegin, <1>2, PTL DEF ClientsSpec

-----------------------------------------------------------------------------
(* The state of requests, objects, HTTP clients and closers keeps its type.  *)
THEOREM ClientsTypeTheorem == ClientsSpec => []ClientsTypeOK
<1>1. ClientsInv => ClientsTypeOK
  BY DEF ClientsInv
<1> QED
  BY <1>1, ClientsAlways, PTL

(* For any number of requests, calls and settings and any size of the map:   *)
(* what is in the map can be used at once, no call that began before its     *)
(* object was retired loses its HTTP client, and none that is open is left   *)
(* to itself (client.py, UpstreamClientPool and UpstreamClient).             *)
THEOREM ClientsTheorem == ClientsSpec => []ClientsSound
<1>1. ClientsInv => ClientsSound
  <2> SUFFICES ASSUME ClientsInv PROVE ClientsSound
    OBVIOUS
  <2>1. ClientsTypeOK /\ MapOf /\ SlotOf /\ AttendedOf /\ EarlyCallUncut
    BY DEF ClientsInv
  <2>2. \A o \in Pooled : ~retired[o] /\ \A k \in Kind : slot[o][k] \in open \cup {NoHttp}
    BY <2>1 DEF Pooled, MapOf, SlotOf, ClientsTypeOK
  <2>3. PooledUsable
    BY <2>1, <2>2 DEF PooledUsable, MapOf
  <2>4. ClientsAttended
    BY <2>1 DEF ClientsAttended, AttendedOf, SlotOf
  <2> QED
    BY <2>1, <2>3, <2>4 DEF ClientsSound
<1> QED
  BY <1>1, ClientsAlways, PTL

-----------------------------------------------------------------------------
(* The catalog. *)

(* A refresh compares with a list that was confirmed, and its candidate is   *)
(* the last observation: a failed one has cleared it.                        *)
RefreshSound ==
    /\ Refreshing => refresh.previous \in confirmed \cup {NoList}
    /\ refresh.stage \in {"asking", "pausing"} /\ refresh.candidate # NoList =>
           refresh.candidate = lastFetched
    /\ refresh.stage = "pausing" => refresh.attempt < FetchAttempts

CatalogInv == CatalogTypeOK /\ CatalogConfirmed /\ RefreshSound

-----------------------------------------------------------------------------
(* The records, and the ways in which they change.                           *)
LEMMA SnapshotForms ==
    /\ NoSnapshot \in SnapshotType
    /\ \A s \in SnapshotType :
         /\ s.list \in Lists \cup {NoList}
         /\ \A due \in BOOLEAN : [s EXCEPT !.due = due] \in SnapshotType
         /\ \A list \in Lists : [s EXCEPT !.list = list] \in SnapshotType
    /\ \A list \in Lists \cup {NoList} :
         [loaded |-> TRUE, list |-> list, due |-> TRUE] \in SnapshotType
BY DEF SnapshotType, NoSnapshot

LEMMA TaskForms ==
    /\ NoTask \in RefreshType
    /\ \A step \in RefreshStage : [NoTask EXCEPT !.stage = step] \in RefreshType
    /\ \A list \in Lists \cup {NoList} :
         [NoTask EXCEPT !.stage = "asking", !.attempt = 1, !.previous = list]
           \in RefreshType
<1>1. 0 \in 0..FetchAttempts /\ 1 \in 0..FetchAttempts
  BY DEF FetchAttempts
<1>2. NoTask \in RefreshType
  BY <1>1 DEF RefreshType, RefreshStage, NoTask
<1>3. ASSUME NEW step \in RefreshStage
      PROVE  [NoTask EXCEPT !.stage = step] \in RefreshType
  BY <1>2 DEF RefreshType
<1>4. ASSUME NEW list \in Lists \cup {NoList}
      PROVE  [NoTask EXCEPT !.stage = "asking", !.attempt = 1, !.previous = list]
               \in RefreshType
  BY <1>1, <1>2 DEF RefreshType, RefreshStage
<1> QED
  BY <1>2, <1>3, <1>4

LEMMA RefreshForms ==
    ASSUME NEW r \in RefreshType
    PROVE  /\ [r EXCEPT !.stage = "saving"] \in RefreshType
           /\ r.attempt < FetchAttempts =>
                [r EXCEPT !.stage = "asking", !.attempt = @ + 1] \in RefreshType
           /\ \A list \in Lists \cup {NoList} :
                [r EXCEPT !.stage = "pausing", !.candidate = list] \in RefreshType
<1>1. [r EXCEPT !.stage = "saving"] \in RefreshType
  BY DEF RefreshType, RefreshStage
<1>2. ASSUME r.attempt < FetchAttempts
      PROVE  [r EXCEPT !.stage = "asking", !.attempt = @ + 1] \in RefreshType
  <2>1. r.attempt + 1 \in 0..FetchAttempts
    BY <1>2 DEF RefreshType, FetchAttempts
  <2> QED
    BY <2>1 DEF RefreshType, RefreshStage
<1>3. ASSUME NEW list \in Lists \cup {NoList}
      PROVE  [r EXCEPT !.stage = "pausing", !.candidate = list] \in RefreshType
  BY DEF RefreshType, RefreshStage
<1> QED
  BY <1>1, <1>2, <1>3

LEMMA AskerForms ==
    /\ NoAsker \in AskerType
    /\ \A answer \in Lists \cup {NoList} :
         \A step \in {"waiting", "answered"} :
           [stage |-> step, answer |-> answer] \in AskerType
    /\ \A a \in AskerType, answer \in Lists \cup {NoList} :
         \A step \in {"failed", "answered"} :
           [a EXCEPT !.stage = step, !.answer = answer] \in AskerType
BY DEF AskerType, NoAsker

-----------------------------------------------------------------------------
LEMMA CatalogBegins == CatalogInit => CatalogInv
<1> SUFFICES ASSUME CatalogInit PROVE CatalogInv
  OBVIOUS
<1>1. CatalogTypeOK
  <2>1. catalogStarts \in 0..MaxCatalogStarts
    BY CatalogAssumption DEF CatalogInit
  <2>2. askers \in [Askers -> AskerType]
    BY AskerForms DEF CatalogInit
  <2> QED
    BY <2>1, <2>2, SnapshotForms, TaskForms DEF CatalogInit, CatalogTypeOK
<1>2. CatalogConfirmed
  BY DEF CatalogInit, CatalogConfirmed, NoSnapshot, NoAsker
<1>3. RefreshSound
  BY DEF CatalogInit, RefreshSound, NoTask, Refreshing
<1> QED
  BY <1>1, <1>2, <1>3 DEF CatalogInv

(* What an observation adds.                                                 *)
LEMMA ObserveSound ==
    ASSUME CatalogTypeOK, NEW list \in Lists \cup {NoModels}, Observe(list)
    PROVE  /\ confirmed \subseteq confirmed' /\ confirmed' \in SUBSET Lists
           /\ lastFetched' = list /\ lastFetched' \in Lists \cup {NoModels}
           /\ list # NoModels /\ lastFetched = list => list \in confirmed'
BY DEF CatalogTypeOK, Observe

(* A refresh that is over is bound to nothing.                               *)
LEMMA OverSound ==
    ASSUME CatalogInv, NEW step \in {"done", "failed", "broken"}, RefreshOver(step),
           confirmed \subseteq confirmed', confirmed' \in SUBSET Lists,
           lastFetched' \in Lists \cup {NoModels},
           listFile' \in {listFile, snapshot.list}, UNCHANGED <<askers, catalogLife>>
    PROVE  CatalogInv'
<1>1. CatalogTypeOK'
  BY SnapshotForms, TaskForms DEF CatalogInv, CatalogTypeOK, RefreshOver, catalogLife, RefreshStage
<1>2. CatalogConfirmed'
  <2>1. snapshot'.list = snapshot.list
    BY DEF CatalogInv, CatalogTypeOK, SnapshotType, RefreshOver
  <2> QED
    BY <2>1 DEF CatalogInv, CatalogConfirmed
<1>3. RefreshSound'
  BY DEF RefreshOver, RefreshSound, Refreshing, NoTask
<1> QED
  BY <1>1, <1>2, <1>3 DEF CatalogInv

(* Neither is one that tries again, but for its candidate.                   *)
LEMMA NextAttemptSound ==
    ASSUME CatalogInv, refresh.stage = "asking",
           NEW list \in Lists \cup {NoModels}, Observe(list),
           NEW candidate \in Lists \cup {NoList}, candidate \in {NoList, list},
           NextAttempt(candidate), UNCHANGED <<listFile, askers, catalogLife>>
    PROVE  CatalogInv'
<1>1. /\ confirmed \subseteq confirmed' /\ confirmed' \in SUBSET Lists
      /\ lastFetched' = list /\ lastFetched' \in Lists \cup {NoModels}
  BY ObserveSound DEF CatalogInv
<1>2. CASE refresh.attempt = FetchAttempts
  BY <1>1, <1>2, OverSound DEF NextAttempt
<1>3. CASE refresh.attempt # FetchAttempts
  <2>1. /\ refresh' = [refresh EXCEPT !.stage = "pausing", !.candidate = candidate]
        /\ snapshot' = snapshot
    BY <1>3 DEF NextAttempt
  <2>2. CatalogTypeOK'
    BY <1>1, <2>1, RefreshForms DEF CatalogInv, CatalogTypeOK, catalogLife
  <2>3. CatalogConfirmed'
    BY <1>1, <2>1 DEF CatalogInv, CatalogConfirmed
  <2>4. RefreshSound'
    <3>1. refresh.attempt < FetchAttempts
      BY <1>3 DEF CatalogInv, CatalogTypeOK, RefreshType, FetchAttempts
    <3>2. /\ refresh'.stage = "pausing" /\ refresh'.candidate = candidate
          /\ refresh'.previous = refresh.previous /\ refresh'.attempt = refresh.attempt
      BY <2>1 DEF CatalogInv, CatalogTypeOK, RefreshType
    <3> QED
      BY <1>1, <3>1, <3>2 DEF CatalogInv, RefreshSound, Refreshing
  <2> QED
    BY <2>2, <2>3, <2>4 DEF CatalogInv
<1> QED
  BY <1>2, <1>3

LEMMA CatalogStep == CatalogInv /\ [CatalogNext]_catalogVars => CatalogInv'
<1> SUFFICES ASSUME CatalogInv, [CatalogNext]_catalogVars PROVE CatalogInv'
  OBVIOUS
<1>0. CatalogTypeOK /\ CatalogConfirmed /\ RefreshSound
  BY DEF CatalogInv
<1>1. ASSUME NEW q \in Askers, NEW force \in BOOLEAN, AskModels(q, force)
      PROVE  CatalogInv'
  <2>1. PICK loaded \in LoadedSnapshots :
          /\ snapshot' = loaded
          /\ StartRefresh(loaded.list) \/ UNCHANGED <<refresh, lastFetched>>
          /\ \E step \in {"waiting", "answered"} :
               askers' = [askers EXCEPT ![q] = [stage |-> step, answer |-> loaded.list]]
          /\ UNCHANGED <<listFile, confirmed, catalogLife>>
    BY <1>1 DEF AskModels
  <2>2. /\ loaded \in SnapshotType /\ loaded.list \in Lists \cup {NoList}
        /\ loaded.list \in confirmed \cup {NoList}
    BY <1>0, SnapshotForms DEF LoadedSnapshots, CatalogTypeOK, CatalogConfirmed
  <2>3. \/ UNCHANGED <<refresh, lastFetched>>
        \/ /\ refresh' = [NoTask EXCEPT !.stage = "asking", !.attempt = 1,
                                        !.previous = loaded.list]
           /\ lastFetched' = NoModels
    BY <2>1 DEF StartRefresh
  <2>4. CatalogTypeOK'
    BY <1>0, <2>1, <2>2, <2>3, TaskForms, AskerForms DEF CatalogTypeOK, catalogLife
  <2>5. CatalogConfirmed'
    BY <1>0, <2>1, <2>2 DEF CatalogConfirmed, CatalogTypeOK
  <2>6. RefreshSound'
    BY <1>0, <2>1, <2>2, <2>3 DEF RefreshSound, Refreshing, NoTask
  <2> QED
    BY <2>4, <2>5, <2>6 DEF CatalogInv
<1>2. ASSUME NEW q \in Askers, AnswerAsk(q) PROVE CatalogInv'
  <2>1. /\ \E answer \in {NoList, snapshot.list}, step \in {"failed", "answered"} :
             askers' = [askers EXCEPT ![q].stage = step, ![q].answer = answer]
        /\ UNCHANGED <<snapshot, refresh, listFile, catalogHistory, catalogLife>>
    BY <1>2 DEF AnswerAsk
  <2>2. CatalogTypeOK'
    <3>1. PICK answer \in Lists \cup {NoList}, step \in {"failed", "answered"} :
            askers' = [askers EXCEPT ![q].stage = step, ![q].answer = answer]
      BY <1>0, <2>1, SnapshotForms DEF CatalogTypeOK
    <3>2. askers' = [askers EXCEPT ![q] = [askers[q] EXCEPT !.stage = step, !.answer = answer]]
      BY <1>0, <3>1 DEF CatalogTypeOK
    <3>3. askers' \in [Askers -> AskerType]
      BY <1>0, <3>2, AskerForms DEF CatalogTypeOK
    <3> QED
      BY <1>0, <2>1, <3>3 DEF CatalogTypeOK, catalogHistory, catalogLife
  <2>3. CatalogConfirmed'
    BY <1>0, <2>1 DEF CatalogConfirmed, CatalogTypeOK, AskerType, catalogHistory
  <2>4. RefreshSound'
    BY <1>0, <2>1 DEF RefreshSound, Refreshing, catalogHistory
  <2> QED
    BY <2>2, <2>3, <2>4 DEF CatalogInv
<1>3. ASSUME NEW q \in Askers, ForgetAsk(q) PROVE CatalogInv'
  <2>1. /\ askers' = [askers EXCEPT ![q] = NoAsker]
        /\ UNCHANGED <<snapshot, refresh, listFile, catalogHistory, catalogLife>>
    BY <1>3 DEF ForgetAsk
  <2>2. CatalogTypeOK'
    BY <1>0, <2>1, AskerForms DEF CatalogTypeOK, catalogHistory, catalogLife
  <2>3. CatalogConfirmed'
    BY <1>0, <2>1 DEF CatalogConfirmed, CatalogTypeOK, NoAsker, catalogHistory
  <2>4. RefreshSound'
    BY <1>0, <2>1 DEF RefreshSound, Refreshing, catalogHistory
  <2> QED
    BY <2>2, <2>3, <2>4 DEF CatalogInv
<1>4. ASSUME NEW list \in Lists, FetchListed(list) PROVE CatalogInv'
  <2>1. /\ refresh.stage = "asking" /\ Observe(list)
        /\ UNCHANGED <<listFile, askers, catalogLife>>
    BY <1>4 DEF FetchListed
  <2>2. CASE list \in {refresh.previous, refresh.candidate}
    <3>1. /\ confirmed \subseteq confirmed' /\ confirmed' \in SUBSET Lists
          /\ lastFetched' \in Lists \cup {NoModels}
          /\ list # NoModels /\ lastFetched = list => list \in confirmed'
      BY <1>0, <2>1, ObserveSound
    <3>2. list \in confirmed'
      BY <1>0, <2>1, <2>2, <3>1, CatalogAssumption DEF RefreshSound, Refreshing
    <3>3. /\ snapshot' = [snapshot EXCEPT !.list = list]
          /\ refresh' = [refresh EXCEPT !.stage = "saving"]
      BY <1>4, <2>2 DEF FetchListed
    <3>4. CatalogTypeOK'
      BY <1>0, <2>1, <3>1, <3>3, SnapshotForms, RefreshForms DEF CatalogTypeOK, catalogLife
    <3>5. CatalogConfirmed'
      <4>1. snapshot'.list = list
        BY <1>0, <3>3 DEF CatalogTypeOK, SnapshotType
      <4> QED
        BY <1>0, <2>1, <3>1, <3>2, <4>1 DEF CatalogConfirmed
    <3>6. RefreshSound'
      <4>1. refresh'.stage = "saving" /\ refresh'.previous = refresh.previous
        BY <1>0, <3>3 DEF CatalogTypeOK, RefreshType
      <4> QED
        BY <1>0, <2>1, <3>1, <4>1 DEF RefreshSound, Refreshing
    <3> QED
      BY <3>4, <3>5, <3>6 DEF CatalogInv
  <2>3. CASE list \notin {refresh.previous, refresh.candidate}
    <3>1. NextAttempt(list)
      BY <1>4, <2>3 DEF FetchListed
    <3> QED
      BY <2>1, <3>1, NextAttemptSound
  <2> QED
    BY <2>2, <2>3
<1>5. ASSUME FetchFailed PROVE CatalogInv'
  BY <1>5, NextAttemptSound DEF FetchFailed
<1>6. ASSUME FetchBreaks PROVE CatalogInv'
  BY <1>0, <1>6, OverSound DEF FetchBreaks, CatalogTypeOK, catalogHistory
<1>7. ASSUME AskAgain PROVE CatalogInv'
  <2>1. /\ refresh.stage = "pausing"
        /\ refresh' = [refresh EXCEPT !.stage = "asking", !.attempt = @ + 1]
        /\ UNCHANGED <<snapshot, listFile, askers, catalogHistory, catalogLife>>
    BY <1>7 DEF AskAgain
  <2>2. CatalogTypeOK'
    BY <1>0, <2>1, RefreshForms DEF CatalogTypeOK, RefreshSound, catalogHistory, catalogLife
  <2>3. CatalogConfirmed'
    BY <1>0, <2>1 DEF CatalogConfirmed, catalogHistory
  <2>4. RefreshSound'
    <3>1. /\ refresh'.stage = "asking" /\ refresh'.previous = refresh.previous
          /\ refresh'.candidate = refresh.candidate
      BY <1>0, <2>1 DEF CatalogTypeOK, RefreshType
    <3> QED
      BY <1>0, <2>1, <3>1 DEF RefreshSound, Refreshing, catalogHistory
  <2> QED
    BY <2>2, <2>3, <2>4 DEF CatalogInv
<1>8. ASSUME NEW ok \in BOOLEAN, SaveList(ok) PROVE CatalogInv'
  BY <1>0, <1>8, OverSound DEF SaveList, CatalogTypeOK, catalogHistory
<1>9. ASSUME NEW ok \in BOOLEAN, CloseTasks(ok) PROVE CatalogInv'
  <2>1. /\ listFile' \in {listFile, snapshot.list}
        /\ UNCHANGED <<askers, catalogHistory, catalogStarts>> /\ tasksClosed' = TRUE
        /\ \E due \in BOOLEAN : snapshot' = [snapshot EXCEPT !.due = due]
        /\ refresh' \in {refresh, [NoTask EXCEPT !.stage = "broken"]}
    BY <1>9 DEF CloseTasks
  <2>2. CatalogTypeOK'
    BY <1>0, <2>1, SnapshotForms, TaskForms DEF CatalogTypeOK, RefreshStage, catalogHistory
  <2>3. CatalogConfirmed'
    <3>1. snapshot'.list = snapshot.list
      BY <1>0, <2>1 DEF CatalogTypeOK, SnapshotType
    <3> QED
      BY <1>0, <2>1, <3>1 DEF CatalogConfirmed, catalogHistory
  <2>4. RefreshSound'
    BY <1>0, <2>1 DEF RefreshSound, Refreshing, NoTask, catalogHistory
  <2> QED
    BY <2>2, <2>3, <2>4 DEF CatalogInv
<1>10. ASSUME CatalogDue PROVE CatalogInv'
  <2>1. /\ snapshot' = [snapshot EXCEPT !.due = TRUE]
        /\ UNCHANGED <<refresh, listFile, askers, catalogHistory, catalogLife>>
    BY <1>10 DEF CatalogDue
  <2>2. CatalogTypeOK'
    BY <1>0, <2>1, SnapshotForms DEF CatalogTypeOK, catalogHistory, catalogLife
  <2>3. snapshot'.list = snapshot.list
    BY <1>0, <2>1 DEF CatalogTypeOK, SnapshotType
  <2> QED
    BY <1>0, <2>1, <2>2, <2>3
    DEF CatalogInv, CatalogConfirmed, RefreshSound, Refreshing, catalogHistory
<1>11. ASSUME RestartCatalog PROVE CatalogInv'
  <2>1. /\ catalogStarts < MaxCatalogStarts /\ catalogStarts' = catalogStarts + 1
        /\ tasksClosed' = FALSE /\ snapshot' = NoSnapshot /\ refresh' = NoTask
        /\ askers' = [q \in Askers |-> NoAsker]
        /\ UNCHANGED <<listFile, catalogHistory>>
    BY <1>11 DEF RestartCatalog
  <2>2. CatalogTypeOK'
    <3>1. catalogStarts' \in 0..MaxCatalogStarts
      BY <1>0, <2>1, CatalogAssumption DEF CatalogTypeOK
    <3>2. askers' \in [Askers -> AskerType]
      BY <2>1, AskerForms
    <3> QED
      BY <1>0, <2>1, <3>1, <3>2, SnapshotForms, TaskForms DEF CatalogTypeOK, catalogHistory
  <2>3. CatalogConfirmed'
    BY <1>0, <2>1 DEF CatalogConfirmed, NoSnapshot, NoAsker, catalogHistory
  <2>4. RefreshSound'
    BY <2>1 DEF RefreshSound, Refreshing, NoTask
  <2> QED
    BY <2>2, <2>3, <2>4 DEF CatalogInv
<1>12. CASE UNCHANGED catalogVars
  BY <1>0, <1>12
  DEF CatalogInv, catalogVars, CatalogTypeOK, CatalogConfirmed, RefreshSound, Refreshing,
      catalogHistory, catalogLife
<1> QED
  BY <1>1, <1>2, <1>3, <1>4, <1>5, <1>6, <1>7, <1>8, <1>9, <1>10, <1>11, <1>12
  DEF CatalogNext

LEMMA CatalogAlways == CatalogSpec => []CatalogInv
  BY CatalogBegins, CatalogStep, PTL DEF CatalogSpec

(* The state of snapshot, refresh, file and requests keeps its type.         *)
THEOREM CatalogTypeTheorem == CatalogSpec => []CatalogTypeOK
<1>1. CatalogInv => CatalogTypeOK
  BY DEF CatalogInv
<1> QED
  BY <1>1, CatalogAlways, PTL

(* Whatever is served, kept or saved was observed twice in a row in one      *)
(* refresh (catalog_store.py, refresh), for any number of requests that join *)
(* it, of lists the upstream may answer, and of restarts.                    *)
THEOREM ConfirmedTheorem == CatalogSpec => []CatalogConfirmed
<1>1. CatalogInv => CatalogConfirmed
  BY DEF CatalogInv
<1> QED
  BY <1>1, CatalogAlways, PTL

-----------------------------------------------------------------------------
(* The translator. *)

Entry == [kind : {"reasoning", "message", "call"}, status : {"in_progress", "completed"}]
Buffer == [item : Nat, tool : Tools \cup {"none"}, args : {"none", "part", "whole", "spoilt"},
           late : BOOLEAN]

Made(s) ==
    s = [created |-> s.created, reason |-> s.reason, items |-> s.items,
         first |-> s.first, thinking |-> s.thinking, text |-> s.text,
         calls |-> s.calls, mode |-> s.mode, held |-> s.held,
         thought |-> s.thought, visible |-> s.visible, client |-> s.client]

(* What it is made of: of the texts nothing needs to be known. *)
ShapeOf(s) ==
    /\ Made(s)
    /\ s.created \in BOOLEAN
    /\ s.items \in Seq(Entry) /\ s.first \in 0 .. Len(s.items)
    /\ s.thinking \in Nat /\ s.text \in Nat
    /\ s.calls \in Seq(Buffer)

Fresher(s) == (s.first + 1) .. Len(s.items)

(* The client was told of what there is, in time. *)
ToldOf(s) ==
    /\ s.client.created = s.created /\ s.client.ended = "open" /\ s.client.stray = FALSE
    /\ s.client.added \cup s.client.done \subseteq 1 .. Len(s.items)
    /\ s.created = FALSE => s.items = <<>> /\ s.reason = "none"

(* Its list of the items that are done is the translator's. *)
DoneOf(s) ==
    \A k \in 1 .. Len(s.items) : k \in s.client.done <=> s.items[k].status = "completed"

OpenAt(s, k, kind) ==
    k # 0 => /\ k \in Fresher(s) /\ s.items[k].kind = kind
             /\ k \in s.client.added \ s.client.done

OpenOf(s) == OpenAt(s, s.thinking, "reasoning") /\ OpenAt(s, s.text, "message")

(* Each call has an item of its own, which was announced once the call had a *)
(* name; the items of the first m are done.                                  *)
CallsOf(s, m) ==
    \A i \in 1 .. Len(s.calls) :
        /\ CallItem(s, i) \in Fresher(s) /\ s.items[CallItem(s, i)].kind = "call"
        /\ CallItem(s, i) \in s.client.added <=> s.calls[i].tool # "none"
        /\ CallItem(s, i) \in s.client.done <=> i <= m
        /\ \A j \in 1 .. Len(s.calls) : CallItem(s, j) = CallItem(s, i) => j = i

OddOf(s) ==
    \A k \in s.client.odd : \E i \in 1 .. Len(s.calls) :
        CallItem(s, i) = k /\ s.calls[i].late

(* Nothing of this stream is open that nobody will close. *)
ClosedOf(s) ==
    \A k \in Fresher(s) :
        \/ k \in s.client.done \/ k = s.thinking \/ k = s.text
        \/ \E i \in 1 .. Len(s.calls) : CallItem(s, i) = k

Sound(s, m) ==
    ShapeOf(s) /\ ToldOf(s) /\ DoneOf(s) /\ OpenOf(s) /\ CallsOf(s, m) /\ OddOf(s) /\ ClosedOf(s)

(* z has the items of s and the client was told the same of them. *)
SameItems(s, z) ==
    /\ Made(z) /\ z.items = s.items /\ z.first = s.first
    /\ z.thinking = s.thinking /\ z.text = s.text /\ z.calls = s.calls
    /\ z.client.added = s.client.added /\ z.client.done = s.client.done
    /\ z.client.odd = s.client.odd

(* z is s, but for its texts and its mode. *)
Alike(s, z) ==
    /\ SameItems(s, z) /\ z.reason = s.reason
    /\ z.created = s.created /\ z.client.created = s.client.created
    /\ z.client.ended = s.client.ended /\ z.client.stray = s.client.stray

LEMMA EmitFields ==
  ASSUME NEW s, Made(s), NEW kind, NEW i
  PROVE  LET z == Emit(s, kind, i)
         IN /\ Made(z)
            /\ z.created = s.created /\ z.items = s.items /\ z.first = s.first
            /\ z.thinking = s.thinking /\ z.text = s.text /\ z.calls = s.calls
            /\ z.reason = s.reason
            /\ z.client = See(s.client, kind, i)
BY DEF Made, Emit

LEMMA SameItemsSound ==
  ASSUME NEW s, NEW z, NEW m, Sound(s, m), SameItems(s, z), z.created \in BOOLEAN, ToldOf(z)
  PROVE  Sound(z, m)
<1> USE DEF SameItems
<1>1. ShapeOf(z)  BY DEF Sound, ShapeOf
<1>3. DoneOf(z)  BY DEF Sound, DoneOf
<1>4. OpenOf(z)  BY DEF Sound, OpenOf, OpenAt, Fresher
<1>5. CallsOf(z, m)  BY DEF Sound, CallsOf, CallItem, Fresher
<1>6. OddOf(z)  BY DEF Sound, OddOf, CallItem
<1>7. ClosedOf(z)  BY DEF Sound, ClosedOf, CallItem, Fresher
<1>8. QED  BY <1>1, <1>3, <1>4, <1>5, <1>6, <1>7 DEF Sound

LEMMA AlikeSound ==
  ASSUME NEW s, NEW z, NEW m, Sound(s, m), Alike(s, z)
  PROVE  Sound(z, m)
<1>1. ToldOf(z)  BY DEF Sound, ToldOf, Alike, SameItems
<1>2. z.created \in BOOLEAN  BY DEF Sound, ShapeOf, Alike
<1>3. QED  BY <1>1, <1>2, SameItemsSound DEF Alike

(* What the client makes of an event that is not the end.                    *)
LEMMA Seen ==
  ASSUME NEW r, r.created = TRUE, r.ended = "open", r.stray = FALSE, NEW k, NEW kind,
         kind \in {"added", "delta", "done"}
  PROVE  LET w == See(r, kind, k)
         IN /\ w.created = TRUE /\ w.ended = "open" /\ w.stray = FALSE
            /\ w.added = IF kind = "added" THEN r.added \cup {k} ELSE r.added
            /\ w.done = IF kind = "done" THEN r.done \cup {k} ELSE r.done
            /\ w.odd = IF OutOfOrder(r, kind, k) THEN r.odd \cup {k} ELSE r.odd
BY DEF See, Terminal

(* A piece of an item that is open changes nothing for the client.           *)
LEMMA DeltaSound ==
  ASSUME NEW s, NEW m, Sound(s, m), s.created = TRUE,
         NEW k \in s.client.added \ s.client.done
  PROVE  LET z == Emit(s, "delta", k)
         IN Sound(z, m) /\ Alike(s, z)
<1> DEFINE z == Emit(s, "delta", k)
           r == s.client
           w == See(r, "delta", k)
<1>1. r.created = TRUE /\ r.ended = "open" /\ r.stray = FALSE /\ ~OutOfOrder(r, "delta", k)
  BY DEF Sound, ToldOf, OutOfOrder
<1> HIDE DEF r
<1>2. /\ w.created = r.created /\ w.added = r.added /\ w.done = r.done /\ w.odd = r.odd
      /\ w.ended = r.ended /\ w.stray = r.stray
  BY <1>1 DEF See, Terminal
<1>3. Made(s)  BY DEF Sound, ShapeOf
<1>4. Alike(s, z)  BY <1>2, <1>3, EmitFields DEF Alike, SameItems, r
<1>5. QED  BY <1>4, AlikeSound

LEMMA CreatedFields ==
  ASSUME NEW s, Made(s), NEW v
  PROVE  LET z == [s EXCEPT !.created = v]
         IN /\ Made(z)
            /\ z.created = v /\ z.items = s.items /\ z.first = s.first
            /\ z.thinking = s.thinking /\ z.text = s.text /\ z.calls = s.calls
            /\ z.client = s.client
BY DEF Made

LEMMA CreatedSound ==
  ASSUME NEW s, Sound(s, 0)
  PROVE  Sound(Created(s), 0) /\ Created(s).created = TRUE /\ Created(s).calls = s.calls
<1>0. s.created \in BOOLEAN  BY DEF Sound, ShapeOf
<1>1. CASE s.created = TRUE  BY <1>1 DEF Created
<1>2. CASE s.created = FALSE
  <2> DEFINE b == [s EXCEPT !.created = TRUE]
             z == Created(s)
  <2>1. Made(s) /\ s.items = <<>>
    BY <1>2 DEF Sound, ShapeOf, ToldOf
  <2>2. /\ Made(b) /\ b.created = TRUE /\ b.items = s.items /\ b.first = s.first
        /\ b.thinking = s.thinking /\ b.text = s.text /\ b.calls = s.calls
        /\ b.client = s.client
    BY <2>1, CreatedFields
  <2>0. z = Emit(b, "created", 0)
    BY <1>2 DEF Created
  <2> HIDE DEF b, z
  <2>3. /\ z.created = TRUE /\ Made(z) /\ z.items = s.items /\ z.first = s.first
        /\ z.thinking = s.thinking /\ z.text = s.text /\ z.calls = s.calls
        /\ z.client = See(s.client, "created", 0)
    BY <2>0, <2>2, EmitFields
  <2>4. /\ z.client.created = TRUE /\ z.client.added = s.client.added
        /\ z.client.done = s.client.done /\ z.client.odd = s.client.odd
        /\ z.client.ended = "open" /\ z.client.stray = FALSE
    <3> DEFINE r == s.client
    <3>1. r.created = FALSE /\ r.ended = "open" /\ r.stray = FALSE
      BY <1>2 DEF Sound, ToldOf
    <3> HIDE DEF r
    <3>2. LET w == See(r, "created", 0)
          IN /\ w.created = TRUE /\ w.added = r.added /\ w.done = r.done /\ w.odd = r.odd
             /\ w.ended = "open" /\ w.stray = FALSE
      BY <3>1 DEF See, OutOfOrder, Terminal
    <3>3. QED
      BY <2>3, <3>2 DEF r
  <2>5. SameItems(s, z)
    BY <2>3, <2>4 DEF SameItems
  <2>6. ToldOf(z)  BY <2>3, <2>4 DEF Sound, ToldOf
  <2>7. Sound(z, 0)  BY <2>3, <2>5, <2>6, SameItemsSound
  <2>8. QED  BY <2>3, <2>7 DEF z
<1>3. QED  BY <1>0, <1>1, <1>2

(* What the parts of a chunk have in common: the calls stay.                 *)
Continues(s, z) ==
    Sound(z, 0) /\ z.created = TRUE /\ z.calls = s.calls /\ z.reason = s.reason

LEMMA TextFields ==
  ASSUME NEW s, Made(s), NEW v, NEW w
  PROVE  /\ Alike(s, [s EXCEPT !.thought = v]) /\ Alike(s, [s EXCEPT !.visible = v])
         /\ Alike(s, [s EXCEPT !.held = v]) /\ Alike(s, [s EXCEPT !.held = v, !.mode = w])
<1>1. Alike(s, [s EXCEPT !.thought = v])  BY DEF Made, Alike, SameItems
<1>2. Alike(s, [s EXCEPT !.visible = v])  BY DEF Made, Alike, SameItems
<1>3. Alike(s, [s EXCEPT !.held = v])  BY DEF Made, Alike, SameItems
<1>4. Alike(s, [s EXCEPT !.held = v, !.mode = w])
  <2> DEFINE b == [s EXCEPT !.held = v]
             z == [b EXCEPT !.mode = w]
  <2>1. [s EXCEPT !.held = v, !.mode = w] = z
    OBVIOUS
  <2>2. Made(b)  BY <1>3 DEF Alike, SameItems
  <2> HIDE DEF b
  <2>3. Alike(b, z)  BY <2>2 DEF Made, Alike, SameItems
  <2> HIDE DEF z
  <2>4. QED  BY <2>1, <2>3, <1>3 DEF Alike, SameItems, b
<1>5. QED  BY <1>1, <1>2, <1>3, <1>4

LEMMA ItemsFields ==
  ASSUME NEW s, Made(s), NEW v
  PROVE  LET z == [s EXCEPT !.items = v]
         IN /\ Made(z) /\ z.items = v
            /\ z.created = s.created /\ z.first = s.first
            /\ z.thinking = s.thinking /\ z.text = s.text /\ z.calls = s.calls
            /\ z.reason = s.reason /\ z.client = s.client
BY DEF Made

LEMMA PlacedFields ==
  ASSUME NEW s, Made(s), NEW kind
  PROVE  LET z == Placed(s, kind)
         IN /\ Made(z)
            /\ z.items = Append(s.items, [kind |-> kind, status |-> "in_progress"])
            /\ z.created = s.created /\ z.first = s.first
            /\ z.thinking = s.thinking /\ z.text = s.text /\ z.calls = s.calls
            /\ z.reason = s.reason /\ z.client = s.client
<1> DEFINE v == Append(s.items, [kind |-> kind, status |-> "in_progress"])
<1>1. Placed(s, kind) = [s EXCEPT !.items = v]  BY DEF Placed
<1> HIDE DEF v
<1>2. LET z == [s EXCEPT !.items = v]
      IN /\ Made(z) /\ z.items = v
         /\ z.created = s.created /\ z.first = s.first
         /\ z.thinking = s.thinking /\ z.text = s.text /\ z.calls = s.calls
         /\ z.reason = s.reason /\ z.client = s.client
  BY ItemsFields
<1>3. QED  BY <1>1, <1>2 DEF v

(* z is s with a new item that is open. *)
Begun(s, z, kind) ==
    /\ Made(z)
    /\ z.items = Append(s.items, [kind |-> kind, status |-> "in_progress"])
    /\ z.created = s.created /\ z.first = s.first
    /\ z.calls = s.calls /\ z.reason = s.reason
    /\ z.client = See(s.client, "added", Len(s.items) + 1)
    /\ IF kind = "reasoning"
       THEN s.thinking = 0 /\ z.thinking = Len(s.items) + 1 /\ z.text = s.text
       ELSE s.text = 0 /\ z.text = Len(s.items) + 1 /\ z.thinking = s.thinking

LEMMA BegunSound ==
  ASSUME NEW s, NEW z, NEW kind \in {"reasoning", "message"},
         Sound(s, 0), s.created = TRUE, Begun(s, z, kind)
  PROVE  Sound(z, 0)
<1> DEFINE N == Len(s.items)
           e == [kind |-> kind, status |-> "in_progress"]
<1>1. /\ s.items \in Seq(Entry) /\ N \in Nat /\ s.first \in 0 .. N
      /\ s.thinking \in Nat /\ s.text \in Nat /\ s.calls \in Seq(Buffer)
  BY DEF Sound, ShapeOf
<1>2. /\ z.items \in Seq(Entry) /\ Len(z.items) = N + 1 /\ z.items[N + 1] = e
      /\ \A k \in 1 .. N : z.items[k] = s.items[k]
  BY <1>1 DEF Begun, Entry
<1>3. N + 1 \notin s.client.added /\ N + 1 \notin s.client.done
      /\ s.client.added \subseteq 1 .. N /\ s.client.done \subseteq 1 .. N
  <2>1. s.client.added \cup s.client.done \subseteq 1 .. N  BY DEF Sound, ToldOf
  <2>2. N + 1 \notin 1 .. N  BY <1>1
  <2>3. QED  BY <2>1, <2>2
<1>4. /\ z.client.created = TRUE /\ z.client.ended = "open" /\ z.client.stray = FALSE
      /\ z.client.added = s.client.added \cup {N + 1} /\ z.client.done = s.client.done
      /\ z.client.odd = s.client.odd
  <2> DEFINE r == s.client
  <2>1. r.created = TRUE /\ r.ended = "open" /\ r.stray = FALSE
        /\ ~OutOfOrder(r, "added", N + 1)
    BY <1>3 DEF Sound, ToldOf, OutOfOrder
  <2> HIDE DEF r, N
  <2>2. LET w == See(r, "added", N + 1)
        IN /\ w.created = TRUE /\ w.ended = "open" /\ w.stray = FALSE
           /\ w.added = r.added \cup {N + 1} /\ w.done = r.done /\ w.odd = r.odd
    BY <2>1 DEF See, Terminal
  <2>3. z.client = See(r, "added", N + 1)  BY DEF Begun, r, N
  <2>4. QED  BY <2>2, <2>3 DEF r
<1>5. /\ z.first = s.first /\ z.calls = s.calls /\ z.created = TRUE /\ Made(z)
      /\ IF kind = "reasoning"
         THEN s.thinking = 0 /\ z.thinking = N + 1 /\ z.text = s.text
         ELSE s.text = 0 /\ z.text = N + 1 /\ z.thinking = s.thinking
  BY DEF Begun
<1>6. e.kind = kind /\ e.status = "in_progress"  OBVIOUS
<1> HIDE DEF N, e
<1>7. Fresher(z) = Fresher(s) \cup {N + 1} /\ Fresher(s) \subseteq 1 .. N
  BY <1>1, <1>2, <1>5 DEF Fresher, N
<1>0. N \in Nat /\ N + 1 \in Nat /\ 1 .. (N + 1) = (1 .. N) \cup {N + 1} /\ N + 1 \notin 1 .. N
      /\ 0 .. N \subseteq 0 .. (N + 1) /\ 0 \notin 1 .. (N + 1)
  BY <1>1
<1>8. ShapeOf(z)
  BY <1>0, <1>1, <1>2, <1>5 DEF ShapeOf
<1>9. ToldOf(z)
  BY <1>0, <1>2, <1>3, <1>4, <1>5 DEF ToldOf
<1>10. DoneOf(z)
  <2>1. DoneOf(s)  BY DEF Sound
  <2>2. \A k \in 1 .. N : k \in z.client.done <=> z.items[k].status = "completed"
    BY <2>1, <1>2, <1>4 DEF DoneOf, N
  <2>3. N + 1 \notin z.client.done /\ z.items[N + 1].status # "completed"
    BY <1>2, <1>3, <1>4, <1>6
  <2>4. QED  BY <2>2, <2>3, <1>0, <1>2 DEF DoneOf
<1>11. OpenOf(z)
  <2>1. OpenAt(s, s.thinking, "reasoning") /\ OpenAt(s, s.text, "message")
    BY DEF Sound, OpenOf
  <2>2. \A k : k # 0 /\ k # N + 1 /\ OpenAt(s, k, "reasoning") => OpenAt(z, k, "reasoning")
    BY <1>2, <1>3, <1>4, <1>7 DEF OpenAt
  <2>3. \A k : k # 0 /\ k # N + 1 /\ OpenAt(s, k, "message") => OpenAt(z, k, "message")
    BY <1>2, <1>3, <1>4, <1>7 DEF OpenAt
  <2>4. OpenAt(z, N + 1, kind)
    BY <1>2, <1>3, <1>4, <1>6, <1>7 DEF OpenAt
  <2>5. QED
    BY <2>1, <2>2, <2>3, <2>4, <1>5, <1>1, <1>7 DEF OpenOf, OpenAt
<1>12. CallsOf(z, 0)
  <2>1. CallsOf(s, 0)  BY DEF Sound
  <2>2. \A i : CallItem(z, i) = CallItem(s, i)  BY <1>5 DEF CallItem
  <2>3. \A i \in 1 .. Len(s.calls) : CallItem(s, i) \in 1 .. N
    BY <2>1, <1>7 DEF CallsOf
  <2>4. z.calls = s.calls  BY <1>5
  <2>5. ASSUME NEW i \in 1 .. Len(z.calls)
        PROVE  /\ CallItem(z, i) \in Fresher(z) /\ z.items[CallItem(z, i)].kind = "call"
               /\ CallItem(z, i) \in z.client.added <=> z.calls[i].tool # "none"
               /\ CallItem(z, i) \in z.client.done <=> i <= 0
    <3>1. CallItem(s, i) \in 1 .. N /\ CallItem(s, i) # N + 1
      BY <2>3, <2>4, <1>0
    <3>2. /\ CallItem(s, i) \in Fresher(s) /\ s.items[CallItem(s, i)].kind = "call"
          /\ CallItem(s, i) \in s.client.added <=> s.calls[i].tool # "none"
          /\ CallItem(s, i) \in s.client.done <=> i <= 0
      BY <2>1, <2>4 DEF CallsOf
    <3>3. QED  BY <3>1, <3>2, <2>2, <2>4, <1>2, <1>4, <1>7
  <2>6. \A i, j \in 1 .. Len(z.calls) : CallItem(z, j) = CallItem(z, i) => j = i
    BY <2>1, <2>2, <2>4 DEF CallsOf
  <2>7. QED
    BY <2>5, <2>6 DEF CallsOf
<1>13. OddOf(z)
  <2>1. OddOf(s)  BY DEF Sound
  <2>2. z.calls = s.calls /\ z.client.odd = s.client.odd  BY <1>4, <1>5
  <2>3. QED  BY <2>1, <2>2 DEF OddOf, CallItem
<1>14. ClosedOf(z)
  <2>1. ClosedOf(s)  BY DEF Sound
  <2>2. \A i : CallItem(z, i) = CallItem(s, i)  BY <1>5 DEF CallItem
  <2>3. \A k \in Fresher(s) : k # 0  BY <1>7
  <2>4. \A k \in Fresher(z) :
          \/ k \in z.client.done \/ k = z.thinking \/ k = z.text
          \/ \E i \in 1 .. Len(z.calls) : CallItem(z, i) = k
    <3> TAKE k \in Fresher(z)
    <3>1. CASE k = N + 1  BY <3>1, <1>5
    <3>2. CASE k \in Fresher(s)
      <4>1. k # 0 /\ k # N + 1  BY <3>2, <1>0, <1>7
      <4>2. \/ k \in s.client.done \/ k = s.thinking \/ k = s.text
            \/ \E i \in 1 .. Len(s.calls) : CallItem(s, i) = k
        BY <2>1, <3>2 DEF ClosedOf
      <4>3. QED  BY <4>1, <4>2, <2>2, <1>4, <1>5
    <3>3. QED  BY <3>1, <3>2, <1>7
  <2>5. QED  BY <2>4 DEF ClosedOf
<1>15. QED
  BY <1>8, <1>9, <1>10, <1>11, <1>12, <1>13, <1>14 DEF Sound

LEMMA BeginThinkSound ==
  ASSUME NEW s, Sound(s, 0), s.created = TRUE
  PROVE  LET z == BeginThink(s)
         IN Continues(s, z) /\ z.thinking # 0
<1>1. Made(s) /\ Len(s.items) \in Nat  BY DEF Sound, ShapeOf
<1>2. CASE s.thinking # 0
  BY <1>2 DEF BeginThink, Continues
<1>3. CASE s.thinking = 0
  <2> DEFINE b == Started(s, "reasoning")
             z == [b EXCEPT !.thinking = Len(s.items) + 1]
  <2>1. /\ Made(b)
        /\ b.items = Append(s.items, [kind |-> "reasoning", status |-> "in_progress"])
        /\ b.created = s.created /\ b.first = s.first
        /\ b.thinking = s.thinking /\ b.text = s.text /\ b.calls = s.calls
        /\ b.reason = s.reason /\ b.client = See(s.client, "added", Len(s.items) + 1)
    BY <1>1, PlacedFields, EmitFields DEF Started
  <2>2. BeginThink(s) = z
    BY <1>3 DEF BeginThink
  <2> HIDE DEF b
  <2>3. Begun(s, z, "reasoning")
    <3> DEFINE v == Len(s.items) + 1
    <3> HIDE DEF v
    <3>1. LET y == [b EXCEPT !.thinking = v]
          IN /\ Made(y) /\ y.thinking = v /\ y.text = b.text
             /\ y.items = b.items /\ y.created = b.created /\ y.first = b.first
             /\ y.calls = b.calls /\ y.reason = b.reason /\ y.client = b.client
      BY <2>1 DEF Made
    <3>2. z = [b EXCEPT !.thinking = v]  BY DEF v
    <3>3. QED  BY <1>3, <2>1, <3>1, <3>2 DEF Begun, v
  <2>4. z.thinking # 0 /\ z.calls = s.calls /\ z.reason = s.reason /\ z.created = TRUE
    BY <1>1, <2>3 DEF Begun
  <2> HIDE DEF z
  <2>5. QED
    BY <2>2, <2>3, <2>4, BegunSound DEF Continues
<1>4. QED  BY <1>2, <1>3

LEMMA BeginTextSound ==
  ASSUME NEW s, Sound(s, 0), s.created = TRUE
  PROVE  LET z == BeginText(s)
         IN Continues(s, z) /\ z.text # 0
<1>1. Made(s) /\ Len(s.items) \in Nat  BY DEF Sound, ShapeOf
<1>2. CASE s.text # 0
  BY <1>2 DEF BeginText, Continues
<1>3. CASE s.text = 0
  <2> DEFINE b == Started(s, "message")
             z == [b EXCEPT !.text = Len(s.items) + 1]
  <2>1. /\ Made(b)
        /\ b.items = Append(s.items, [kind |-> "message", status |-> "in_progress"])
        /\ b.created = s.created /\ b.first = s.first
        /\ b.thinking = s.thinking /\ b.text = s.text /\ b.calls = s.calls
        /\ b.reason = s.reason /\ b.client = See(s.client, "added", Len(s.items) + 1)
    BY <1>1, PlacedFields, EmitFields, SMTT(60) DEF Started
  <2>2. BeginText(s) = z
    BY <1>3 DEF BeginText
  <2> HIDE DEF b
  <2>3. Begun(s, z, "message")
    <3> DEFINE v == Len(s.items) + 1
    <3> HIDE DEF v
    <3>1. LET y == [b EXCEPT !.text = v]
          IN /\ Made(y) /\ y.text = v /\ y.thinking = b.thinking
             /\ y.items = b.items /\ y.created = b.created /\ y.first = b.first
             /\ y.calls = b.calls /\ y.reason = b.reason /\ y.client = b.client
      BY <2>1 DEF Made
    <3>2. z = [b EXCEPT !.text = v]  BY DEF v
    <3>3. QED  BY <1>3, <2>1, <3>1, <3>2 DEF Begun, v
  <2>4. z.text # 0 /\ z.calls = s.calls /\ z.reason = s.reason /\ z.created = TRUE
    BY <1>1, <2>3 DEF Begun
  <2> HIDE DEF z
  <2>5. QED
    BY <2>2, <2>3, <2>4, BegunSound DEF Continues
<1>4. QED  BY <1>2, <1>3

LEMMA ThinkSound ==
  ASSUME NEW s, Sound(s, 0), s.created = TRUE, NEW what
  PROVE  Continues(s, Think(s, what))
<1> DEFINE a == BeginThink(s)
           b == [a EXCEPT !.thought = @ \o what]
           z == Emit(b, "delta", a.thinking)
<1>1. CASE what = <<>>  BY <1>1 DEF Think, Continues
<1>2. CASE what # <<>>
  <2>1. Think(s, what) = z
    BY <1>2 DEF Think
  <2>2. Sound(a, 0) /\ a.created = TRUE /\ a.calls = s.calls /\ a.reason = s.reason
        /\ a.thinking # 0
    BY BeginThinkSound DEF Continues
  <2> HIDE DEF a
  <2>3. Made(a) /\ a.thinking \in a.client.added \ a.client.done
    BY <2>2 DEF Sound, ShapeOf, OpenOf, OpenAt
  <2>4. Alike(a, b)
    BY <2>3, TextFields
  <2> HIDE DEF b
  <2>5. Sound(b, 0) /\ b.created = TRUE /\ b.calls = a.calls /\ b.reason = a.reason
        /\ a.thinking \in b.client.added \ b.client.done
    BY <2>2, <2>3, <2>4, AlikeSound DEF Alike, SameItems
  <2>6. Sound(z, 0) /\ Alike(b, z)
    BY <2>5, DeltaSound
  <2> HIDE DEF z
  <2>7. QED
    BY <2>1, <2>2, <2>5, <2>6 DEF Alike, SameItems, Continues
<1>3. QED  BY <1>1, <1>2

LEMMA SaySound ==
  ASSUME NEW s, Sound(s, 0), s.created = TRUE, NEW what
  PROVE  Continues(s, Say(s, what))
<1> DEFINE a == BeginText(s)
           b == [a EXCEPT !.visible = @ \o what]
           z == Emit(b, "delta", a.text)
<1>1. CASE what = <<>>  BY <1>1 DEF Say, Continues
<1>2. CASE what # <<>>
  <2>1. Say(s, what) = z
    BY <1>2 DEF Say
  <2>2. Sound(a, 0) /\ a.created = TRUE /\ a.calls = s.calls /\ a.reason = s.reason
        /\ a.text # 0
    BY BeginTextSound DEF Continues
  <2> HIDE DEF a
  <2>3. Made(a) /\ a.text \in a.client.added \ a.client.done
    BY <2>2 DEF Sound, ShapeOf, OpenOf, OpenAt
  <2>4. Alike(a, b)
    BY <2>3, TextFields
  <2> HIDE DEF b
  <2>5. Sound(b, 0) /\ b.created = TRUE /\ b.calls = a.calls /\ b.reason = a.reason
        /\ a.text \in b.client.added \ b.client.done
    BY <2>2, <2>3, <2>4, AlikeSound DEF Alike, SameItems
  <2>6. Sound(z, 0) /\ Alike(b, z)
    BY <2>5, DeltaSound
  <2> HIDE DEF z
  <2>7. QED
    BY <2>1, <2>2, <2>5, <2>6 DEF Alike, SameItems, Continues
<1>3. QED  BY <1>1, <1>2

(* z is s with item k completed. *)
Completed(s, z, k) ==
    /\ Made(z)
    /\ z.items = [s.items EXCEPT ![k].status = "completed"]
    /\ z.first = s.first
    /\ z.client = See(s.client, "done", k)

CompletedBut(s, z, k) ==
    /\ z.items \in Seq(Entry) /\ Len(z.items) = Len(s.items) /\ z.first = s.first
    /\ \A j \in 1 .. Len(s.items) : z.items[j].kind = s.items[j].kind
    /\ Fresher(z) = Fresher(s) /\ Fresher(s) \subseteq 1 .. Len(s.items)
    /\ DoneOf(z)
    /\ z.client.created = TRUE /\ z.client.ended = "open" /\ z.client.stray = FALSE
    /\ z.client.added = s.client.added /\ z.client.done = s.client.done \cup {k}
    /\ z.client.odd = s.client.odd \cup (IF k \in s.client.added \ s.client.done THEN {} ELSE {k})

LEMMA CompletedLemma ==
  ASSUME NEW s, NEW z, NEW m, Sound(s, m), s.created = TRUE, NEW k \in 1 .. Len(s.items),
         Completed(s, z, k)
  PROVE  CompletedBut(s, z, k)
<1>1. /\ s.items \in Seq(Entry) /\ Len(s.items) \in Nat /\ s.first \in 0 .. Len(s.items)
      /\ DoneOf(s)
  BY DEF Sound, ShapeOf
<1>2. /\ z.items \in Seq(Entry) /\ Len(z.items) = Len(s.items) /\ z.first = s.first
      /\ \A j \in 1 .. Len(s.items) : z.items[j].kind = s.items[j].kind
      /\ \A j \in 1 .. Len(s.items) : j # k => z.items[j] = s.items[j]
      /\ z.items[k].status = "completed"
  <2> DEFINE e == [kind |-> s.items[k].kind, status |-> "completed"]
             v == [s.items EXCEPT ![k] = e]
  <2>1. s.items[k] \in Entry  BY <1>1
  <2>2. e \in Entry /\ e.kind = s.items[k].kind /\ e.status = "completed"
        /\ [s.items[k] EXCEPT !.status = "completed"] = e
    BY <2>1 DEF Entry
  <2>3. z.items = v /\ z.first = s.first
    BY <2>2 DEF Completed
  <2> HIDE DEF e
  <2>4. /\ v \in Seq(Entry) /\ Len(v) = Len(s.items) /\ v[k] = e
        /\ \A j \in 1 .. Len(s.items) : j # k => v[j] = s.items[j]
    BY <1>1, <2>2
  <2> HIDE DEF v
  <2>5. QED  BY <2>2, <2>3, <2>4
<1>3. /\ z.client.created = TRUE /\ z.client.ended = "open" /\ z.client.stray = FALSE
      /\ z.client.added = s.client.added /\ z.client.done = s.client.done \cup {k}
      /\ z.client.odd = s.client.odd \cup (IF k \in s.client.added \ s.client.done THEN {} ELSE {k})
  <2> DEFINE r == s.client
  <2>1. r.created = TRUE /\ r.ended = "open" /\ r.stray = FALSE
    BY DEF Sound, ToldOf
  <2> HIDE DEF r
  <2>2. LET w == See(r, "done", k)
        IN /\ w.created = TRUE /\ w.ended = "open" /\ w.stray = FALSE
           /\ w.added = r.added /\ w.done = r.done \cup {k}
           /\ w.odd = IF k \notin r.added \ r.done THEN r.odd \cup {k} ELSE r.odd
    BY <2>1 DEF See, Terminal, OutOfOrder
  <2>3. z.client = See(r, "done", k)  BY DEF Completed, r
  <2>4. QED  BY <2>2, <2>3 DEF r
<1>4. DoneOf(z)
  BY <1>1, <1>2, <1>3 DEF DoneOf
<1>5. Fresher(z) = Fresher(s) /\ Fresher(s) \subseteq 1 .. Len(s.items)
  BY <1>1, <1>2 DEF Fresher
<1>6. QED
  BY <1>2, <1>3, <1>4, <1>5 DEF CompletedBut

LEMMA EndThinkSound ==
  ASSUME NEW s, Sound(s, 0), s.created = TRUE
  PROVE  LET z == EndThink(s)
         IN Continues(s, z) /\ z.thinking = 0 /\ z.text = s.text
<1>1. CASE s.thinking = 0
  BY <1>1 DEF EndThink, Continues
<1>2. CASE s.thinking # 0
  <2> DEFINE b == [s EXCEPT !.items[s.thinking].status = "completed"]
             a == Emit(b, "done", s.thinking)
             z == [a EXCEPT !.thinking = 0]
             k == s.thinking
  <2>0. EndThink(s) = z
    BY <1>2 DEF EndThink
  <2>1. Made(s) /\ s.items \in Seq(Entry) /\ k \in 1 .. Len(s.items)
        /\ k \in s.client.added \ s.client.done
        /\ k \in Fresher(s) /\ s.items[k].kind = "reasoning"
    BY <1>2 DEF Sound, ShapeOf, OpenOf, OpenAt, Fresher
  <2>2. LET v == [s.items EXCEPT ![k].status = "completed"]
        IN b = [s EXCEPT !.items = v]
    BY <2>1 DEF Made
  <2>3. /\ Made(b) /\ b.items = [s.items EXCEPT ![k].status = "completed"]
        /\ b.created = s.created /\ b.first = s.first
        /\ b.thinking = s.thinking /\ b.text = s.text /\ b.calls = s.calls
        /\ b.reason = s.reason /\ b.client = s.client
    <3> DEFINE v == [s.items EXCEPT ![k].status = "completed"]
    <3>1. b = [s EXCEPT !.items = v]  BY <2>2
    <3> HIDE DEF v, b
    <3>2. LET y == [s EXCEPT !.items = v]
          IN /\ Made(y) /\ y.items = v
             /\ y.created = s.created /\ y.first = s.first
             /\ y.thinking = s.thinking /\ y.text = s.text /\ y.calls = s.calls
             /\ y.reason = s.reason /\ y.client = s.client
      BY <2>1 DEF Made
    <3>3. QED  BY <3>1, <3>2 DEF v
  <2> HIDE DEF b
  <2>4. /\ Made(a) /\ a.items = b.items
        /\ a.created = b.created /\ a.first = b.first
        /\ a.thinking = b.thinking /\ a.text = b.text /\ a.calls = b.calls
        /\ a.reason = b.reason /\ a.client = See(b.client, "done", k)
    BY <2>3, EmitFields
  <2> HIDE DEF a
  <2>5. LET y == [a EXCEPT !.thinking = 0]
        IN /\ Made(y) /\ y.thinking = 0 /\ y.text = a.text
           /\ y.items = a.items /\ y.created = a.created /\ y.first = a.first
           /\ y.calls = a.calls /\ y.reason = a.reason /\ y.client = a.client
    BY <2>4 DEF Made
  <2>6. /\ Completed(s, z, k)
        /\ z.thinking = 0 /\ z.text = s.text /\ z.calls = s.calls
        /\ z.created = TRUE /\ z.reason = s.reason
    BY <2>3, <2>4, <2>5 DEF Completed
  <2> HIDE DEF z, k
  <2>7. CompletedBut(s, z, k)
    BY <2>1, <2>6, CompletedLemma
  <2>8. OpenOf(z)
    <3>1. OpenAt(s, s.text, "message")  BY DEF Sound, OpenOf
    <3>2. s.text # 0 => s.text # k  BY <3>1, <2>1 DEF OpenAt
    <3>3. OpenAt(z, s.text, "message")
      BY <3>1, <3>2, <2>7 DEF OpenAt, CompletedBut, Fresher
    <3>4. OpenAt(z, 0, "reasoning")  BY DEF OpenAt
    <3>5. QED  BY <3>3, <3>4, <2>6 DEF OpenOf
  <2>9. CallsOf(z, 0)
    <3>1. CallsOf(s, 0)  BY DEF Sound
    <3>2. \A i : CallItem(z, i) = CallItem(s, i)  BY <2>6 DEF CallItem
    <3>3. ASSUME NEW i \in 1 .. Len(z.calls)
          PROVE  /\ CallItem(z, i) \in Fresher(z) /\ z.items[CallItem(z, i)].kind = "call"
                 /\ CallItem(z, i) \in z.client.added <=> z.calls[i].tool # "none"
                 /\ CallItem(z, i) \in z.client.done <=> i <= 0
      <4>1. /\ CallItem(s, i) \in Fresher(s) /\ s.items[CallItem(s, i)].kind = "call"
            /\ CallItem(s, i) \in s.client.added <=> s.calls[i].tool # "none"
            /\ CallItem(s, i) \in s.client.done <=> i <= 0
        BY <3>1, <2>6 DEF CallsOf
      <4>2. CallItem(s, i) # k  BY <4>1, <2>1
      <4>3. QED  BY <4>1, <4>2, <3>2, <2>6, <2>7 DEF CompletedBut
    <3>4. \A i, j \in 1 .. Len(z.calls) : CallItem(z, j) = CallItem(z, i) => j = i
      BY <3>1, <3>2, <2>6 DEF CallsOf
    <3>5. QED
      BY <3>3, <3>4 DEF CallsOf
  <2>10. OddOf(z)
    <3>1. OddOf(s)  BY DEF Sound
    <3>2. z.calls = s.calls /\ z.client.odd = s.client.odd  BY <2>1, <2>6, <2>7 DEF CompletedBut
    <3>3. QED  BY <3>1, <3>2 DEF OddOf, CallItem
  <2>11. ClosedOf(z)
    <3>1. ClosedOf(s)  BY DEF Sound
    <3>2. \A i : CallItem(z, i) = CallItem(s, i)  BY <2>6 DEF CallItem
    <3>3. ASSUME NEW j \in Fresher(s)
          PROVE  \/ j \in z.client.done \/ j = z.thinking \/ j = z.text
                 \/ \E i \in 1 .. Len(z.calls) : CallItem(z, i) = j
      <4>1. \/ j \in s.client.done \/ j = s.thinking \/ j = s.text
            \/ \E i \in 1 .. Len(s.calls) : CallItem(s, i) = j
        BY <3>1 DEF ClosedOf
      <4>2. QED  BY <4>1, <3>2, <2>6, <2>7 DEF CompletedBut, k
    <3>4. QED  BY <3>3, <2>7 DEF ClosedOf, CompletedBut
  <2>12. ShapeOf(z)
    <3>1. s.first \in 0 .. Len(s.items) /\ s.thinking \in Nat /\ s.text \in Nat
          /\ s.calls \in Seq(Buffer)
      BY DEF Sound, ShapeOf
    <3>2. Made(z)  BY <2>6 DEF Completed
    <3>3. /\ z.items \in Seq(Entry) /\ z.first \in 0 .. Len(z.items)
          /\ z.created \in BOOLEAN /\ z.calls \in Seq(Buffer)
      BY <3>1, <2>6, <2>7 DEF CompletedBut
    <3>4. z.thinking \in Nat /\ z.text \in Nat
      BY <3>1, <2>6
    <3>5. QED  BY <3>2, <3>3, <3>4 DEF ShapeOf
  <2>13. ToldOf(z)
    <3>1. s.client.added \cup s.client.done \subseteq 1 .. Len(s.items)
      BY DEF Sound, ToldOf
    <3>2. QED  BY <3>1, <2>1, <2>6, <2>7 DEF ToldOf, CompletedBut
  <2>14. QED
    BY <2>0, <2>6, <2>7, <2>8, <2>9, <2>10, <2>11, <2>12, <2>13
       DEF Sound, Continues, CompletedBut, z
<1>3. QED
  <2>1. s.thinking = 0 \/ s.thinking # 0  OBVIOUS
  <2>2. QED  BY <1>1, <1>2, <2>1

LEMMA EndTextSound ==
  ASSUME NEW s, Sound(s, 0), s.created = TRUE
  PROVE  LET z == EndText(s)
         IN Continues(s, z) /\ z.text = 0 /\ z.thinking = s.thinking
<1>1. CASE s.text = 0
  BY <1>1 DEF EndText, Continues
<1>2. CASE s.text # 0
  <2> DEFINE b == [s EXCEPT !.items[s.text].status = "completed"]
             a == Emit(b, "done", s.text)
             z == [a EXCEPT !.text = 0]
             k == s.text
  <2>0. EndText(s) = z
    BY <1>2 DEF EndText
  <2>1. Made(s) /\ s.items \in Seq(Entry) /\ k \in 1 .. Len(s.items)
        /\ k \in s.client.added \ s.client.done
        /\ k \in Fresher(s) /\ s.items[k].kind = "message"
    BY <1>2 DEF Sound, ShapeOf, OpenOf, OpenAt, Fresher
  <2>2. LET v == [s.items EXCEPT ![k].status = "completed"]
        IN b = [s EXCEPT !.items = v]
    BY <2>1 DEF Made
  <2>3. /\ Made(b) /\ b.items = [s.items EXCEPT ![k].status = "completed"]
        /\ b.created = s.created /\ b.first = s.first
        /\ b.thinking = s.thinking /\ b.text = s.text /\ b.calls = s.calls
        /\ b.reason = s.reason /\ b.client = s.client
    <3> DEFINE v == [s.items EXCEPT ![k].status = "completed"]
    <3>1. b = [s EXCEPT !.items = v]  BY <2>2
    <3> HIDE DEF v, b
    <3>2. LET y == [s EXCEPT !.items = v]
          IN /\ Made(y) /\ y.items = v
             /\ y.created = s.created /\ y.first = s.first
             /\ y.thinking = s.thinking /\ y.text = s.text /\ y.calls = s.calls
             /\ y.reason = s.reason /\ y.client = s.client
      BY <2>1 DEF Made
    <3>3. QED  BY <3>1, <3>2 DEF v
  <2> HIDE DEF b
  <2>4. /\ Made(a) /\ a.items = b.items
        /\ a.created = b.created /\ a.first = b.first
        /\ a.thinking = b.thinking /\ a.text = b.text /\ a.calls = b.calls
        /\ a.reason = b.reason /\ a.client = See(b.client, "done", k)
    BY <2>3, EmitFields
  <2> HIDE DEF a
  <2>5. LET y == [a EXCEPT !.text = 0]
        IN /\ Made(y) /\ y.text = 0 /\ y.thinking = a.thinking
           /\ y.items = a.items /\ y.created = a.created /\ y.first = a.first
           /\ y.calls = a.calls /\ y.reason = a.reason /\ y.client = a.client
    BY <2>4 DEF Made
  <2>6. /\ Completed(s, z, k)
        /\ z.text = 0 /\ z.thinking = s.thinking /\ z.calls = s.calls
        /\ z.created = TRUE /\ z.reason = s.reason
    BY <2>3, <2>4, <2>5 DEF Completed
  <2> HIDE DEF z, k
  <2>7. CompletedBut(s, z, k)
    BY <2>1, <2>6, CompletedLemma
  <2>8. OpenOf(z)
    <3>1. OpenAt(s, s.thinking, "reasoning")  BY DEF Sound, OpenOf
    <3>2. s.thinking # 0 => s.thinking # k  BY <3>1, <2>1 DEF OpenAt
    <3>3. OpenAt(z, s.thinking, "reasoning")
      BY <3>1, <3>2, <2>7 DEF OpenAt, CompletedBut, Fresher
    <3>4. OpenAt(z, 0, "message")  BY DEF OpenAt
    <3>5. QED  BY <3>3, <3>4, <2>6 DEF OpenOf
  <2>9. CallsOf(z, 0)
    <3>1. CallsOf(s, 0)  BY DEF Sound
    <3>2. \A i : CallItem(z, i) = CallItem(s, i)  BY <2>6 DEF CallItem
    <3>3. ASSUME NEW i \in 1 .. Len(z.calls)
          PROVE  /\ CallItem(z, i) \in Fresher(z) /\ z.items[CallItem(z, i)].kind = "call"
                 /\ CallItem(z, i) \in z.client.added <=> z.calls[i].tool # "none"
                 /\ CallItem(z, i) \in z.client.done <=> i <= 0
      <4>1. /\ CallItem(s, i) \in Fresher(s) /\ s.items[CallItem(s, i)].kind = "call"
            /\ CallItem(s, i) \in s.client.added <=> s.calls[i].tool # "none"
            /\ CallItem(s, i) \in s.client.done <=> i <= 0
        BY <3>1, <2>6 DEF CallsOf
      <4>2. CallItem(s, i) # k  BY <4>1, <2>1
      <4>3. QED  BY <4>1, <4>2, <3>2, <2>6, <2>7 DEF CompletedBut
    <3>4. \A i, j \in 1 .. Len(z.calls) : CallItem(z, j) = CallItem(z, i) => j = i
      BY <3>1, <3>2, <2>6 DEF CallsOf
    <3>5. QED
      BY <3>3, <3>4 DEF CallsOf
  <2>10. OddOf(z)
    <3>1. OddOf(s)  BY DEF Sound
    <3>2. z.calls = s.calls /\ z.client.odd = s.client.odd  BY <2>1, <2>6, <2>7 DEF CompletedBut
    <3>3. QED  BY <3>1, <3>2 DEF OddOf, CallItem
  <2>11. ClosedOf(z)
    <3>1. ClosedOf(s)  BY DEF Sound
    <3>2. \A i : CallItem(z, i) = CallItem(s, i)  BY <2>6 DEF CallItem
    <3>3. ASSUME NEW j \in Fresher(s)
          PROVE  \/ j \in z.client.done \/ j = z.text \/ j = z.thinking
                 \/ \E i \in 1 .. Len(z.calls) : CallItem(z, i) = j
      <4>1. \/ j \in s.client.done \/ j = s.text \/ j = s.thinking
            \/ \E i \in 1 .. Len(s.calls) : CallItem(s, i) = j
        BY <3>1 DEF ClosedOf
      <4>2. QED  BY <4>1, <3>2, <2>6, <2>7 DEF CompletedBut, k
    <3>4. QED  BY <3>3, <2>7 DEF ClosedOf, CompletedBut
  <2>12. ShapeOf(z)
    <3>1. s.first \in 0 .. Len(s.items) /\ s.thinking \in Nat /\ s.text \in Nat
          /\ s.calls \in Seq(Buffer)
      BY DEF Sound, ShapeOf
    <3>2. Made(z)  BY <2>6 DEF Completed
    <3>3. /\ z.items \in Seq(Entry) /\ z.first \in 0 .. Len(z.items)
          /\ z.created \in BOOLEAN /\ z.calls \in Seq(Buffer)
      BY <3>1, <2>6, <2>7 DEF CompletedBut
    <3>4. z.thinking \in Nat /\ z.text \in Nat
      BY <3>1, <2>6
    <3>5. QED  BY <3>2, <3>3, <3>4 DEF ShapeOf
  <2>13. ToldOf(z)
    <3>1. s.client.added \cup s.client.done \subseteq 1 .. Len(s.items)
      BY DEF Sound, ToldOf
    <3>2. QED  BY <3>1, <2>1, <2>6, <2>7 DEF ToldOf, CompletedBut
  <2>14. QED
    BY <2>0, <2>6, <2>7, <2>8, <2>9, <2>10, <2>11, <2>12, <2>13
       DEF Sound, Continues, CompletedBut, z
<1>3. QED
  <2>1. s.text = 0 \/ s.text # 0  OBVIOUS
  <2>2. QED  BY <1>1, <1>2, <2>1

LEMMA AlikeContinues ==
  ASSUME NEW s, Sound(s, 0), s.created = TRUE, NEW z, Alike(s, z)
  PROVE  Continues(s, z)
<1>1. Sound(z, 0)  BY AlikeSound
<1>2. QED  BY <1>1 DEF Continues, Alike, SameItems

LEMMA ScanSound ==
  ASSUME NEW s, Sound(s, 0), s.created = TRUE, NEW rest
  PROVE  Continues(s, Scan(s, rest).s)
<1> DEFINE buffer == s.held \o rest
           n == Len(buffer) - Keep(buffer)
           hold == [s EXCEPT !.held = SubSeq(buffer, n + 1, Len(buffer))]
           kept == [s EXCEPT !.held = buffer]
           to(mode) == [s EXCEPT !.held = <<>>, !.mode = mode]
<1>0. Made(s)  BY DEF Sound, ShapeOf
<1>1. /\ Continues(s, s) /\ Continues(s, hold) /\ Continues(s, kept)
      /\ \A mode : Continues(s, to(mode))
  <2>1. Continues(s, s)  BY DEF Continues
  <2>2. \A v, mode : /\ Alike(s, [s EXCEPT !.held = v])
                     /\ Alike(s, [s EXCEPT !.held = v, !.mode = mode])
    BY <1>0, TextFields
  <2>3. QED  BY <2>1, <2>2, AlikeContinues
<1>2. \/ Scan(s, rest).s = s
      \/ Scan(s, rest).s = EndThink(Think(to("text"), Before(buffer, Close)))
      \/ Scan(s, rest).s = Think(hold, SubSeq(buffer, 1, n))
      \/ Scan(s, rest).s = kept
      \/ Scan(s, rest).s = Say(to("reasoning"), Before(buffer, Open))
      \/ Scan(s, rest).s = Say(to("text"), buffer)
  BY DEF Scan
<1> HIDE DEF to, hold, kept, n, buffer
<1>3. \A a, w : Continues(s, a) => /\ Continues(s, Think(a, w)) /\ Continues(s, Say(a, w))
                                   /\ Continues(s, EndThink(a))
  <2> SUFFICES ASSUME NEW a, NEW w, Continues(s, a)
               PROVE  /\ Continues(s, Think(a, w)) /\ Continues(s, Say(a, w))
                      /\ Continues(s, EndThink(a))
    OBVIOUS
  <2>1. Sound(a, 0) /\ a.created = TRUE  BY DEF Continues
  <2>2. Continues(a, Think(a, w)) /\ Continues(a, Say(a, w)) /\ Continues(a, EndThink(a))
    BY <2>1, ThinkSound, SaySound, EndThinkSound
  <2>3. QED  BY <2>2 DEF Continues
<1>4. QED
  BY <1>1, <1>2, <1>3

(* The turns of the loop, one after the other.                               *)
LEMMA ContentTurns ==
  ASSUME NEW s, NEW piece, Len(piece) \in Nat
  PROVE  \E turn : /\ Content(s, piece) = turn[Len(piece) + 1].s
                   /\ turn[0].s = s /\ turn[0].rest = piece
                   /\ \A n \in 1 .. Len(piece) + 1 :
                         turn[n] = Scan(turn[n - 1].s, turn[n - 1].rest)
<1> DEFINE N == Len(piece) + 1
           x == [s |-> s, rest |-> piece]
           Runs(g, m) == g = [n \in 0 .. m |->
               IF n = 0 THEN x ELSE Scan(g[n - 1].s, g[n - 1].rest)]
           turn == CHOOSE g : Runs(g, N)
           T == {m \in Nat : \E g : Runs(g, m)}
<1>1. Content(s, piece) = turn[N].s
  BY DEF Content
<1>2. T = Nat
  <2>1. 0 \in T
    <3> DEFINE g == [n \in 0 .. 0 |-> x]
    <3>1. Runs(g, 0)  OBVIOUS
    <3>2. QED  BY <3>1
  <2>2. ASSUME NEW m \in T PROVE m + 1 \in T
    <3>1. m \in Nat  OBVIOUS
    <3>2. PICK g : Runs(g, m)  OBVIOUS
    <3> DEFINE y == Scan(g[m].s, g[m].rest)
               h == [n \in 0 .. (m + 1) |-> IF n = m + 1 THEN y ELSE g[n]]
    <3>3. Runs(h, m + 1)
      <4> HIDE DEF y, x
      <4>1. \A n \in 0 .. m : h[n] = g[n]  BY <3>1
      <4>2. h[m + 1] = y  BY <3>1
      <4>3. \A n \in 0 .. (m + 1) :
              h[n] = IF n = 0 THEN x ELSE Scan(h[n - 1].s, h[n - 1].rest)
        <5> TAKE n \in 0 .. (m + 1)
        <5>1. CASE n = m + 1
          <6>1. n - 1 = m /\ n # 0 /\ m \in 0 .. m  BY <5>1, <3>1
          <6>2. h[n - 1] = g[m]  BY <6>1, <4>1
          <6>3. QED  BY <5>1, <6>1, <6>2, <4>2 DEF y
        <5>2. CASE n \in 0 .. m
          <6>1. n = 0 \/ n - 1 \in 0 .. m  BY <5>2, <3>1
          <6>2. g[n] = IF n = 0 THEN x ELSE Scan(g[n - 1].s, g[n - 1].rest)
            BY <3>2, <5>2
          <6>3. QED  BY <5>2, <6>1, <6>2, <4>1
        <5>3. QED  BY <5>1, <5>2, <3>1
      <4>4. h = [n \in 0 .. (m + 1) |-> h[n]]  OBVIOUS
      <4> HIDE DEF h
      <4>5. QED  BY <4>3, <4>4
    <3>4. m + 1 \in Nat  BY <3>1
    <3>5. QED  BY <3>3, <3>4
  <2> HIDE DEF T
  <2>3. T \in SUBSET Nat  BY DEF T
  <2>4. QED  BY <2>1, <2>2, <2>3, NaturalsReached
<1>3. N \in Nat  OBVIOUS
<1>4. Runs(turn, N)
  <2>1. \E g : Runs(g, N)  BY <1>2, <1>3
  <2> HIDE DEF Runs
  <2>2. QED  BY <2>1
<1>5. /\ turn[0].s = s /\ turn[0].rest = piece
      /\ \A n \in 1 .. N : turn[n] = Scan(turn[n - 1].s, turn[n - 1].rest)
  <2> HIDE DEF turn
  <2>1. turn[0] = x  BY <1>3, <1>4
  <2>2. \A n \in 1 .. N : turn[n] = Scan(turn[n - 1].s, turn[n - 1].rest)
    BY <1>3, <1>4
  <2>3. QED  BY <2>1, <2>2
<1> HIDE DEF turn
<1>6. QED  BY <1>1, <1>5

LEMMA ContentSound ==
  ASSUME NEW s, Sound(s, 0), s.created = TRUE, NEW piece \in Seq(STRING)
  PROVE  Continues(s, Content(s, piece))
<1>1. PICK N \in Nat : N = Len(piece) + 1
  <2>1. Len(piece) \in Nat  OBVIOUS
  <2>2. QED  BY <2>1
<1>2. PICK turn : /\ Content(s, piece) = turn[N].s /\ turn[0].s = s
                  /\ \A n \in 1 .. N : turn[n] = Scan(turn[n - 1].s, turn[n - 1].rest)
  <2>1. Len(piece) \in Nat  OBVIOUS
  <2>2. QED  BY ONLY <1>1, <2>1, ContentTurns
<1> DEFINE U == {m \in Nat : m <= N => Continues(s, turn[m].s)}
<1>3. U = Nat
  <2>1. 0 \in U  BY <1>2 DEF Continues
  <2>2. ASSUME NEW m \in U PROVE m + 1 \in U
    <3>1. m \in Nat /\ m + 1 \in Nat  OBVIOUS
    <3>2. SUFFICES ASSUME m + 1 <= N PROVE Continues(s, turn[m + 1].s)
      BY <3>1
    <3>3. m <= N /\ m + 1 \in 1 .. N /\ m + 1 - 1 = m  BY <1>1, <3>1, <3>2
    <3>4. Continues(s, turn[m].s)  BY <3>3
    <3>5. turn[m + 1] = Scan(turn[m].s, turn[m].rest)  BY <1>2, <3>3
    <3>6. Sound(turn[m].s, 0) /\ turn[m].s.created = TRUE  BY <3>4 DEF Continues
    <3>7. Continues(turn[m].s, turn[m + 1].s)  BY <3>5, <3>6, ScanSound
    <3>8. QED  BY <3>4, <3>7 DEF Continues
  <2> HIDE DEF U
  <2>3. U \in SUBSET Nat  BY DEF U
  <2>4. QED  BY <2>1, <2>2, <2>3, NaturalsReached
<1>4. QED  BY <1>1, <1>2, <1>3

LEMMA FlushSound ==
  ASSUME NEW s, Sound(s, 0), s.created = TRUE
  PROVE  Continues(s, Flush(s))
<1> DEFINE w == IF s.mode = "reasoning" /\ s.held = <<>> THEN s.mode ELSE "text"
           b == [s EXCEPT !.held = <<>>, !.mode = w]
<1>1. Flush(s) = IF s.mode = "reasoning" THEN Think(b, s.held) ELSE Say(b, s.held)
  <2>1. b = [s EXCEPT !.held = <<>>,
                      !.mode = IF @ = "reasoning" /\ s.held = <<>> THEN @ ELSE "text"]
    OBVIOUS
  <2>2. QED  BY <2>1 DEF Flush
<1>2. Made(s)  BY DEF Sound, ShapeOf
<1>3. Alike(s, b)
  <2> HIDE DEF w
  <2>1. QED  BY <1>2, TextFields
<1> HIDE DEF b
<1>4. Sound(b, 0) /\ b.created = TRUE /\ b.calls = s.calls /\ b.reason = s.reason
  BY <1>3, AlikeContinues DEF Continues
<1>5. Continues(b, Think(b, s.held)) /\ Continues(b, Say(b, s.held))
  BY <1>4, ThinkSound, SaySound
<1>6. QED
  BY <1>1, <1>4, <1>5 DEF Continues

LEMMA AppendFacts ==
  ASSUME NEW S, NEW q \in Seq(S), NEW e \in S
  PROVE  /\ Append(q, e) \in Seq(S) /\ Len(Append(q, e)) = Len(q) + 1
         /\ Append(q, e)[Len(q) + 1] = e
         /\ \A k \in 1 .. Len(q) : Append(q, e)[k] = q[k]
OBVIOUS

(* Calls are added and changed, never lost, nor is it forgotten that they    *)
(* were late.                                                                *)
Grows(s, z) ==
    /\ Len(s.calls) <= Len(z.calls)
    /\ \A j \in 1 .. Len(s.calls) :
          /\ CallItem(z, j) = CallItem(s, j)
          /\ s.calls[j].late = TRUE => z.calls[j].late = TRUE

(* A chunk of a call leaves it there to be named and filled.                 *)
Calls(s, z, i) ==
    /\ Grows(s, z)
    /\ Sound(z, 0) /\ z.created = TRUE /\ z.reason = s.reason
    /\ i \in 1 .. Len(z.calls)

LEMMA CalledSound ==
  ASSUME NEW s, Sound(s, 0), s.created = TRUE, NEW i \in 1 .. (Len(s.calls) + 1)
  PROVE  Calls(s, Called(s, i), i)
<1> DEFINE N == Len(s.items)
           e == [kind |-> "call", status |-> "in_progress"]
           M == Len(s.calls)
           c == [item |-> N + 1, tool |-> "none", args |-> "none", late |-> FALSE]
           b == Placed(s, "call")
           z == [b EXCEPT !.calls = Append(@, c)]
<1>1. /\ s.items \in Seq(Entry) /\ N \in Nat /\ s.first \in 0 .. N /\ Made(s)
      /\ s.thinking \in Nat /\ s.text \in Nat /\ s.calls \in Seq(Buffer) /\ M \in Nat
  BY DEF Sound, ShapeOf
<1>2. CASE i <= M
  BY <1>1, <1>2 DEF Called, Calls, Grows
<1>3. CASE ~(i <= M)
  <2>0. i = M + 1 /\ Called(s, i) = z
    BY <1>1, <1>3 DEF Called
  <2>1. e \in Entry /\ e.kind = "call" /\ e.status = "in_progress"
        /\ c \in Buffer /\ c.item = N + 1 /\ c.tool = "none" /\ c.late = FALSE
    <3>1. e \in Entry /\ e.kind = "call" /\ e.status = "in_progress"
      BY DEF Entry
    <3>2. N + 1 \in Nat  BY <1>1
    <3> HIDE DEF N
    <3>3. c \in Buffer
      BY <3>2 DEF Buffer, Tools
    <3>4. c.item = N + 1 /\ c.tool = "none" /\ c.late = FALSE
      OBVIOUS
    <3>5. QED  BY <3>1, <3>3, <3>4
  <2>2. /\ Made(b) /\ b.items = Append(s.items, e)
        /\ b.created = s.created /\ b.first = s.first
        /\ b.thinking = s.thinking /\ b.text = s.text /\ b.calls = s.calls
        /\ b.reason = s.reason /\ b.client = s.client
    BY <1>1, PlacedFields
  <2> HIDE DEF b, c, e
  <2>3. /\ Made(z) /\ z.calls = Append(s.calls, c)
        /\ z.created = s.created /\ z.first = s.first
        /\ z.thinking = s.thinking /\ z.text = s.text /\ z.items = Append(s.items, e)
        /\ z.reason = s.reason /\ z.client = s.client
    <3> DEFINE v == Append(s.calls, c)
    <3>1. z = [b EXCEPT !.calls = v]  BY <2>2
    <3> HIDE DEF v, z
    <3>2. LET y == [b EXCEPT !.calls = v]
          IN /\ Made(y) /\ y.calls = v
             /\ y.created = b.created /\ y.first = b.first
             /\ y.thinking = b.thinking /\ y.text = b.text /\ y.items = b.items
             /\ y.reason = b.reason /\ y.client = b.client
      BY <2>2 DEF Made
    <3>3. QED  BY <2>2, <3>1, <3>2 DEF v
  <2> HIDE DEF z
  <2>4. /\ z.items \in Seq(Entry) /\ Len(z.items) = N + 1 /\ z.items[N + 1] = e
        /\ \A k \in 1 .. N : z.items[k] = s.items[k]
    <3> DEFINE v == Append(s.items, e)
    <3>1. /\ v \in Seq(Entry) /\ Len(v) = Len(s.items) + 1 /\ v[Len(s.items) + 1] = e
          /\ \A k \in 1 .. Len(s.items) : v[k] = s.items[k]
      <4>1. s.items \in Seq(Entry) /\ e \in Entry  BY <1>1, <2>1
      <4>2. QED  BY ONLY <4>1, AppendFacts
    <3> HIDE DEF v
    <3>2. z.items = v  BY <2>3 DEF v
    <3>3. QED  BY <3>1, <3>2
  <2>5. /\ z.calls \in Seq(Buffer) /\ Len(z.calls) = M + 1 /\ z.calls[M + 1] = c
        /\ \A j \in 1 .. M : z.calls[j] = s.calls[j]
    <3> DEFINE v == Append(s.calls, c)
    <3>1. /\ v \in Seq(Buffer) /\ Len(v) = Len(s.calls) + 1 /\ v[Len(s.calls) + 1] = c
          /\ \A k \in 1 .. Len(s.calls) : v[k] = s.calls[k]
      <4>1. s.calls \in Seq(Buffer) /\ c \in Buffer  BY <1>1, <2>1
      <4>2. QED  BY ONLY <4>1, AppendFacts
    <3> HIDE DEF v
    <3>2. z.calls = v  BY <2>3 DEF v
    <3>3. QED  BY <3>1, <3>2
  <2>6. N + 1 \notin s.client.added /\ N + 1 \notin s.client.done
        /\ s.client.added \subseteq 1 .. N /\ s.client.done \subseteq 1 .. N
    <3>1. s.client.added \cup s.client.done \subseteq 1 .. N  BY DEF Sound, ToldOf
    <3>2. N + 1 \notin 1 .. N  BY <1>1
    <3>3. QED  BY <3>1, <3>2
  <2> HIDE DEF N, M
  <2>7. /\ N + 1 \in Nat /\ 1 .. (N + 1) = (1 .. N) \cup {N + 1} /\ N + 1 \notin 1 .. N
        /\ 0 .. N \subseteq 0 .. (N + 1)
        /\ 1 .. (M + 1) = (1 .. M) \cup {M + 1} /\ M + 1 \notin 1 .. M
        /\ \A j \in 1 .. (M + 1) : ~(j <= 0)
    BY <1>1, SMTT(60)
  <2>8. Fresher(z) = Fresher(s) \cup {N + 1} /\ Fresher(s) \subseteq 1 .. N
    BY <1>1, <2>3, <2>4 DEF Fresher, N
  <2>9. /\ CallItem(z, M + 1) = N + 1
        /\ \A j \in 1 .. M : CallItem(z, j) = CallItem(s, j)
    BY <2>1, <2>5 DEF CallItem
  <2>10. ShapeOf(z)
    <3>1. z.first \in 0 .. Len(z.items) /\ z.created \in BOOLEAN
      BY <1>1, <2>3, <2>4, <2>7
    <3>2. QED  BY <1>1, <2>3, <2>4, <2>5, <3>1 DEF ShapeOf
  <2>11. ToldOf(z)
    BY <2>3, <2>4, <2>6, <2>7 DEF Sound, ToldOf
  <2>12. DoneOf(z)
    <3>1. \A k \in 1 .. N : k \in z.client.done <=> z.items[k].status = "completed"
      BY <2>3, <2>4 DEF Sound, DoneOf, N
    <3>2. N + 1 \notin z.client.done /\ z.items[N + 1].status # "completed"
      BY <2>1, <2>3, <2>4, <2>6
    <3>3. QED  BY <3>1, <3>2, <2>4, <2>7 DEF DoneOf
  <2>13. OpenOf(z)
    <3>1. OpenAt(s, s.thinking, "reasoning") /\ OpenAt(s, s.text, "message")
      BY DEF Sound, OpenOf
    <3>2. \A k : OpenAt(s, k, "reasoning") => OpenAt(z, k, "reasoning")
      BY <2>3, <2>4, <2>8 DEF OpenAt
    <3>3. \A k : OpenAt(s, k, "message") => OpenAt(z, k, "message")
      BY <2>3, <2>4, <2>8 DEF OpenAt
    <3>4. QED  BY <3>1, <3>2, <3>3, <2>3 DEF OpenOf
  <2>14. CallsOf(s, 0) /\ \A j \in 1 .. M : CallItem(s, j) \in 1 .. N /\ CallItem(s, j) # N + 1
    <3>1. CallsOf(s, 0)  BY DEF Sound
    <3>2. \A j \in 1 .. M : CallItem(s, j) \in 1 .. N  BY <3>1, <2>8 DEF CallsOf, M
    <3>3. QED  BY <3>1, <3>2, <2>7
  <2>15. CallsOf(z, 0)
    <3>1. ASSUME NEW j \in 1 .. M
          PROVE  /\ CallItem(z, j) \in Fresher(z) /\ z.items[CallItem(z, j)].kind = "call"
                 /\ CallItem(z, j) \in z.client.added <=> z.calls[j].tool # "none"
                 /\ CallItem(z, j) \in z.client.done <=> j <= 0
      <4>1. /\ CallItem(s, j) \in Fresher(s) /\ s.items[CallItem(s, j)].kind = "call"
            /\ CallItem(s, j) \in s.client.added <=> s.calls[j].tool # "none"
            /\ CallItem(s, j) \in s.client.done <=> j <= 0
        BY <2>14 DEF CallsOf, M
      <4>2. QED  BY <4>1, <2>3, <2>4, <2>5, <2>8, <2>9, <2>14, ZenonT(60)
    <3>2. /\ CallItem(z, M + 1) \in Fresher(z) /\ z.items[CallItem(z, M + 1)].kind = "call"
          /\ CallItem(z, M + 1) \in z.client.added <=> z.calls[M + 1].tool # "none"
          /\ CallItem(z, M + 1) \in z.client.done <=> M + 1 <= 0
      BY <2>1, <2>3, <2>4, <2>5, <2>6, <2>7, <2>8, <2>9
    <3>3. \A j, k \in 1 .. M : CallItem(s, k) = CallItem(s, j) => k = j
      BY <2>14 DEF CallsOf, M
    <3>4. \A j, k \in 1 .. (M + 1) : CallItem(z, k) = CallItem(z, j) => k = j
      BY <3>3, <2>7, <2>9, <2>14
    <3>5. QED  BY <3>1, <3>2, <3>4, <2>5, <2>7 DEF CallsOf
  <2>16. OddOf(z)
    <3>1. \A k \in z.client.odd : \E j \in 1 .. M : CallItem(s, j) = k /\ s.calls[j].late
      BY <2>3 DEF Sound, OddOf, M
    <3>2. \A k \in z.client.odd : \E j \in 1 .. M : CallItem(z, j) = k /\ z.calls[j].late
      BY <3>1, <2>5, <2>9
    <3>3. QED  BY <3>2, <2>5, <2>7 DEF OddOf
  <2>17. ClosedOf(z)
    <3>1. ClosedOf(s)  BY DEF Sound
    <3>2. ASSUME NEW k \in Fresher(s)
          PROVE  \/ k \in z.client.done \/ k = z.thinking \/ k = z.text
                 \/ \E j \in 1 .. Len(z.calls) : CallItem(z, j) = k
      <4>1. \/ k \in s.client.done \/ k = s.thinking \/ k = s.text
            \/ \E j \in 1 .. M : CallItem(s, j) = k
        BY <3>1 DEF ClosedOf, M
      <4>2. QED  BY <4>1, <2>3, <2>5, <2>7, <2>9
    <3>3. \E j \in 1 .. Len(z.calls) : CallItem(z, j) = N + 1
      BY <2>5, <2>7, <2>9
    <3>4. QED  BY <3>2, <3>3, <2>8 DEF ClosedOf
  <2>18. Sound(z, 0)
    BY <2>10, <2>11, <2>12, <2>13, <2>15, <2>16, <2>17 DEF Sound
  <2>19. Grows(s, z)
    BY <1>1, <2>5, <2>9, SMTT(60) DEF Grows, M
  <2>20. QED
    BY <2>0, <2>3, <2>5, <2>7, <2>18, <2>19 DEF Calls
<1>4. QED  BY <1>2, <1>3

(* z is s with call i changed, which keeps its item. *)
CallChanged(s, z, i) ==
    /\ Made(z) /\ z.first = s.first /\ z.thinking = s.thinking /\ z.text = s.text
    /\ z.created = s.created /\ z.reason = s.reason
    /\ i \in 1 .. Len(s.calls)
    /\ z.calls \in Seq(Buffer) /\ Len(z.calls) = Len(s.calls)
    /\ \A j \in 1 .. Len(s.calls) : CallItem(z, j) = CallItem(s, j)
    /\ \A j \in 1 .. Len(s.calls) : j # i => z.calls[j] = s.calls[j]
    /\ s.calls[i].late = TRUE => z.calls[i].late = TRUE

WithCall(s, i, c) == [s EXCEPT !.calls = [s.calls EXCEPT ![i] = c]]

LEMMA ChangeFacts ==
  ASSUME NEW S, NEW q \in Seq(S), NEW i \in 1 .. Len(q), NEW e \in S
  PROVE  LET v == [q EXCEPT ![i] = e]
         IN /\ v \in Seq(S) /\ Len(v) = Len(q) /\ v[i] = e
            /\ \A j \in 1 .. Len(q) : j # i => v[j] = q[j]
OBVIOUS

(* c may take the place of call i. *)
Replaces(s, i, c) ==
    /\ Made(s) /\ s.calls \in Seq(Buffer) /\ i \in 1 .. Len(s.calls)
    /\ c \in Buffer /\ c.item = CallItem(s, i)
    /\ s.calls[i].late = TRUE => c.late = TRUE

Replaced(s, z, i, c) ==
    /\ CallChanged(s, z, i) /\ z.calls[i] = c
    /\ z.items = s.items /\ z.client = s.client

LEMMA CallFields ==
  ASSUME NEW s, NEW i, NEW c, Replaces(s, i, c)
  PROVE  Replaced(s, WithCall(s, i, c), i, c)
<1> DEFINE v == [s.calls EXCEPT ![i] = c]
           z == [s EXCEPT !.calls = v]
<1>1. Made(s)  BY DEF Replaces
<1>7. s.calls \in Seq(Buffer) /\ i \in 1 .. Len(s.calls) /\ c \in Buffer
  BY DEF Replaces
<1>8. c.item = CallItem(s, i) /\ (s.calls[i].late = TRUE => c.late = TRUE)
  BY DEF Replaces
<1>2. /\ v \in Seq(Buffer) /\ Len(v) = Len(s.calls) /\ v[i] = c
      /\ \A j \in 1 .. Len(s.calls) : j # i => v[j] = s.calls[j]
  BY ONLY <1>7, ChangeFacts
<1> HIDE DEF v
<1>3. /\ Made(z) /\ z.calls = v
      /\ z.created = s.created /\ z.first = s.first
      /\ z.thinking = s.thinking /\ z.text = s.text /\ z.items = s.items
      /\ z.reason = s.reason /\ z.client = s.client
  BY <1>1 DEF Made
<1> HIDE DEF z
<1>4. \A j \in 1 .. Len(s.calls) : CallItem(z, j) = CallItem(s, j)
  BY <1>7, <1>8, <1>2, <1>3 DEF CallItem
<1>5. CallChanged(s, z, i)
  <2>1. z.calls[i].late = c.late  BY <1>2, <1>3
  <2>2. QED  BY <1>7, <1>8, <1>2, <1>3, <1>4, <2>1 DEF CallChanged
<1>6. QED
  BY <1>2, <1>3, <1>5 DEF z, v, WithCall, Replaced

(* The client hears of the change: of the call's item, when the call has got *)
(* a name, and of a piece, which is out of order only if it has none.        *)
LEMMA CallStep ==
  ASSUME NEW s, Sound(s, 0), s.created = TRUE, NEW z, NEW i, CallChanged(s, z, i),
         z.items = s.items,
         s.calls[i].tool # "none" => z.calls[i].tool # "none",
         z.client.created = TRUE, z.client.ended = "open", z.client.stray = FALSE,
         z.client.done = s.client.done,
         z.client.added = IF z.calls[i].tool # "none" THEN s.client.added \cup {CallItem(s, i)}
                          ELSE s.client.added,
         z.client.odd \subseteq s.client.odd \cup
             (IF z.calls[i].late = TRUE THEN {CallItem(s, i)} ELSE {})
  PROVE  Calls(s, z, i)
<1> DEFINE k == CallItem(s, i)
           M == Len(s.calls)
<1>1. /\ i \in 1 .. M /\ M \in Nat
      /\ k \in Fresher(s) /\ s.items[k].kind = "call"
      /\ k \in s.client.added <=> s.calls[i].tool # "none"
      /\ k \notin s.client.done
      /\ \A j \in 1 .. M : CallItem(s, j) = k => j = i
      /\ Fresher(s) \subseteq 1 .. Len(s.items) /\ Fresher(z) = Fresher(s)
  <2>0. CallsOf(s, 0) /\ s.items \in Seq(Entry) /\ s.first \in 0 .. Len(s.items)
        /\ s.calls \in Seq(Buffer) /\ i \in 1 .. M
        /\ z.first = s.first /\ z.items = s.items
    BY DEF CallChanged, Sound, ShapeOf
  <2>1. M \in Nat /\ ~(i <= 0)  BY ONLY <2>0
  <2>2. Fresher(s) \subseteq 1 .. Len(s.items) /\ Fresher(z) = Fresher(s)
    BY ONLY <2>0 DEF Fresher
  <2>3. QED  BY <2>0, <2>1, <2>2 DEF CallsOf
<1>2. \A j \in 1 .. M : CallItem(z, j) = CallItem(s, j)
  BY DEF CallChanged
<1>3. Len(z.calls) = M /\ z.thinking = s.thinking /\ z.text = s.text
      /\ \A j \in 1 .. M : j # i => z.calls[j] = s.calls[j]
  BY DEF CallChanged
<1>4. ShapeOf(z)
  <2>1. s.items \in Seq(Entry) /\ s.first \in 0 .. Len(s.items)
        /\ s.thinking \in Nat /\ s.text \in Nat
    BY DEF Sound, ShapeOf
  <2>2. z.created \in BOOLEAN  BY DEF CallChanged
  <2>3. QED  BY <2>1, <2>2 DEF ShapeOf, CallChanged
<1>5. ToldOf(z)
  <2>1. s.client.added \cup s.client.done \subseteq 1 .. Len(s.items)
    BY DEF Sound, ToldOf
  <2>2. z.created = TRUE  BY DEF CallChanged
  <2>3. z.client.added \subseteq s.client.added \cup {k}  OBVIOUS
  <2>4. QED  BY <1>1, <2>1, <2>2, <2>3 DEF ToldOf
<1>6. DoneOf(z)  BY DEF Sound, DoneOf
<1>7. OpenOf(z)
  <2>1. OpenAt(s, s.thinking, "reasoning") /\ OpenAt(s, s.text, "message")
    BY DEF Sound, OpenOf
  <2>2. s.client.added \subseteq z.client.added  OBVIOUS
  <2>3. QED  BY <2>1, <2>2, <1>1, <1>3 DEF OpenOf, OpenAt
<1>8. CallsOf(z, 0)
  <2>1. CallsOf(s, 0)  BY DEF Sound
  <2>2. ASSUME NEW j \in 1 .. M
        PROVE  /\ CallItem(z, j) \in Fresher(z) /\ z.items[CallItem(z, j)].kind = "call"
               /\ CallItem(z, j) \in z.client.added <=> z.calls[j].tool # "none"
               /\ CallItem(z, j) \in z.client.done <=> j <= 0
    <3>1. /\ CallItem(s, j) \in Fresher(s) /\ s.items[CallItem(s, j)].kind = "call"
          /\ CallItem(s, j) \in s.client.added <=> s.calls[j].tool # "none"
          /\ CallItem(s, j) \in s.client.done <=> j <= 0
      BY <2>1 DEF CallsOf
    <3>2. CASE j = i
      BY <3>1, <3>2, <1>1, <1>2
    <3>3. CASE j # i
      <4>1. CallItem(s, j) # k  BY <1>1, <3>3
      <4>2. CallItem(s, j) \in z.client.added <=> CallItem(s, j) \in s.client.added
        BY <4>1
      <4>3. z.calls[j] = s.calls[j] /\ CallItem(z, j) = CallItem(s, j)
        BY <1>2, <1>3, <3>3
      <4>4. QED  BY <3>1, <4>2, <4>3, <1>1
    <3>4. QED  BY <3>2, <3>3
  <2>3. \A j, l \in 1 .. M : CallItem(z, l) = CallItem(z, j) => l = j
    BY <2>1, <1>2 DEF CallsOf
  <2>4. QED  BY <2>2, <2>3, <1>3 DEF CallsOf
<1>9. OddOf(z)
  <2>1. \A l \in s.client.odd : \E j \in 1 .. M : CallItem(s, j) = l /\ s.calls[j].late = TRUE
    BY DEF Sound, OddOf
  <2>2. \A j \in 1 .. M : s.calls[j].late = TRUE => z.calls[j].late = TRUE
    BY DEF CallChanged
  <2>3. \A l \in z.client.odd : \E j \in 1 .. M : CallItem(z, j) = l /\ z.calls[j].late = TRUE
    BY <2>1, <2>2, <1>1, <1>2
  <2>4. QED  BY <2>3, <1>3 DEF OddOf
<1>10. ClosedOf(z)
  <2>1. ClosedOf(s)  BY DEF Sound
  <2>2. QED  BY <2>1, <1>1, <1>2, <1>3 DEF ClosedOf
<1>11. Sound(z, 0)
  BY <1>4, <1>5, <1>6, <1>7, <1>8, <1>9, <1>10 DEF Sound
<1>12. Grows(s, z)
  BY <1>1, <1>2, <1>3 DEF Grows, CallChanged
<1>13. QED
  BY <1>1, <1>3, <1>11, <1>12 DEF Calls, CallChanged

LEMMA BufferFields ==
  ASSUME NEW q \in Buffer
  PROVE  /\ q = [item |-> q.item, tool |-> q.tool, args |-> q.args, late |-> q.late]
         /\ q.item \in Nat /\ q.tool \in Tools \cup {"none"}
         /\ q.args \in {"none", "part", "whole", "spoilt"} /\ q.late \in BOOLEAN
BY DEF Buffer

LEMMA BufferMade ==
  ASSUME NEW k \in Nat, NEW tool \in Tools \cup {"none"}, NEW behind \in BOOLEAN,
         NEW args \in {"none", "part", "whole", "spoilt"}
  PROVE  LET c == [item |-> k, tool |-> tool, args |-> args, late |-> behind]
         IN c \in Buffer /\ c.item = k /\ c.tool = tool /\ c.args = args /\ c.late = behind
BY DEF Buffer

LEMMA NamedSound ==
  ASSUME NEW s, Sound(s, 0), s.created = TRUE, NEW i \in 1 .. Len(s.calls),
         NEW name \in Tools \cup {"none"}
  PROVE  Calls(s, Named(s, i, name), i)
<1>1. CASE name = "none" \/ s.calls[i].tool # "none"
  <2>1. Grows(s, s)  BY DEF Grows, Sound, ShapeOf
  <2>2. QED  BY <1>1, <2>1 DEF Named, Calls
<1>2. CASE name # "none" /\ s.calls[i].tool = "none"
  <2> DEFINE q == s.calls[i]
             c == [item |-> q.item, tool |-> name, args |-> q.args, late |-> q.late]
             b == WithCall(s, i, c)
             k == CallItem(s, i)
             z == Emit(b, "added", k)
  <2>0. Made(s) /\ s.calls \in Seq(Buffer)
    BY DEF Sound, ShapeOf
  <2>1. q \in Buffer  BY <2>0
  <2>2. c \in Buffer /\ [q EXCEPT !.tool = name] = c
    <3>1. q = [item |-> q.item, tool |-> q.tool, args |-> q.args, late |-> q.late]
      BY <2>1, BufferFields
    <3>2. c \in Buffer
      <4>1. /\ q.item \in Nat /\ q.late \in BOOLEAN
            /\ q.args \in {"none", "part", "whole", "spoilt"}
        BY <2>1, BufferFields
      <4> HIDE DEF q
      <4>2. QED  BY <4>1 DEF Buffer
    <3> HIDE DEF q
    <3>3. [q EXCEPT !.tool = name] = c
      BY ONLY <3>1
    <3>4. QED  BY <3>2, <3>3
  <2>3. [s EXCEPT !.calls[i].tool = name] = b
    BY <2>2 DEF WithCall
  <2>4. Named(s, i, name) = z
    BY <1>2, <2>3 DEF Named
  <2>5. c.tool = name /\ c.late = q.late /\ c.item = CallItem(s, i)
    BY DEF CallItem
  <2> HIDE DEF c
  <2>6. CallChanged(s, b, i) /\ b.calls[i] = c /\ b.items = s.items /\ b.client = s.client
    <3>1. s.calls[i].late = TRUE => c.late = TRUE  BY <2>5
    <3>2. Replaces(s, i, c)  BY <2>0, <2>2, <2>5, <3>1 DEF Replaces
    <3>3. Replaced(s, b, i, c)  BY <3>2, CallFields
    <3>4. QED  BY <3>3 DEF Replaced
  <2> HIDE DEF b
  <2>7. /\ Made(z) /\ z.items = b.items
        /\ z.created = b.created /\ z.first = b.first
        /\ z.thinking = b.thinking /\ z.text = b.text /\ z.calls = b.calls
        /\ z.reason = b.reason /\ z.client = See(b.client, "added", k)
    <3>1. Made(b)  BY <2>6 DEF CallChanged
    <3>2. QED  BY ONLY <3>1, EmitFields
  <2>8. CallsOf(s, 0)  BY DEF Sound
  <2>9. k \notin s.client.added
    BY <1>2, <2>8 DEF CallsOf
  <2>10. /\ z.client.created = TRUE /\ z.client.ended = "open" /\ z.client.stray = FALSE
         /\ z.client.added = s.client.added \cup {k} /\ z.client.done = s.client.done
         /\ z.client.odd = s.client.odd
    <3> DEFINE r == s.client
    <3>1. r.created = TRUE /\ r.ended = "open" /\ r.stray = FALSE /\ ~OutOfOrder(r, "added", k)
      BY <2>9 DEF Sound, ToldOf, OutOfOrder
    <3> HIDE DEF r, k
    <3>2. LET w == See(r, "added", k)
          IN /\ w.created = TRUE /\ w.ended = "open" /\ w.stray = FALSE
             /\ w.added = r.added \cup {k} /\ w.done = r.done /\ w.odd = r.odd
      BY <3>1 DEF See, Terminal
    <3>3. z.client = See(r, "added", k)  BY <2>6, <2>7 DEF r
    <3>4. QED  BY <3>2, <3>3 DEF r
  <2> HIDE DEF z
  <2>11. CallChanged(s, z, i)
    <3>1. \A j : CallItem(z, j) = CallItem(b, j)  BY <2>7 DEF CallItem
    <3>2. QED  BY <2>6, <2>7, <3>1 DEF CallChanged
  <2>12. z.calls[i].tool # "none" /\ z.items = s.items
    BY <1>2, <2>5, <2>6, <2>7
  <2>13. z.client.odd \subseteq s.client.odd \cup
             (IF z.calls[i].late = TRUE THEN {CallItem(s, i)} ELSE {})
    BY <2>10
  <2>14. Calls(s, z, i)
    BY <2>10, <2>11, <2>12, <2>13, CallStep
  <2>15. QED  BY <2>4, <2>14
<1>3. QED  BY <1>1, <1>2

LEMMA ArguedSound ==
  ASSUME NEW s, Sound(s, 0), s.created = TRUE, NEW i \in 1 .. Len(s.calls),
         NEW grown \in {"none", "part", "whole", "spoilt"}
  PROVE  Calls(s, Argued(s, i, grown), i)
<1> DEFINE q == s.calls[i]
           l == q.late \/ q.tool = "none"
           c == [item |-> q.item, tool |-> q.tool, args |-> grown, late |-> l]
           b == WithCall(s, i, c)
           k == CallItem(s, i)
           e == Emit(b, "delta", k)
           z == IF q.tool = "custom" THEN b ELSE e
<1>1. Made(s) /\ s.calls \in Seq(Buffer) /\ q \in Buffer
  BY DEF Sound, ShapeOf
<1>2. l \in BOOLEAN /\ (q.tool = "none" => l = TRUE) /\ (q.late = TRUE => l = TRUE)
  BY <1>1 DEF Buffer
<1>3. [q EXCEPT !.args = grown, !.late = @ \/ q.tool = "none"] = c
  <2>1. [q EXCEPT !.args = grown, !.late = @ \/ q.tool = "none"]
          = [q EXCEPT !.args = grown, !.late = l]
    OBVIOUS
  <2> HIDE DEF l
  <2>2. [q EXCEPT !.args = grown, !.late = l] = c
    <3>1. q = [item |-> q.item, tool |-> q.tool, args |-> q.args, late |-> q.late]
      BY <1>1, BufferFields
    <3> DEFINE a == [item |-> q.item, tool |-> q.tool, args |-> grown, late |-> q.late]
    <3> HIDE DEF q
    <3>2. [q EXCEPT !.args = grown] = a
      BY ONLY <3>1
    <3>3. [a EXCEPT !.late = l] = c
      OBVIOUS
    <3>4. [q EXCEPT !.args = grown, !.late = l] = [[q EXCEPT !.args = grown] EXCEPT !.late = l]
      OBVIOUS
    <3>5. QED  BY <3>2, <3>3, <3>4
  <2>3. QED  BY <2>1, <2>2
<1>4. Argued(s, i, grown) = z
  BY <1>3 DEF Argued, CallItem, WithCall
<1> HIDE DEF l
<1>5. c \in Buffer
  BY <1>1, <1>2 DEF Buffer
<1>6. c.tool = q.tool /\ c.late = l /\ c.item = CallItem(s, i)
  BY DEF CallItem
<1> HIDE DEF c
<1>7. CallChanged(s, b, i) /\ b.calls[i] = c /\ b.items = s.items /\ b.client = s.client
  <2>1. s.calls[i].late = TRUE => c.late = TRUE  BY <1>2, <1>6
  <2>2. Replaces(s, i, c)  BY <1>1, <1>5, <1>6, <2>1 DEF Replaces
  <2>3. Replaced(s, b, i, c)  BY <2>2, CallFields
  <2>4. QED  BY <2>3 DEF Replaced
<1> HIDE DEF b
<1>8. /\ Made(e) /\ e.items = b.items
      /\ e.created = b.created /\ e.first = b.first
      /\ e.thinking = b.thinking /\ e.text = b.text /\ e.calls = b.calls
      /\ e.reason = b.reason /\ e.client = See(b.client, "delta", k)
  <2>1. Made(b)  BY <1>7 DEF CallChanged
  <2>2. QED  BY ONLY <2>1, EmitFields
<1>9. k \notin s.client.done /\ (k \in s.client.added <=> q.tool # "none")
  <2>1. CallsOf(s, 0) /\ ~(i <= 0)  BY DEF Sound
  <2>2. QED  BY <2>1 DEF CallsOf
<1>10. s.client.created = TRUE /\ s.client.ended = "open" /\ s.client.stray = FALSE
  BY DEF Sound, ToldOf
<1>11. /\ e.client.created = TRUE /\ e.client.ended = "open" /\ e.client.stray = FALSE
       /\ e.client.added = s.client.added /\ e.client.done = s.client.done
       /\ e.client.odd = IF q.tool = "none" THEN s.client.odd \cup {k} ELSE s.client.odd
  <2> DEFINE r == s.client
  <2>1. OutOfOrder(r, "delta", k) <=> q.tool = "none"
    BY <1>9 DEF OutOfOrder
  <2> HIDE DEF r, k, q
  <2>2. r.created = TRUE /\ r.ended = "open" /\ r.stray = FALSE
    BY <1>10 DEF r
  <2>3. LET w == See(r, "delta", k)
        IN /\ w.created = TRUE /\ w.ended = "open" /\ w.stray = FALSE
           /\ w.added = r.added /\ w.done = r.done
           /\ w.odd = IF OutOfOrder(r, "delta", k) THEN r.odd \cup {k} ELSE r.odd
    BY <2>2 DEF See, Terminal
  <2>4. e.client = See(r, "delta", k)  BY <1>7, <1>8 DEF r
  <2>5. QED  BY <2>1, <2>3, <2>4 DEF r
<1> HIDE DEF e
<1>12. CallChanged(s, e, i)
  <2>1. \A j : CallItem(e, j) = CallItem(b, j)  BY <1>8 DEF CallItem
  <2>2. QED  BY <1>7, <1>8, <2>1 DEF CallChanged
<1>13. /\ CallChanged(s, z, i) /\ z.items = s.items /\ z.calls[i].tool = q.tool
       /\ z.client.created = TRUE /\ z.client.ended = "open" /\ z.client.stray = FALSE
       /\ z.client.done = s.client.done /\ z.client.added = s.client.added
       /\ z.client.odd \subseteq s.client.odd \cup
             (IF z.calls[i].late = TRUE THEN {k} ELSE {})
  BY <1>2, <1>6, <1>7, <1>8, <1>10, <1>11, <1>12
<1> HIDE DEF z
<1>14. z.client.added = IF z.calls[i].tool # "none" THEN s.client.added \cup {CallItem(s, i)}
                        ELSE s.client.added
  BY <1>9, <1>13
<1>15. Calls(s, z, i)
  BY <1>13, <1>14, CallStep
<1>16. QED  BY <1>4, <1>15

LEMMA CallOfSound ==
  ASSUME Sound(t, 0), NEW i \in 1 .. (Len(t.calls) + 1), NEW name \in Tools \cup {"none"}
  PROVE  LET z == CallOf(i, name)
         IN Sound(z, 0) /\ z.created = TRUE /\ i \in 1 .. Len(z.calls) /\ Grows(t, z)
<1> DEFINE a == Flush(Created(t))
           b == Called(a, i)
           z == Named(b, i, name)
<1>1. Sound(a, 0) /\ a.created = TRUE /\ a.calls = t.calls
  BY CreatedSound, FlushSound DEF Continues
<1> HIDE DEF a
<1>2. Sound(b, 0) /\ b.created = TRUE /\ i \in 1 .. Len(b.calls) /\ Grows(a, b)
  <2>1. Calls(a, b, i)  BY <1>1, CalledSound
  <2>2. QED  BY <2>1 DEF Calls
<1>3. CallOf(i, name) = z
  BY DEF CallOf, a
<1> HIDE DEF b
<1>4. Sound(z, 0) /\ z.created = TRUE /\ i \in 1 .. Len(z.calls) /\ Grows(b, z)
  <2>1. Calls(b, z, i)  BY <1>2, NamedSound
  <2>2. QED  BY <2>1 DEF Calls
<1> HIDE DEF z
<1>5. Grows(t, z)
  <2>1. t.calls \in Seq(Buffer) /\ b.calls \in Seq(Buffer) /\ z.calls \in Seq(Buffer)
    BY <1>2, <1>4 DEF Sound, ShapeOf
  <2>2. Grows(t, b)  BY <1>1, <1>2 DEF Grows, CallItem
  <2>3. Len(t.calls) \in Nat /\ Len(b.calls) \in Nat /\ Len(z.calls) \in Nat
    BY <2>1
  <2>4. Len(t.calls) <= Len(z.calls) /\ \A j \in 1 .. Len(t.calls) : j \in 1 .. Len(b.calls)
    BY <1>4, <2>2, <2>3 DEF Grows
  <2>5. QED  BY <1>4, <2>2, <2>4 DEF Grows
<1>6. QED  BY <1>3, <1>4, <1>5

-----------------------------------------------------------------------------
(* The end: the calls are ended one by one. *)

Ending(s, z) ==
    /\ z.created = TRUE /\ z.reason = s.reason
    /\ z.thinking = s.thinking /\ z.text = s.text
    /\ Len(z.calls) = Len(s.calls)
    /\ \A j \in 1 .. Len(s.calls) : z.calls[j].args = s.calls[j].args

LEMMA EndCallSound ==
  ASSUME NEW s, s.created = TRUE, NEW i \in 1 .. Len(s.calls), Sound(s, i - 1)
  PROVE  LET z == EndCall(s, i)
         IN Sound(z, i) /\ Ending(s, z)
<1> DEFINE q == s.calls[i]
           k == CallItem(s, i)
           l == q.late \/ q.tool = "none"
           c == [item |-> q.item, tool |-> q.tool, args |-> q.args, late |-> l]
           v == [s.items EXCEPT ![k].status = "completed"]
           a == [s EXCEPT !.items = v]
           b == WithCall(a, i, c)
           e == Emit(b, "delta", k)
           d == IF q.tool = "custom" THEN e ELSE b
           z == Emit(d, "done", k)
           M == Len(s.calls)
<1>1. Made(s) /\ s.calls \in Seq(Buffer) /\ s.first \in 0 .. Len(s.items)
      /\ s.items \in Seq(Entry)
  BY DEF Sound, ShapeOf
<1>2. q \in Buffer  BY <1>1
<1>3. q = [item |-> q.item, tool |-> q.tool, args |-> q.args, late |-> q.late]
      /\ q.item \in Nat /\ q.tool \in Tools \cup {"none"}
      /\ q.args \in {"none", "part", "whole", "spoilt"} /\ q.late \in BOOLEAN
  BY <1>2, BufferFields
<1>4. l \in BOOLEAN /\ (q.tool = "none" => l = TRUE) /\ (q.late = TRUE => l = TRUE)
  BY <1>3
<1>5. [q EXCEPT !.late = @ \/ q.tool = "none"] = c
  <2> HIDE DEF q
  <2>1. QED  BY <1>3
<1>6. [s EXCEPT !.items[q.item].status = "completed",
                !.calls[i].late = @ \/ q.tool = "none"] = b
  <2> DEFINE u == [s.calls EXCEPT ![i] = c]
  <2>1. [s EXCEPT !.items[q.item].status = "completed",
                  !.calls[i].late = @ \/ q.tool = "none"]
          = [[s EXCEPT !.items = v] EXCEPT !.calls = u]
    BY <1>1, <1>5 DEF CallItem, Made
  <2>2. a.calls = s.calls  BY <1>1 DEF Made
  <2>3. QED  BY <2>1, <2>2 DEF WithCall
<1>7. EndCall(s, i) = z
  BY <1>6 DEF EndCall, CallItem
<1> HIDE DEF l
<1>8. c \in Buffer /\ c.tool = q.tool /\ c.late = l /\ c.item = CallItem(s, i)
      /\ c.args = q.args
  <2>1. c.item = CallItem(s, i)  BY DEF CallItem
  <2> HIDE DEF q
  <2>2. QED  BY <1>3, <1>4, <2>1 DEF Buffer
<1> HIDE DEF c, v
<1>9. /\ Made(a) /\ a.items = v
      /\ a.created = s.created /\ a.first = s.first
      /\ a.thinking = s.thinking /\ a.text = s.text /\ a.calls = s.calls
      /\ a.reason = s.reason /\ a.client = s.client
  BY <1>1 DEF Made
<1> HIDE DEF a
<1>10. Replaced(a, b, i, c)
  <2>1. a.calls \in Seq(Buffer) /\ i \in 1 .. Len(a.calls) /\ c.item = CallItem(a, i)
    BY <1>1, <1>8, <1>9 DEF CallItem
  <2>2. a.calls[i].late = TRUE => c.late = TRUE
    BY <1>4, <1>8, <1>9
  <2>3. Replaces(a, i, c)  BY <1>8, <1>9, <2>1, <2>2 DEF Replaces
  <2>4. QED  BY <2>3, CallFields
<1> HIDE DEF b
<1>11. /\ CallsOf(s, i - 1) /\ i \in 1 .. M /\ M \in Nat
       /\ k \in Fresher(s) /\ s.items[k].kind = "call"
       /\ k \notin s.client.done /\ (k \in s.client.added <=> q.tool # "none")
       /\ \A j \in 1 .. M : CallItem(s, j) = k => j = i
  <2>1. CallsOf(s, i - 1) /\ ~(i <= i - 1) /\ M \in Nat  BY <1>1 DEF Sound
  <2>2. QED  BY <2>1 DEF CallsOf
<1> HIDE DEF k
<1>12. Made(b) /\ Made(e) /\ Made(z)
       /\ z.items = v /\ z.created = TRUE /\ z.first = s.first
       /\ z.thinking = s.thinking /\ z.text = s.text /\ z.calls = b.calls
       /\ z.reason = s.reason /\ z.client = See(d.client, "done", k)
       /\ b.client = s.client
  <2>1. /\ Made(b) /\ b.first = a.first /\ b.thinking = a.thinking /\ b.text = a.text
        /\ b.created = a.created /\ b.reason = a.reason
        /\ b.items = a.items /\ b.client = a.client
    BY <1>10 DEF Replaced, CallChanged
  <2>2. /\ Made(e) /\ e.items = b.items
        /\ e.created = b.created /\ e.first = b.first
        /\ e.thinking = b.thinking /\ e.text = b.text /\ e.calls = b.calls
        /\ e.reason = b.reason
    <3>1. Made(b)  BY <2>1
    <3>2. QED  BY ONLY <3>1, EmitFields
  <2> HIDE DEF e
  <2>3. /\ Made(d) /\ d.items = b.items
        /\ d.created = b.created /\ d.first = b.first
        /\ d.thinking = b.thinking /\ d.text = b.text /\ d.calls = b.calls
        /\ d.reason = b.reason
    BY <2>1, <2>2
  <2> HIDE DEF d
  <2>4. /\ Made(z) /\ z.items = d.items
        /\ z.created = d.created /\ z.first = d.first
        /\ z.thinking = d.thinking /\ z.text = d.text /\ z.calls = d.calls
        /\ z.reason = d.reason /\ z.client = See(d.client, "done", k)
    <3>1. Made(d)  BY <2>3
    <3>2. QED  BY ONLY <3>1, EmitFields
  <2> HIDE DEF z
  <2>5. QED  BY <1>9, <2>1, <2>2, <2>3, <2>4
<1>13. e.client = See(s.client, "delta", k)
  <2>1. Made(b) /\ b.client = s.client  BY <1>12
  <2>2. e.client = See(b.client, "delta", k)
    <3>1. Made(b)  BY <2>1
    <3>2. QED  BY ONLY <3>1, EmitFields
  <2>3. QED  BY <2>1, <2>2
<1> HIDE DEF e
<1>14. See(d.client, "done", k) = See(s.client, "done", k)
  <2>1. CASE q.tool # "custom"
    <3>1. d.client = s.client  BY <2>1, <1>12
    <3>2. QED  BY <3>1
  <2>2. CASE q.tool = "custom"
    <3> DEFINE r == s.client
               w == See(r, "delta", k)
    <3>1. d.client = w  BY <2>2, <1>13
    <3>2. r.created = TRUE /\ r.ended = "open" /\ r.stray = FALSE
          /\ ~OutOfOrder(r, "delta", k)
      <4>1. k \in r.added \ r.done  BY <2>2, <1>11
      <4>2. ~OutOfOrder(r, "delta", k)  BY <4>1 DEF OutOfOrder
      <4>3. QED  BY <4>2 DEF Sound, ToldOf
    <3> HIDE DEF r
    <3>3. /\ w.created = TRUE /\ w.added = r.added /\ w.done = r.done /\ w.odd = r.odd
          /\ w.ended = "open" /\ w.stray = FALSE
      BY <3>2 DEF See, Terminal
    <3> HIDE DEF w
    <3>4. See(w, "done", k) = See(r, "done", k)
      BY <3>2, <3>3 DEF See, OutOfOrder, Terminal
    <3>5. QED  BY <3>1, <3>4 DEF r
  <2>3. QED  BY <2>1, <2>2
<1> HIDE DEF d, z
<1>15. Completed(s, z, k)
  BY <1>12, <1>14 DEF Completed, v
<1>16. k \in 1 .. Len(s.items)
  BY <1>1, <1>11 DEF Fresher
<1>17. CompletedBut(s, z, k)
  BY <1>15, <1>16, CompletedLemma
<1>18. /\ z.calls \in Seq(Buffer) /\ Len(z.calls) = M /\ z.calls[i] = c
       /\ \A j \in 1 .. M : CallItem(z, j) = CallItem(s, j)
       /\ \A j \in 1 .. M : j # i => z.calls[j] = s.calls[j]
  <2>1. CallChanged(a, b, i) /\ b.calls[i] = c  BY <1>10 DEF Replaced
  <2>2. \A j : CallItem(z, j) = CallItem(b, j) /\ CallItem(a, j) = CallItem(s, j)
    BY <1>9, <1>12 DEF CallItem
  <2>3. QED  BY <2>1, <2>2, <1>9, <1>12 DEF CallChanged
<1>19. ShapeOf(z)
  <2>1. s.thinking \in Nat /\ s.text \in Nat  BY DEF Sound, ShapeOf
  <2>2. z.created \in BOOLEAN  BY <1>12
  <2>3. z.items \in Seq(Entry) /\ z.first \in 0 .. Len(z.items)
    BY <1>1, <1>17 DEF CompletedBut
  <2>4. QED  BY <1>12, <1>18, <2>1, <2>2, <2>3 DEF ShapeOf
<1>20. ToldOf(z)
  <2>1. s.client.added \cup s.client.done \subseteq 1 .. Len(s.items)
    BY DEF Sound, ToldOf
  <2>2. QED  BY <2>1, <1>12, <1>16, <1>17 DEF ToldOf, CompletedBut
<1>21. DoneOf(z)  BY <1>17 DEF CompletedBut
<1>22. OpenOf(z)
  <2>1. OpenAt(s, s.thinking, "reasoning") /\ OpenAt(s, s.text, "message")
    BY DEF Sound, OpenOf
  <2>2. OpenAt(z, s.thinking, "reasoning")
    BY <2>1, <1>11, <1>17 DEF OpenAt, CompletedBut
  <2>3. OpenAt(z, s.text, "message")
    BY <2>1, <1>11, <1>17 DEF OpenAt, CompletedBut
  <2>4. QED  BY <2>2, <2>3, <1>12 DEF OpenOf
<1>23. CallsOf(z, i)
  <2>1. ASSUME NEW j \in 1 .. M
        PROVE  /\ CallItem(z, j) \in Fresher(z) /\ z.items[CallItem(z, j)].kind = "call"
               /\ CallItem(z, j) \in z.client.added <=> z.calls[j].tool # "none"
               /\ CallItem(z, j) \in z.client.done <=> j <= i
    <3>1. /\ CallItem(s, j) \in Fresher(s) /\ s.items[CallItem(s, j)].kind = "call"
          /\ CallItem(s, j) \in s.client.added <=> s.calls[j].tool # "none"
          /\ CallItem(s, j) \in s.client.done <=> j <= i - 1
      BY <1>11 DEF CallsOf
    <3>2. /\ CallItem(z, j) \in Fresher(z) /\ z.items[CallItem(z, j)].kind = "call"
      BY <3>1, <1>17, <1>18 DEF CompletedBut
    <3>3. z.calls[j].tool = s.calls[j].tool
      BY <1>8, <1>18
    <3>4. CallItem(z, j) \in z.client.added <=> z.calls[j].tool # "none"
      BY <3>1, <3>3, <1>17, <1>18 DEF CompletedBut
    <3>5. CallItem(s, j) = k <=> j = i  BY <1>11 DEF k
    <3>6. j <= i <=> (j <= i - 1 \/ j = i)  BY <1>11
    <3>7. z.client.done = s.client.done \cup {k}  BY <1>17 DEF CompletedBut
    <3>8. CallItem(z, j) \in z.client.done <=> j <= i
      BY <3>1, <3>5, <3>6, <3>7, <1>18
    <3>9. QED  BY <3>2, <3>4, <3>8
  <2>2. \A j, y \in 1 .. M : CallItem(z, y) = CallItem(z, j) => y = j
    BY <1>11, <1>18 DEF CallsOf
  <2>3. QED  BY <2>1, <2>2, <1>18 DEF CallsOf
<1>24. OddOf(z)
  <2>1. \A x \in s.client.odd : \E j \in 1 .. M : CallItem(s, j) = x /\ s.calls[j].late = TRUE
    BY DEF Sound, OddOf
  <2>2. \A j \in 1 .. M : s.calls[j].late = TRUE => z.calls[j].late = TRUE
    BY <1>4, <1>8, <1>18
  <2>3. q.tool = "none" => z.calls[i].late = TRUE
    BY <1>4, <1>8, <1>18
  <2>4. z.client.odd = s.client.odd \cup (IF q.tool # "none" THEN {} ELSE {k})
    BY <1>11, <1>17 DEF CompletedBut
  <2>5. CallItem(z, i) = k  BY <1>18 DEF k
  <2>6. \A x \in z.client.odd : \E j \in 1 .. M : CallItem(z, j) = x /\ z.calls[j].late = TRUE
    <3> TAKE x \in z.client.odd
    <3>1. CASE x \in s.client.odd  BY <3>1, <2>1, <2>2, <1>18
    <3>2. CASE x = k /\ q.tool = "none"  BY <3>2, <2>3, <2>5, <1>11
    <3>3. QED  BY <3>1, <3>2, <2>4
  <2>7. QED  BY <2>6, <1>18 DEF OddOf
<1>25. ClosedOf(z)
  <2>1. ClosedOf(s)  BY DEF Sound
  <2>2. QED  BY <2>1, <1>12, <1>17, <1>18 DEF ClosedOf, CompletedBut
<1>26. Sound(z, i)
  BY <1>19, <1>20, <1>21, <1>22, <1>23, <1>24, <1>25 DEF Sound
<1>27. Ending(s, z)
  BY <1>8, <1>12, <1>18 DEF Ending
<1>28. QED  BY <1>7, <1>26, <1>27

LEMMA EndCallsSound ==
  ASSUME NEW s, s.created = TRUE, Sound(s, 0)
  PROVE  LET z == EndCalls(s)
         IN Sound(z, Len(s.calls)) /\ Ending(s, z)
<1> DEFINE N == Len(s.calls)
           Runs(g, m) == g = [n \in 0 .. m |-> IF n = 0 THEN s ELSE EndCall(g[n - 1], n)]
           ended == CHOOSE g : Runs(g, N)
           T == {m \in Nat : \E g : Runs(g, m)}
           U == {m \in Nat : m <= N => Sound(ended[m], m) /\ Ending(s, ended[m])}
<1>1. EndCalls(s) = ended[N]
  BY DEF EndCalls
<1>2. T = Nat
  <2>1. 0 \in T
    <3> DEFINE g == [n \in 0 .. 0 |-> s]
    <3>1. Runs(g, 0)  OBVIOUS
    <3>2. QED  BY <3>1
  <2>2. ASSUME NEW m \in T PROVE m + 1 \in T
    <3>1. m \in Nat  OBVIOUS
    <3>2. PICK g : Runs(g, m)  OBVIOUS
    <3> DEFINE y == EndCall(g[m], m + 1)
               h == [n \in 0 .. (m + 1) |-> IF n = m + 1 THEN y ELSE g[n]]
    <3>3. Runs(h, m + 1)
      <4> HIDE DEF y
      <4>1. \A n \in 0 .. m : h[n] = g[n]  BY <3>1
      <4>2. h[m + 1] = y  BY <3>1
      <4>3. \A n \in 0 .. (m + 1) : h[n] = IF n = 0 THEN s ELSE EndCall(h[n - 1], n)
        <5> TAKE n \in 0 .. (m + 1)
        <5>1. CASE n = m + 1
          <6>1. n - 1 = m /\ n # 0 /\ m \in 0 .. m  BY <5>1, <3>1
          <6>2. h[n - 1] = g[m]  BY <6>1, <4>1
          <6>3. QED  BY <5>1, <6>1, <6>2, <4>2 DEF y
        <5>2. CASE n \in 0 .. m
          <6>1. n = 0 \/ n - 1 \in 0 .. m  BY <5>2, <3>1
          <6>2. g[n] = IF n = 0 THEN s ELSE EndCall(g[n - 1], n)
            BY <3>2, <5>2
          <6>3. QED  BY <5>2, <6>1, <6>2, <4>1
        <5>3. QED  BY <5>1, <5>2, <3>1
      <4>4. h = [n \in 0 .. (m + 1) |-> h[n]]  OBVIOUS
      <4> HIDE DEF h
      <4>5. QED  BY <4>3, <4>4
    <3>4. m + 1 \in Nat  BY <3>1
    <3>5. QED  BY <3>3, <3>4
  <2> HIDE DEF T
  <2>3. T \in SUBSET Nat  BY DEF T
  <2>4. QED  BY <2>1, <2>2, <2>3, NaturalsReached
<1>3. N \in Nat  BY DEF Sound, ShapeOf
<1>4. Runs(ended, N)
  <2>1. \E g : Runs(g, N)  BY <1>2, <1>3
  <2> HIDE DEF Runs
  <2>2. QED  BY <2>1
<1>5. ended[0] = s /\ \A n \in 1 .. N : ended[n] = EndCall(ended[n - 1], n)
  <2> HIDE DEF ended
  <2>1. ended[0] = s  BY <1>3, <1>4
  <2>2. \A n \in 1 .. N : ended[n] = EndCall(ended[n - 1], n)
    BY <1>3, <1>4
  <2>3. QED  BY <2>1, <2>2
<1> HIDE DEF ended
<1>6. U = Nat
  <2>1. 0 \in U
    <3>1. Ending(s, s)  BY DEF Ending
    <3>2. QED  BY <3>1, <1>5
  <2>2. ASSUME NEW m \in U PROVE m + 1 \in U
    <3>1. m \in Nat /\ m + 1 \in Nat  OBVIOUS
    <3>2. SUFFICES ASSUME m + 1 <= N
                   PROVE  Sound(ended[m + 1], m + 1) /\ Ending(s, ended[m + 1])
      BY <3>1
    <3> DEFINE a == ended[m]
               z == ended[m + 1]
    <3>3. m <= N /\ m + 1 \in 1 .. N /\ m + 1 - 1 = m  BY <1>3, <3>1, <3>2
    <3>4. Sound(a, m) /\ Ending(s, a)  BY <3>3
    <3>5. z = EndCall(a, m + 1)  BY <1>5, <3>3
    <3> HIDE DEF a, z
    <3>6. PICK i : i = m + 1  OBVIOUS
    <3>10. a.created = TRUE /\ i \in 1 .. Len(a.calls) /\ Sound(a, i - 1) /\ z = EndCall(a, i)
      BY <3>3, <3>4, <3>5, <3>6 DEF Ending
    <3>11. Sound(z, i) /\ Ending(a, z)  BY <3>10, EndCallSound
    <3>7. Sound(z, m + 1) /\ Ending(a, z)  BY <3>6, <3>11
    <3>8. Ending(s, z)  BY <3>4, <3>7 DEF Ending
    <3>9. QED  BY <3>7, <3>8 DEF z
  <2> HIDE DEF U
  <2>3. U \in SUBSET Nat  BY DEF U
  <2>4. QED  BY <2>1, <2>2, <2>3, NaturalsReached
<1>7. QED  BY <1>1, <1>3, <1>6

(* ResponseWellFormed, of a translator.                                      *)
OrderOf(z) ==
    /\ z.client.stray = FALSE
    /\ \A k \in z.client.odd : \E i \in 1 .. Len(z.calls) :
          CallItem(z, i) = k /\ z.calls[i].late

WholeOf(z) ==
    z.client.ended = "completed" =>
        /\ \A i \in 1 .. Len(z.calls) : z.calls[i].args = "whole"
        /\ z.reason = "stop"
        /\ ~OnlyThinking(z)
        /\ Fresher(z) \subseteq z.client.done
        /\ DoneOf(z)

(* The last event, whichever it is.                                          *)
LEMMA LastSeen ==
  ASSUME NEW r, r.ended = "open", r.stray = FALSE, NEW kind \in Terminal
  PROVE  LET w == See(r, kind, 0)
         IN /\ w.ended = kind /\ w.stray = FALSE
            /\ w.done = r.done /\ w.odd = r.odd
BY DEF See, Terminal, OutOfOrder

LEMMA LastSound ==
  ASSUME NEW s, NEW m, Sound(s, m), NEW kind \in Terminal
  PROVE  LET z == Emit(s, kind, 0)
         IN /\ OrderOf(z) /\ z.client.ended = kind
            /\ z.calls = s.calls /\ z.reason = s.reason /\ z.items = s.items
            /\ z.first = s.first /\ z.client.done = s.client.done
<1> DEFINE z == Emit(s, kind, 0)
           r == s.client
           w == See(r, kind, 0)
<1>1. Made(s) /\ r.ended = "open" /\ r.stray = FALSE /\ OddOf(s)
  BY DEF Sound, ShapeOf, ToldOf
<1>2. /\ z.calls = s.calls /\ z.reason = s.reason /\ z.items = s.items /\ z.first = s.first
      /\ z.client = w
  BY <1>1, EmitFields
<1> HIDE DEF r
<1>3. w.ended = kind /\ w.stray = FALSE /\ w.done = r.done /\ w.odd = r.odd
  BY <1>1, LastSeen
<1> HIDE DEF w, z
<1>4. OrderOf(z)
  BY <1>1, <1>2, <1>3 DEF OrderOf, OddOf, CallItem, r
<1>5. QED  BY <1>2, <1>3, <1>4 DEF z, r

LEMMA FinishSound ==
  ASSUME NEW s, Sound(s, 0)
  PROVE  OrderOf(Finish(s)) /\ WholeOf(Finish(s))
<1>1. CASE s.reason # "stop" \/ Torn(s)
  <2> DEFINE z == Emit(s, "incomplete", 0)
  <2>1. Finish(s) = z  BY <1>1 DEF Finish
  <2>2. OrderOf(z) /\ z.client.ended = "incomplete"
    BY LastSound DEF Terminal
  <2> HIDE DEF z
  <2>3. QED  BY <2>1, <2>2 DEF WholeOf
<1>2. CASE s.reason = "stop" /\ ~Torn(s)
  <2> DEFINE a == Flush(s)
             b == EndThink(a)
             f == EndText(b)
             g == EndCalls(f)
             kind == IF OnlyThinking(g) THEN "failed" ELSE "completed"
             z == Emit(g, kind, 0)
             M == Len(s.calls)
  <2>1. s.created = TRUE
    BY <1>2 DEF Sound, ShapeOf, ToldOf
  <2>2. Finish(s) = z
    BY <1>2 DEF Finish
  <2>3. Sound(a, 0) /\ a.created = TRUE /\ a.calls = s.calls /\ a.reason = s.reason
    BY <2>1, FlushSound DEF Continues
  <2> HIDE DEF a
  <2>4. Sound(b, 0) /\ b.created = TRUE /\ b.calls = s.calls /\ b.reason = s.reason
        /\ b.thinking = 0
    BY <2>3, EndThinkSound DEF Continues
  <2> HIDE DEF b
  <2>5. Sound(f, 0) /\ f.created = TRUE /\ f.calls = s.calls /\ f.reason = s.reason
        /\ f.thinking = 0 /\ f.text = 0
    BY <2>4, EndTextSound DEF Continues
  <2> HIDE DEF f
  <2>6. Sound(g, M) /\ Ending(f, g)
    BY <2>5, EndCallsSound
  <2> HIDE DEF g
  <2>7. kind \in Terminal  BY DEF Terminal
  <2>8. /\ OrderOf(z) /\ z.client.ended = kind
        /\ z.calls = g.calls /\ z.reason = g.reason /\ z.items = g.items
        /\ z.first = g.first /\ z.client.done = g.client.done
    <3> HIDE DEF kind
    <3>1. QED  BY <2>6, <2>7, LastSound
  <2>9. kind = "completed" => ~OnlyThinking(g)
    OBVIOUS
  <2> HIDE DEF kind, z
  <2>10. g.reason = "stop" /\ Len(g.calls) = M /\ M \in Nat /\ g.thinking = 0 /\ g.text = 0
    BY <1>2, <2>5, <2>6 DEF Ending, Sound, ShapeOf
  <2>11. \A i \in 1 .. M : g.calls[i].args = "whole"
    BY <1>2, <2>5, <2>6 DEF Ending, Torn
  <2>12. Fresher(g) \subseteq g.client.done
    <3>1. ClosedOf(g) /\ CallsOf(g, M) /\ g.first \in 0 .. Len(g.items)
      BY <2>6 DEF Sound, ShapeOf
    <3>2. \A k \in Fresher(g) : k # 0  BY <3>1 DEF Fresher
    <3>3. \A i \in 1 .. M : i <= M  BY <2>10
    <3>4. \A i \in 1 .. M : CallItem(g, i) \in g.client.done
      BY <2>10, <3>1, <3>3 DEF CallsOf
    <3>5. QED  BY <2>10, <3>1, <3>2, <3>4 DEF ClosedOf
  <2>13. DoneOf(g)  BY <2>6 DEF Sound
  <2>14. OnlyThinking(z) <=> OnlyThinking(g)
    BY <2>8 DEF OnlyThinking
  <2>15. WholeOf(z)
    BY <2>8, <2>9, <2>10, <2>11, <2>12, <2>13, <2>14 DEF WholeOf, Fresher, DoneOf
  <2>16. QED  BY <2>2, <2>8, <2>15
<1>3. QED  BY <1>1, <1>2

(* The handler gives up: the client is told, and that is all it hears.       *)
LEMMA FailsSound ==
  ASSUME Sound(t, 0), NEW s, Made(s), Grows(t, s), HandlerFails(s)
  PROVE  stage' = "over" /\ OrderOf(t') /\ WholeOf(t')
<1> DEFINE r == t.client
           w == See(r, "failed", 0)
<1>1. r.ended = "open" /\ r.stray = FALSE /\ OddOf(t)
  BY DEF Sound, ToldOf
<1>2. t'.client = w /\ t'.calls = s.calls /\ stage' = "over"
  BY DEF HandlerFails, Made
<1> HIDE DEF r
<1>3. w.ended = "failed" /\ w.stray = FALSE /\ w.odd = r.odd
  BY <1>1, LastSeen DEF Terminal
<1>4. \A k \in r.odd : \E i \in 1 .. Len(t.calls) :
        CallItem(t, i) = k /\ t.calls[i].late = TRUE
  <2>1. t.calls \in Seq(Buffer)  BY DEF Sound, ShapeOf
  <2>2. \A i \in 1 .. Len(t.calls) : t.calls[i].late \in BOOLEAN  BY <2>1, BufferFields
  <2>3. QED  BY <1>1, <2>2 DEF OddOf, r
<1>5. \A k \in r.odd : \E i \in 1 .. Len(s.calls) :
        CallItem(s, i) = k /\ s.calls[i].late = TRUE
  BY <1>4 DEF Grows
<1> HIDE DEF w
<1>6. OrderOf(t')
  BY <1>2, <1>3, <1>5 DEF OrderOf, CallItem
<1>7. QED  BY <1>2, <1>3, <1>6 DEF WholeOf

StreamInv ==
    IF stage = "reading" THEN Sound(t, 0) ELSE stage = "over" /\ OrderOf(t) /\ WholeOf(t)

LEMMA StreamStart == TranslatorInit => StreamInv
<1> SUFFICES ASSUME TranslatorInit PROVE Sound(t, 0)
  BY DEF TranslatorInit, StreamInv
<1>1. t = [created |-> FALSE, reason |-> "none", items |-> <<>>, first |-> 0,
           thinking |-> 0, text |-> 0, calls |-> <<>>,
           mode |-> "detecting", held |-> <<>>,
           thought |-> <<>>, visible |-> <<>>, client |-> Unread]
  <2>1. Len(<<>>) = 0  OBVIOUS
  <2>2. QED  BY <2>1 DEF TranslatorInit, Fresh
<1>2. /\ t.created = FALSE /\ t.reason = "none" /\ t.items = <<>> /\ t.first = 0
      /\ t.thinking = 0 /\ t.text = 0 /\ t.calls = <<>> /\ t.client = Unread
      /\ Made(t)
  BY <1>1 DEF Made
<1>3. /\ t.client.created = FALSE /\ t.client.added = {} /\ t.client.done = {}
      /\ t.client.odd = {} /\ t.client.ended = "open" /\ t.client.stray = FALSE
  BY <1>2 DEF Unread
<1>4. ShapeOf(t)
  <2>1. t.items \in Seq(Entry) /\ t.first \in 0 .. Len(t.items)  BY <1>2
  <2>2. t.calls \in Seq(Buffer)  BY <1>2
  <2>3. t.thinking \in Nat /\ t.text \in Nat  BY <1>2
  <2>4. t.created \in BOOLEAN  BY <1>2
  <2>5. QED  BY <1>2, <2>1, <2>2, <2>3, <2>4 DEF ShapeOf
<1>5. ToldOf(t)  BY <1>2, <1>3 DEF ToldOf
<1>6. DoneOf(t)  BY <1>2 DEF DoneOf
<1>7. OpenOf(t)  BY <1>2 DEF OpenOf, OpenAt
<1>8. CallsOf(t, 0)  BY <1>2 DEF CallsOf
<1>9. OddOf(t)  BY <1>3 DEF OddOf
<1>10. ClosedOf(t)  BY <1>2 DEF ClosedOf, Fresher
<1>11. QED
  BY <1>4, <1>5, <1>6, <1>7, <1>8, <1>9, <1>10 DEF Sound

LEMMA ReasonSound ==
  ASSUME Sound(t, 0), NEW reason
  PROVE  Sound([Created(t) EXCEPT !.reason = reason], 0)
<1> DEFINE a == Created(t)
           z == [a EXCEPT !.reason = reason]
<1>1. Sound(a, 0) /\ a.created = TRUE  BY CreatedSound
<1> HIDE DEF a
<1>2. Made(a)  BY <1>1 DEF Sound, ShapeOf
<1>3. SameItems(a, z) /\ z.created = a.created /\ z.client = a.client
  BY <1>2 DEF SameItems, Made
<1> HIDE DEF z
<1>4. ToldOf(z)
  BY <1>1, <1>3 DEF Sound, ToldOf, SameItems
<1>5. z.created \in BOOLEAN  BY <1>1, <1>3
<1>6. Sound(z, 0)  BY <1>1, <1>3, <1>4, <1>5, SameItemsSound
<1>7. QED  BY <1>6 DEF z, a

LEMMA ToolSound ==
  ASSUME Sound(t, 0), NEW i \in 1 .. (Len(t.calls) + 1), NEW name \in Tools \cup {"none"},
         ToolChunk(i, name)
  PROVE  Sound(t', 0) /\ stage' = stage
<1> DEFINE a == CallOf(i, name)
<1>1. Sound(a, 0) /\ a.created = TRUE /\ i \in 1 .. Len(a.calls)
  BY CallOfSound
<1> HIDE DEF a
<1>2. CASE Took(a)
  BY <1>1, <1>2 DEF Took
<1>3. ASSUME NEW args \in Grown(a.calls[i].args), Took(Argued(a, i, args))
      PROVE  Sound(t', 0) /\ stage' = stage
  <2>1. args \in {"none", "part", "whole", "spoilt"}
    BY <1>3 DEF Grown
  <2>2. Calls(a, Argued(a, i, args), i)
    BY <1>1, <2>1, ArguedSound
  <2>3. QED  BY <1>3, <2>2 DEF Took, Calls
<1>4. Took(a) \/ \E args \in Grown(a.calls[i].args) : Took(Argued(a, i, args))
  BY DEF ToolChunk, a
<1>5. QED  BY <1>2, <1>3, <1>4

LEMMA LimitSound ==
  ASSUME Sound(t, 0), NEW i \in 1 .. (Len(t.calls) + 1), NEW name \in Tools \cup {"none"},
         LimitExceeded(i, name)
  PROVE  stage' = "over" /\ OrderOf(t') /\ WholeOf(t')
<1> DEFINE a == Flush(Created(t))
           c == CallOf(i, name)
           s == IF i > MaxToolCalls THEN a ELSE c
<1>1. Sound(a, 0) /\ a.calls = t.calls
  BY CreatedSound, FlushSound DEF Continues
<1>2. Sound(c, 0) /\ Grows(t, c)
  BY CallOfSound
<1>3. HandlerFails(s)
  BY DEF LimitExceeded
<1> HIDE DEF a, c
<1>4. Grows(t, a)
  <2>1. Len(t.calls) \in Nat  BY DEF Sound, ShapeOf
  <2>2. QED  BY <1>1, <2>1 DEF Grows, CallItem
<1>5. Made(s) /\ Grows(t, s)
  BY <1>1, <1>2, <1>4 DEF Sound, ShapeOf
<1> HIDE DEF s
<1>6. QED  BY <1>3, <1>5, FailsSound

LEMMA RetrySound ==
  ASSUME Sound(t, 0), Retry
  PROVE  Sound(t', 0) /\ stage' = stage
<1>1. t' = Fresh(t.items, TRUE, t.client) /\ stage' = stage /\ t.items # <<>> /\ OnlyThinking(t)
  BY DEF Retry
<1>2. /\ t'.created = TRUE /\ t'.items = t.items /\ t'.first = Len(t.items)
      /\ t'.thinking = 0 /\ t'.text = 0 /\ t'.calls = <<>> /\ t'.client = t.client
      /\ Made(t')
  BY <1>1 DEF Fresh, Made
<1>3. /\ t.items \in Seq(Entry) /\ Len(t.items) \in Nat /\ t.first \in 0 .. Len(t.items)
      /\ t.created = TRUE
  BY <1>1 DEF Sound, ShapeOf, ToldOf
<1>4. \A i \in 1 .. Len(t.calls) : FALSE
  <2>1. \A i \in 1 .. Len(t.calls) :
          CallItem(t, i) \in Fresher(t) /\ t.items[CallItem(t, i)].kind = "call"
    BY DEF Sound, CallsOf
  <2>2. Fresher(t) \subseteq 1 .. Len(t.items)  BY <1>3 DEF Fresher
  <2>3. \A j \in 1 .. Len(t.items) : t.items[j].kind = "reasoning"
    BY <1>1 DEF OnlyThinking
  <2>4. QED  BY <2>1, <2>2, <2>3
<1>5. t.client.odd = {}
  BY <1>4 DEF Sound, OddOf
<1>6. ShapeOf(t')
  <2>1. t'.items \in Seq(Entry) /\ t'.first \in 0 .. Len(t'.items)  BY <1>2, <1>3
  <2>2. t'.calls \in Seq(Buffer)  BY <1>2
  <2>3. t'.thinking \in Nat /\ t'.text \in Nat  BY <1>2
  <2>4. t'.created \in BOOLEAN  BY <1>2
  <2>5. QED  BY <1>2, <2>1, <2>2, <2>3, <2>4 DEF ShapeOf
<1>7. ToldOf(t')
  BY <1>2, <1>3 DEF Sound, ToldOf
<1>8. DoneOf(t')  BY <1>2 DEF Sound, DoneOf
<1>9. OpenOf(t')  BY <1>2 DEF OpenOf, OpenAt
<1>10. CallsOf(t', 0)  BY <1>2 DEF CallsOf
<1>11. OddOf(t')  BY <1>2, <1>5 DEF OddOf
<1>12. ClosedOf(t')  BY <1>2, <1>3 DEF ClosedOf, Fresher
<1>13. QED
  BY <1>1, <1>6, <1>7, <1>8, <1>9, <1>10, <1>11, <1>12 DEF Sound

LEMMA StreamStep == StreamInv /\ [TranslatorNext]_translatorVars => StreamInv'
<1> SUFFICES ASSUME StreamInv, [TranslatorNext]_translatorVars PROVE StreamInv'
  OBVIOUS
<1>1. CASE UNCHANGED translatorVars
  BY <1>1 DEF StreamInv, translatorVars, Sound, ShapeOf, Made, ToldOf, DoneOf, OpenOf, OpenAt,
     CallsOf, OddOf, ClosedOf, Fresher, CallItem, OrderOf, WholeOf, OnlyThinking
<1>2. CASE TranslatorNext
  <2>1. stage = "reading" /\ Sound(t, 0)
    BY <1>2 DEF TranslatorNext, StreamInv, EmptyChunk, ReasonChunk, ReasoningChunk,
       ContentChunk, ToolChunk, LimitExceeded, UpstreamFails, HandlerFails, Took, Retry,
       StreamEnds
  <2> DEFINE Going == Sound(t', 0) /\ stage' = stage
             Over == stage' = "over" /\ OrderOf(t') /\ WholeOf(t')
  <2>2. SUFFICES Going \/ Over
    BY <2>1 DEF StreamInv
  <2>3. Sound(Created(t), 0) /\ Created(t).created = TRUE
    BY <2>1, CreatedSound
  <2>4. CASE EmptyChunk
    BY <2>3, <2>4 DEF EmptyChunk, Took
  <2>5. ASSUME NEW reason, ReasonChunk(reason) PROVE Going
    BY <2>1, <2>5, ReasonSound DEF ReasonChunk, Took
  <2>6. CASE ReasoningChunk
    <3>1. Continues(Created(t), Think(Created(t), <<"r">>))  BY <2>3, ThinkSound
    <3>2. QED  BY <2>6, <3>1 DEF ReasoningChunk, Took, Continues
  <2>7. ASSUME NEW piece \in Pieces, ContentChunk(piece) PROVE Going
    <3>1. piece \in Seq(STRING)  BY StreamAssumption
    <3>2. Continues(Created(t), Content(Created(t), piece))  BY <2>3, <3>1, ContentSound
    <3>3. QED  BY <2>7, <3>2 DEF ContentChunk, Took, Continues
  <2>8. ASSUME NEW i \in 1 .. (Len(t.calls) + 1), NEW name \in Tools \cup {"none"},
               ToolChunk(i, name) \/ LimitExceeded(i, name)
        PROVE  Going \/ Over
    BY <2>1, <2>8, ToolSound, LimitSound
  <2>9. CASE UpstreamFails
    <3>1. Grows(t, t)  BY <2>1 DEF Grows, Sound, ShapeOf
    <3>2. Made(t)  BY <2>1 DEF Sound, ShapeOf
    <3>3. QED  BY <2>1, <2>9, <3>1, <3>2, FailsSound DEF UpstreamFails
  <2>10. CASE Retry
    BY <2>1, <2>10, RetrySound
  <2>11. CASE StreamEnds
    <3>1. OrderOf(Finish(t)) /\ WholeOf(Finish(t))  BY <2>1, FinishSound
    <3>2. QED  BY <2>11, <3>1 DEF StreamEnds
  <2>12. QED
    BY <1>2, <2>4, <2>5, <2>6, <2>7, <2>8, <2>9, <2>10, <2>11 DEF TranslatorNext
<1>3. QED  BY <1>1, <1>2

LEMMA StreamInvMeans == StreamInv => ResponseWellFormed
<1> SUFFICES ASSUME StreamInv PROVE ResponseWellFormed
  OBVIOUS
<1>1. OrderOf(t) /\ WholeOf(t)
  <2>1. CASE stage = "reading"
    <3>1. t.client.stray = FALSE /\ t.client.ended = "open" /\ OddOf(t)
      BY <2>1 DEF StreamInv, Sound, ToldOf
    <3>2. QED  BY <3>1 DEF OrderOf, OddOf, WholeOf
  <2>2. CASE stage # "reading"
    BY <2>2 DEF StreamInv
  <2>3. QED  BY <2>1, <2>2
<1>2. EventsInOrder
  BY <1>1 DEF OrderOf, EventsInOrder, CallItem
<1>3. CompletedWhole
  BY <1>1 DEF WholeOf, CompletedWhole, Fresher, DoneOf
<1>4. QED  BY <1>2, <1>3 DEF ResponseWellFormed

(* Whatever an upstream streams and however it is cut: the client is told of *)
(* each item once, of its pieces while it is open, and of one end; what is   *)
(* called complete has an answer, whole calls and no item left open.         *)
THEOREM StreamTheorem == TranslatorSpec => []ResponseWellFormed
<1>1. TranslatorInit => StreamInv  BY StreamStart
<1>2. StreamInv /\ [TranslatorNext]_translatorVars => StreamInv'  BY StreamStep
<1>3. StreamInv => ResponseWellFormed  BY StreamInvMeans
<1>4. QED  BY <1>1, <1>2, <1>3, PTL DEF TranslatorSpec

-----------------------------------------------------------------------------
(* Where a tag is in a text. *)

Tag(x) == <<"<", x, ">">>

TagAt(s, i, x) ==
    i \in 1 .. (Len(s) - 2) /\ s[i] = "<" /\ s[i + 1] = x /\ s[i + 2] = ">"

LEMMA Cut ==
  ASSUME NEW S, NEW s \in Seq(S), NEW i \in Nat \ {0}, NEW j \in 0 .. Len(s)
  PROVE  /\ SubSeq(s, i, j) \in Seq(S)
         /\ Len(SubSeq(s, i, j)) = IF i <= j THEN j - i + 1 ELSE 0
         /\ \A k \in 1 .. (j - i + 1) : SubSeq(s, i, j)[k] = s[i + k - 1]
<1>1. \A k \in i .. j : s[k] \in S
  <2>1. Len(s) \in Nat  OBVIOUS
  <2>2. TAKE k \in i .. j
  <2>3. k \in 1 .. Len(s)  BY <2>1
  <2>4. QED  BY <2>3, ElementOfSeq
<1>2. i \in Int /\ j \in Int  OBVIOUS
<1>3. \A k \in 1 .. (j - i + 1) : SubSeq(s, i, j)[k] = s[i + k - 1]
  <2>1. \A k \in 1 .. (j - i + 1) : SubSeq(s, i, j)[k] = s[(i + k) - 1]
    BY <1>1, <1>2, SubSeqProperties
  <2>2. QED  BY <2>1
<1>4. QED  BY <1>1, <1>2, <1>3, SubSeqProperties

LEMMA IsTag ==
  ASSUME NEW S, NEW s \in Seq(S), NEW x
  PROVE  s = Tag(x) <=> Len(s) = 3 /\ s[1] = "<" /\ s[2] = x /\ s[3] = ">"
BY DEF Tag

LEMMA HasAt ==
  ASSUME NEW S, NEW s \in Seq(S), NEW x
  PROVE  Has(s, Tag(x)) <=> \E i \in 1 .. Len(s) : TagAt(s, i, x)
<1> DEFINE n == Len(s)
<1>0. n \in Nat  OBVIOUS
<1>1. ASSUME Has(s, Tag(x)) PROVE \E i \in 1 .. n : TagAt(s, i, x)
  <2>1. PICK i, j \in 0 .. n : Tag(x) = SubSeq(s, i + 1, j)
    BY <1>1 DEF Has, SubSeqs
  <2> DEFINE w == SubSeq(s, i + 1, j)
  <2>2. /\ w \in Seq(S) /\ Len(w) = IF i + 1 <= j THEN j - (i + 1) + 1 ELSE 0
        /\ \A k \in 1 .. (j - (i + 1) + 1) : w[k] = s[(i + 1) + k - 1]
    <3>1. PICK m \in Nat \ {0} : m = i + 1  BY <1>0
    <3>2. QED  BY <3>1, Cut
  <2> HIDE DEF w
  <2>3. Len(w) = 3 /\ w[1] = "<" /\ w[2] = x /\ w[3] = ">"
    <3>1. w = Tag(x)  BY <2>1 DEF w
    <3>2. QED  BY <2>2, <3>1, IsTag
  <2>4. j = i + 3
    <3>1. 3 = IF i + 1 <= j THEN j - (i + 1) + 1 ELSE 0  BY <2>2, <2>3
    <3>2. QED  BY <1>0, <3>1
  <2>5. w[1] = s[i + 1] /\ w[2] = s[i + 1 + 1] /\ w[3] = s[i + 1 + 2]
    BY <1>0, <2>2, <2>4
  <2>6. TagAt(s, i + 1, x)
    BY <1>0, <2>3, <2>4, <2>5 DEF TagAt
  <2>7. i + 1 \in 1 .. n  BY <1>0, <2>4
  <2>8. QED  BY <2>6, <2>7
<1>2. ASSUME NEW i \in 1 .. n, TagAt(s, i, x) PROVE Has(s, Tag(x))
  <2>1. i \in 1 .. (n - 2) /\ s[i] = "<" /\ s[i + 1] = x /\ s[i + 2] = ">"
    BY <1>2 DEF TagAt
  <2> DEFINE w == SubSeq(s, i, i + 2)
  <2>2. /\ w \in Seq(S) /\ Len(w) = 3
        /\ w[1] = s[i] /\ w[2] = s[i + 1] /\ w[3] = s[i + 2]
    <3>1. PICK j \in 0 .. n : j = i + 2  BY <1>0, <2>1
    <3>2. /\ w \in Seq(S) /\ Len(w) = IF i <= j THEN j - i + 1 ELSE 0
          /\ \A k \in 1 .. (j - i + 1) : w[k] = s[i + k - 1]
      BY <3>1, Cut
    <3>3. Len(w) = 3  BY <3>1, <3>2
    <3>4. \A k \in 1 .. 3 : w[k] = s[i + k - 1]  BY <3>1, <3>2
    <3>5. 1 \in 1 .. 3 /\ 2 \in 1 .. 3 /\ 3 \in 1 .. 3  OBVIOUS
    <3> HIDE DEF w
    <3>6. w[1] = s[i + 1 - 1] /\ w[2] = s[i + 2 - 1] /\ w[3] = s[i + 3 - 1]
      BY <3>4, <3>5
    <3>7. i + 1 - 1 = i /\ i + 2 - 1 = i + 1 /\ i + 3 - 1 = i + 2  BY <1>0
    <3>8. QED  BY <3>2, <3>3, <3>6, <3>7
  <2> HIDE DEF w
  <2>3. w = Tag(x)
    BY <2>1, <2>2, IsTag
  <2>5. w \in SubSeqs(s)
    <3>1. PICK a \in 0 .. n, b \in 0 .. n : a + 1 = i /\ b = i + 2
      <4>1. i - 1 \in 0 .. n /\ i + 2 \in 0 .. n /\ (i - 1) + 1 = i  BY <1>0, <2>1
      <4>2. QED  BY <4>1
    <3>2. w = SubSeq(s, a + 1, b)  BY <3>1 DEF w
    <3>3. QED  BY <3>2 DEF SubSeqs
  <2>6. QED  BY <2>3, <2>5 DEF Has
<1>3. QED  BY <1>1, <1>2

(* What comes before the first tag and after it.                             *)
LEMMA FirstAt ==
  ASSUME NEW S, NEW s \in Seq(S), NEW x, NEW k, TagAt(s, k, x),
         \A i \in 1 .. Len(s) : TagAt(s, i, x) => k <= i
  PROVE  /\ IndexFirstSubSeq(Tag(x), s) = k
         /\ Before(s, Tag(x)) = SubSeq(s, 1, k - 1)
         /\ After(s, Tag(x)) = SubSeq(s, k + 3, Len(s))
<1> DEFINE n == Len(s)
           Holds(i) == Tag(x) \in SubSeqs(SubSeq(s, 1, i))
           Q(i) == Holds(i) /\ \A j \in 0 .. i - 1 : ~Holds(j)
           last == CHOOSE i \in 0 .. n : Q(i)
<1>0. n \in Nat /\ k \in 1 .. (n - 2)  BY DEF TagAt
<1>1. ASSUME NEW i \in 0 .. n PROVE Holds(i) <=> k + 2 <= i
  <2> DEFINE w == SubSeq(s, 1, i)
  <2>1. w \in Seq(S) /\ Len(w) = i /\ \A m \in 1 .. i : w[m] = s[m]
    <3>1. PICK a \in Nat \ {0} : a = 1  OBVIOUS
    <3>2. /\ w \in Seq(S) /\ Len(w) = (IF a <= i THEN i - a + 1 ELSE 0)
          /\ \A m \in 1 .. (i - a + 1) : w[m] = s[a + m - 1]
      BY <3>1, Cut
    <3>3. Len(w) = i  BY <3>1, <3>2
    <3>4. \A m \in 1 .. i : w[m] = s[m]
      <4> TAKE m \in 1 .. i
      <4>1. m \in 1 .. (i - a + 1) /\ a + m - 1 = m  BY <3>1
      <4> HIDE DEF w
      <4>2. QED  BY <3>2, <4>1
    <3>5. QED  BY <3>2, <3>3, <3>4
  <2> HIDE DEF w
  <2>2. \A m : TagAt(w, m, x) <=> TagAt(s, m, x) /\ m + 2 <= i
    BY <1>0, <2>1, SMTT(60) DEF TagAt
  <2>3. Has(w, Tag(x)) <=> \E m \in 1 .. i : TagAt(w, m, x)
    BY <2>1, HasAt
  <2>4. (\E m \in 1 .. i : TagAt(w, m, x)) <=> k + 2 <= i
    <3>1. ASSUME NEW m \in 1 .. i, TagAt(w, m, x) PROVE k + 2 <= i
      <4>1. TagAt(s, m, x) /\ m + 2 <= i  BY <3>1, <2>2
      <4>2. k <= m  BY <4>1, <1>0
      <4>3. QED  BY <1>0, <4>1, <4>2
    <3>2. ASSUME k + 2 <= i PROVE k \in 1 .. i /\ TagAt(w, k, x)
      BY <1>0, <2>2, <3>2
    <3>3. QED  BY <3>1, <3>2
  <2>5. QED  BY <2>3, <2>4 DEF Has, w
<1> HIDE DEF Holds
<1>2. \A i \in 0 .. n : Q(i) <=> i = k + 2
  <2> TAKE i \in 0 .. n
  <2>1. \A j \in 0 .. i - 1 : j \in 0 .. n  BY <1>0
  <2>2. ASSUME Q(i) PROVE i = k + 2
    <3>1. k + 2 <= i  BY <1>1, <2>2
    <3>2. SUFFICES ASSUME k + 2 # i PROVE FALSE  OBVIOUS
    <3>3. k + 2 \in 0 .. i - 1 /\ k + 2 \in 0 .. n  BY <1>0, <3>1, <3>2
    <3>4. PICK j \in 0 .. n : j = k + 2 /\ j \in 0 .. i - 1  BY <3>3
    <3>5. Holds(j)  BY <1>0, <1>1, <3>4
    <3>6. QED  BY <2>2, <3>4, <3>5
  <2>3. ASSUME i = k + 2 PROVE Q(i)
    <3>1. Holds(i)  BY <1>0, <1>1, <2>3
    <3>2. \A j \in 0 .. i - 1 : ~(k + 2 <= j)  BY <1>0, <2>3
    <3>3. QED  BY <1>1, <2>1, <3>1, <3>2
  <2>4. QED  BY <2>2, <2>3
<1> HIDE DEF Q
<1>3. last = k + 2
  <2>1. k + 2 \in 0 .. n  BY <1>0
  <2>2. last \in 0 .. n /\ Q(last)  BY <1>2, <2>1
  <2>3. QED  BY <1>2, <2>2
<1>4. Len(Tag(x)) = 3  BY DEF Tag
<1>5. IndexFirstSubSeq(Tag(x), s) = last - (Len(Tag(x)) - 1)
  BY DEF IndexFirstSubSeq, Q, Holds
<1> HIDE DEF last
<1>6. IndexFirstSubSeq(Tag(x), s) = k
  BY <1>0, <1>3, <1>4, <1>5
<1>7. QED
  BY <1>0, <1>4, <1>6 DEF Before, After

LEMMA HasFirst ==
  ASSUME NEW S, NEW s \in Seq(S), NEW x, Has(s, Tag(x))
  PROVE  \E k \in 1 .. Len(s) :
            TagAt(s, k, x) /\ \A i \in 1 .. Len(s) : TagAt(s, i, x) => k <= i
<1> DEFINE T == {i \in 1 .. Len(s) : TagAt(s, i, x)}
<1>1. T # {}  BY HasAt
<1>2. T \subseteq 1 .. Len(s)  OBVIOUS
<1> HIDE DEF T
<1>3. T \in SUBSET Nat  BY <1>2
<1>4. PICK k \in T : \A m \in T : k <= m  BY <1>1, <1>3, LeastNatural
<1>5. QED  BY <1>4 DEF T

(* The beginnings of a tag. *)
Begins(w, x) ==
    /\ Len(w) <= 3
    /\ Len(w) >= 1 => w[1] = "<"
    /\ Len(w) >= 2 => w[2] = x
    /\ Len(w) >= 3 => w[3] = ">"

LEMMA TagPrefixes ==
  ASSUME NEW S, NEW w \in Seq(S), NEW x
  PROVE  /\ IsPrefix(w, Tag(x)) <=> Begins(w, x)
         /\ IsPrefix(Tag(x), w) <=> TagAt(w, 1, x)
<1> DEFINE U == S \cup {"<", x, ">"}
           g == Tag(x)
<1>1. Len(w) \in Nat /\ w \in Seq(U)
  <2>1. S \subseteq U  OBVIOUS
  <2> HIDE DEF U
  <2>2. QED  BY <2>1, SeqMonotonic
<1>2. g \in Seq(U) /\ Len(g) = 3 /\ g[1] = "<" /\ g[2] = x /\ g[3] = ">"
  BY DEF Tag
<1> HIDE DEF U, g
<1>3. SubSeq(w, 1, Len(w)) = w  BY SubSeqFull
<1>4. SubSeq(g, 1, Len(g)) = g  BY <1>2, SubSeqFull
<1>5. IsPrefix(w, g) <=> Begins(w, x)
  <2>1. CASE Len(w) <= 3
    <3> DEFINE y == SubSeq(g, 1, Len(w))
    <3>1. y \in Seq(U) /\ Len(y) = Len(w) /\ \A k \in 1 .. Len(w) : y[k] = g[k]
      <4>0. 1 \in Nat \ {0} /\ Len(w) \in 0 .. Len(g)
        <5>1. \A m \in Nat : m <= 3 => m \in 0 .. 3  OBVIOUS
        <5>2. Len(w) \in 0 .. 3  BY <1>1, <2>1, <5>1
        <5>3. QED  BY <1>2, <5>2
      <4>1. PICK a \in Nat \ {0}, j \in 0 .. Len(g) : a = 1 /\ j = Len(w)
        BY <4>0
      <4>2. /\ SubSeq(g, a, j) \in Seq(U) /\ Len(SubSeq(g, a, j)) = (IF a <= j THEN j - a + 1 ELSE 0)
            /\ \A k \in 1 .. (j - a + 1) : SubSeq(g, a, j)[k] = g[a + k - 1]
        BY <1>2, Cut, ZenonT(60)
      <4>3. y = SubSeq(g, a, j)  BY <4>1
      <4> HIDE DEF y
      <4>4. \A k \in 1 .. Len(w) : k \in 1 .. (j - a + 1) /\ a + k - 1 = k  BY <4>1
      <4>5. Len(y) = Len(w)  BY <4>1, <4>2, <4>3
      <4>6. QED  BY <4>2, <4>3, <4>4, <4>5
    <3> HIDE DEF y
    <3>2. w = y <=> \A k \in 1 .. Len(w) : w[k] = g[k]
      BY <1>1, <3>1, SeqEqual
    <3>3. (\A k \in 1 .. Len(w) : w[k] = g[k]) <=> Begins(w, x)
      <4>0. \A m \in Nat : m <= 3 => m = 0 \/ m = 1 \/ m = 2 \/ m = 3  OBVIOUS
      <4>1. Len(w) = 0 \/ Len(w) = 1 \/ Len(w) = 2 \/ Len(w) = 3  BY <1>1, <2>1, <4>0
      <4>2. CASE Len(w) = 0  BY <4>2 DEF Begins
      <4>3. CASE Len(w) = 1
        <5>1. \A k : k \in 1 .. Len(w) <=> k = 1  BY <4>3
        <5>2. QED  BY <1>2, <4>3, <5>1 DEF Begins
      <4>4. CASE Len(w) = 2
        <5>1. \A k : k \in 1 .. Len(w) <=> k = 1 \/ k = 2  BY <4>4
        <5>2. QED  BY <1>2, <4>4, <5>1 DEF Begins
      <4>5. CASE Len(w) = 3
        <5>1. \A k : k \in 1 .. Len(w) <=> k = 1 \/ k = 2 \/ k = 3  BY <4>5
        <5>2. QED  BY <1>2, <4>5, <5>1 DEF Begins
      <4>6. QED  BY <4>1, <4>2, <4>3, <4>4, <4>5
    <3>4. IsPrefix(w, g) <=> w = y
      BY <1>2, <1>3, <2>1 DEF IsPrefix, y
    <3>5. QED  BY <3>2, <3>3, <3>4
  <2>2. CASE ~(Len(w) <= 3)
    BY <1>2, <2>2 DEF IsPrefix, Begins
  <2>3. QED  BY <2>1, <2>2
<1>6. IsPrefix(g, w) <=> TagAt(w, 1, x)
  <2>1. CASE 3 <= Len(w)
    <3> DEFINE y == SubSeq(w, 1, Len(g))
    <3>1. y \in Seq(S) /\ Len(y) = 3 /\ y[1] = w[1] /\ y[2] = w[2] /\ y[3] = w[3]
      <4>1. PICK a \in Nat \ {0}, j \in 0 .. Len(w) : a = 1 /\ j = Len(g) /\ j = 3
        BY <1>1, <1>2, <2>1
      <4>2. /\ SubSeq(w, a, j) \in Seq(S) /\ Len(SubSeq(w, a, j)) = (IF a <= j THEN j - a + 1 ELSE 0)
            /\ \A k \in 1 .. (j - a + 1) : SubSeq(w, a, j)[k] = w[a + k - 1]
        BY Cut
      <4>3. y = SubSeq(w, a, j)  BY <4>1
      <4> HIDE DEF y
      <4>4. Len(y) = 3  BY <4>1, <4>2, <4>3
      <4>5. \A k \in 1 .. 3 : k \in 1 .. (j - a + 1) /\ a + k - 1 = k  BY <4>1
      <4>6. \A k \in 1 .. 3 : y[k] = w[k]  BY <4>2, <4>3, <4>5
      <4>7. QED  BY <4>2, <4>3, <4>4, <4>6
    <3>2. IsPrefix(g, w) <=> g = y
      BY <1>2, <1>4, <2>1 DEF IsPrefix
    <3> HIDE DEF y
    <3>3. y = g <=> w[1] = "<" /\ w[2] = x /\ w[3] = ">"
      BY <3>1, IsTag DEF g
    <3>4. TagAt(w, 1, x) <=> w[1] = "<" /\ w[2] = x /\ w[3] = ">"
      BY <1>1, <2>1 DEF TagAt
    <3>5. QED  BY <3>2, <3>3, <3>4
  <2>2. CASE ~(3 <= Len(w))
    BY <1>1, <1>2, <2>2 DEF IsPrefix, TagAt
  <2>3. QED  BY <2>1, <2>2
<1>7. QED  BY <1>5, <1>6 DEF g

LEMMA StrictPrefixes ==
  ASSUME NEW S, NEW w \in Seq(S), NEW x
  PROVE  /\ IsStrictPrefix(w, Tag(x)) <=> Begins(w, x) /\ Len(w) <= 2
         /\ IsStrictPrefix(Tag(x), w) <=> TagAt(w, 1, x) /\ Len(w) > 3
<1>1. Len(w) \in Nat  OBVIOUS
<1>2. w = Tag(x) <=> Len(w) = 3 /\ w[1] = "<" /\ w[2] = x /\ w[3] = ">"
  BY IsTag
<1>3. /\ IsPrefix(w, Tag(x)) <=> Begins(w, x)
      /\ IsPrefix(Tag(x), w) <=> TagAt(w, 1, x)
  BY TagPrefixes
<1>0. PICK n \in Nat : n = Len(w)  OBVIOUS
<1> DEFINE Whole == n = 3 /\ w[1] = "<" /\ w[2] = x /\ w[3] = ">"
<1>4. Begins(w, x) /\ ~Whole <=> Begins(w, x) /\ n <= 2
  <2>1. Begins(w, x) <=> /\ n <= 3 /\ (n >= 1 => w[1] = "<")
                         /\ (n >= 2 => w[2] = x) /\ (n >= 3 => w[3] = ">")
    BY <1>0 DEF Begins
  <2>2. QED  BY <2>1
<1>5. TagAt(w, 1, x) /\ ~Whole <=> TagAt(w, 1, x) /\ n > 3
  <2>1. TagAt(w, 1, x) <=> n >= 3 /\ w[1] = "<" /\ w[2] = x /\ w[3] = ">"
    BY <1>0 DEF TagAt
  <2>2. QED  BY <2>1
<1>6. /\ IsStrictPrefix(w, Tag(x)) <=> IsPrefix(w, Tag(x)) /\ w # Tag(x)
      /\ IsStrictPrefix(Tag(x), w) <=> IsPrefix(Tag(x), w) /\ w # Tag(x)
  BY Zenon DEF IsStrictPrefix
<1>7. w = Tag(x) <=> Whole  BY <1>0, <1>2
<1> HIDE DEF Whole
<1>8. QED  BY <1>0, <1>3, <1>4, <1>5, <1>6, <1>7, Zenon

(* What is kept is the end of the text that may become the closing tag.      *)
LEMMA KeepIs ==
  ASSUME NEW S, NEW s \in Seq(S)
  PROVE  LET n == Len(s)
         IN Keep(s) = IF n >= 2 /\ s[n - 1] = "<" /\ s[n] = "c" THEN 2
                      ELSE IF n >= 1 /\ s[n] = "<" THEN 1 ELSE 0
<1> DEFINE n == Len(s)
           w(m) == SubSeq(s, n - m + 1, n)
           T == {m \in 0 .. (Len(Close) - 1) : m <= n /\ IsPrefix(w(m), Close)}
<1>0. n \in Nat /\ Close = Tag("c")  BY DEF Close, Tag
<1>1. Len(Close) - 1 = 2  BY DEF Close
<1>2. ASSUME NEW m \in 0 .. 2, m <= n
      PROVE  /\ w(m) \in Seq(S) /\ Len(w(m)) = m
             /\ \A k \in 1 .. m : w(m)[k] = s[n - m + k]
  <2>1. PICK a \in Nat \ {0}, j \in 0 .. n : a = n - m + 1 /\ j = n
    <3>1. n - m + 1 \in Nat \ {0} /\ n \in 0 .. n  BY <1>0, <1>2
    <3>2. QED  BY <3>1
  <2>2. /\ SubSeq(s, a, j) \in Seq(S) /\ Len(SubSeq(s, a, j)) = (IF a <= j THEN j - a + 1 ELSE 0)
        /\ \A k \in 1 .. (j - a + 1) : SubSeq(s, a, j)[k] = s[a + k - 1]
    BY Cut
  <2>3. w(m) = SubSeq(s, a, j)  BY <2>1
  <2> HIDE DEF w
  <2>4. Len(w(m)) = m  BY <1>0, <2>1, <2>2, <2>3
  <2>5. \A k \in 1 .. m : k \in 1 .. (j - a + 1) /\ a + k - 1 = n - m + k
    BY <1>0, <2>1
  <2>6. \A k \in 1 .. m : w(m)[k] = s[n - m + k]
    BY <2>2, <2>3, <2>5
  <2>7. QED  BY <2>2, <2>3, <2>4, <2>6
<1> HIDE DEF w
<1>3. ASSUME NEW m \in 0 .. 2, m <= n
      PROVE  IsPrefix(w(m), Close) <=> Begins(w(m), "c")
  <2>1. w(m) \in Seq(S)  BY <1>2, <1>3
  <2>2. QED  BY <1>0, <2>1, TagPrefixes
<1>4. 0 \in T
  <2>1. PICK m \in 0 .. 2 : m = 0 /\ m <= n  BY <1>0
  <2>2. Begins(w(m), "c")  BY <1>2, <2>1 DEF Begins
  <2>3. QED  BY <1>1, <1>3, <2>1, <2>2
<1>5. 1 \in T <=> n >= 1 /\ s[n] = "<"
  <2>1. PICK m \in 0 .. 2 : m = 1  OBVIOUS
  <2>2. ASSUME n >= 1 PROVE Begins(w(m), "c") <=> s[n] = "<"
    <3>1. m <= n /\ 1 \in 1 .. m /\ n - m + 1 = n  BY <1>0, <2>1, <2>2
    <3>2. Len(w(m)) = 1 /\ w(m)[1] = s[n]  BY <1>2, <2>1, <3>1
    <3>3. QED  BY <3>2 DEF Begins
  <2>3. m \in T <=> m <= n /\ IsPrefix(w(m), Close)
    BY <1>1
  <2> HIDE DEF T
  <2>4. QED  BY <1>0, <1>3, <2>1, <2>2, <2>3
<1>6. 2 \in T <=> n >= 2 /\ s[n - 1] = "<" /\ s[n] = "c"
  <2>1. PICK m \in 0 .. 2 : m = 2  OBVIOUS
  <2>2. ASSUME n >= 2 PROVE Begins(w(m), "c") <=> s[n - 1] = "<" /\ s[n] = "c"
    <3>1. m <= n /\ 1 \in 1 .. m /\ 2 \in 1 .. m /\ n - m + 1 = n - 1 /\ n - m + 2 = n
      BY <1>0, <2>1, <2>2
    <3>2. Len(w(m)) = 2 /\ w(m)[1] = s[n - 1] /\ w(m)[2] = s[n]  BY <1>2, <2>1, <3>1
    <3>3. QED  BY <3>2 DEF Begins
  <2>3. m \in T <=> m <= n /\ IsPrefix(w(m), Close)
    BY <1>1
  <2> HIDE DEF T
  <2>4. QED  BY <1>0, <1>3, <2>1, <2>2, <2>3
<1>7. T \subseteq {0, 1, 2}
  <2>1. T \subseteq 0 .. (Len(Close) - 1)  OBVIOUS
  <2> HIDE DEF T
  <2>2. \A m \in 0 .. 2 : m = 0 \/ m = 1 \/ m = 2  OBVIOUS
  <2>3. QED  BY <1>1, <2>1, <2>2
<1>8. Keep(s) = CHOOSE x \in T : \A y \in T : x >= y
  BY DEF Keep, Max, w
<1> HIDE DEF T
<1>9. \A x \in T, z \in T : (\A y \in T : x >= y) /\ (\A y \in T : z >= y) => x = z
  BY <1>7
<1>10. ASSUME NEW x \in T, \A y \in T : x >= y PROVE Keep(s) = x
  <2>1. Keep(s) \in T /\ \A y \in T : Keep(s) >= y  BY <1>8, <1>10
  <2>2. QED  BY <1>9, <1>10, <2>1
<1>11. CASE 2 \in T
  <2>1. \A y \in T : 2 >= y  BY <1>7
  <2>2. Keep(s) = 2  BY <1>10, <1>11, <2>1
  <2>3. QED  BY <1>6, <1>11, <2>2
<1>12. CASE 2 \notin T /\ 1 \in T
  <2>1. \A y \in T : 1 >= y  BY <1>7, <1>12
  <2>2. Keep(s) = 1  BY <1>10, <1>12, <2>1
  <2>3. QED  BY <1>5, <1>6, <1>12, <2>2
<1>13. CASE 2 \notin T /\ 1 \notin T
  <2>1. \A y \in T : 0 >= y  BY <1>7, <1>13
  <2>2. Keep(s) = 0  BY <1>4, <1>10, <2>1
  <2>3. QED  BY <1>5, <1>6, <1>13, <2>2
<1>14. QED  BY <1>11, <1>12, <1>13

(* Three texts one after the other.                                          *)
Regrouped(a, b, c) == (a \o b) \o c = a \o (b \o c)

LEMMA Regroups ==
  ASSUME NEW S, NEW a \in Seq(S), NEW b \in Seq(S), NEW c \in Seq(S)
  PROVE  Regrouped(a, b, c)
BY ConcatAssociative DEF Regrouped

LEMMA Glued ==
  ASSUME NEW S, NEW x \in Seq(S), NEW y \in Seq(S)
  PROVE  /\ x \o y \in Seq(S) /\ Len(x \o y) = Len(x) + Len(y)
         /\ \A i \in 1 .. Len(x) : (x \o y)[i] = x[i]
         /\ \A i \in 1 .. Len(y) : (x \o y)[Len(x) + i] = y[i]
<1>1. /\ x \o y \in Seq(S) /\ Len(x \o y) = Len(x) + Len(y)
      /\ \A i \in 1 .. Len(x) + Len(y) :
            (x \o y)[i] = IF i <= Len(x) THEN x[i] ELSE y[i - Len(x)]
  BY ConcatProperties
<1>2. PICK m, n \in Nat : m = Len(x) /\ n = Len(y)  OBVIOUS
<1> DEFINE z == x \o y
<1> HIDE DEF z
<1>3. \A i \in 1 .. m + n : z[i] = IF i <= m THEN x[i] ELSE y[i - m]
  BY <1>1, <1>2 DEF z
<1>4. \A i \in 1 .. m : z[i] = x[i]  BY <1>2, <1>3
<1>5. \A i \in 1 .. n : z[m + i] = y[i]
  <2> TAKE i \in 1 .. n
  <2>1. m + i \in 1 .. m + n /\ ~(m + i <= m) /\ (m + i) - m = i  BY <1>2
  <2>2. QED  BY <1>3, <2>1
<1>6. QED  BY <1>1, <1>2, <1>4, <1>5 DEF z

(* Text that is added does not move a tag.                                   *)
LEMMA TagStays ==
  ASSUME NEW S, NEW p \in Seq(S), NEW d \in Seq(S), NEW x
  PROVE  /\ \A i : TagAt(p, i, x) => TagAt(p \o d, i, x)
         /\ \A i : TagAt(p \o d, i, x) /\ i + 2 <= Len(p) => TagAt(p, i, x)
         /\ \A i : TagAt(d, i, x) => TagAt(p \o d, Len(p) + i, x)
         /\ \A i : TagAt(p \o d, i, x) /\ i > Len(p) => TagAt(d, i - Len(p), x)
<1> DEFINE z == p \o d
<1>1. /\ z \in Seq(S) /\ Len(z) = Len(p) + Len(d)
      /\ \A i \in 1 .. Len(p) : z[i] = p[i]
      /\ \A i \in 1 .. Len(d) : z[Len(p) + i] = d[i]
  BY Glued
<1> HIDE DEF z
<1>2. PICK m, n \in Nat : m = Len(p) /\ n = Len(d)  OBVIOUS
<1>3. /\ Len(z) = m + n
      /\ \A i \in 1 .. m : z[i] = p[i]
      /\ \A i \in 1 .. n : z[m + i] = d[i]
  BY <1>1, <1>2
<1>4. /\ \A i : TagAt(p, i, x) <=>
            i \in 1 .. (m - 2) /\ p[i] = "<" /\ p[i + 1] = x /\ p[i + 2] = ">"
      /\ \A i : TagAt(d, i, x) <=>
            i \in 1 .. (n - 2) /\ d[i] = "<" /\ d[i + 1] = x /\ d[i + 2] = ">"
      /\ \A i : TagAt(z, i, x) <=>
            i \in 1 .. (m + n - 2) /\ z[i] = "<" /\ z[i + 1] = x /\ z[i + 2] = ">"
  BY <1>2, <1>3 DEF TagAt
<1>5. ASSUME NEW i, TagAt(p, i, x) PROVE TagAt(z, i, x)
  <2>1. i \in 1 .. (m - 2) /\ p[i] = "<" /\ p[i + 1] = x /\ p[i + 2] = ">"
    BY <1>4, <1>5
  <2>2. i \in 1 .. m /\ i + 1 \in 1 .. m /\ i + 2 \in 1 .. m /\ i \in 1 .. (m + n - 2)
    BY <1>2, <2>1
  <2>3. z[i] = p[i] /\ z[i + 1] = p[i + 1] /\ z[i + 2] = p[i + 2]  BY <1>3, <2>2
  <2>4. QED  BY <1>4, <2>1, <2>2, <2>3
<1>6. ASSUME NEW i, TagAt(z, i, x), i + 2 <= m PROVE TagAt(p, i, x)
  <2>1. i \in 1 .. (m + n - 2) /\ z[i] = "<" /\ z[i + 1] = x /\ z[i + 2] = ">"
    BY <1>4, <1>6
  <2>2. i \in 1 .. m /\ i + 1 \in 1 .. m /\ i + 2 \in 1 .. m /\ i \in 1 .. (m - 2)
    BY <1>2, <1>6, <2>1
  <2>3. z[i] = p[i] /\ z[i + 1] = p[i + 1] /\ z[i + 2] = p[i + 2]  BY <1>3, <2>2
  <2>4. QED  BY <1>4, <2>1, <2>2, <2>3
<1>7. ASSUME NEW i, TagAt(d, i, x) PROVE TagAt(z, m + i, x)
  <2>1. i \in 1 .. (n - 2) /\ d[i] = "<" /\ d[i + 1] = x /\ d[i + 2] = ">"
    BY <1>4, <1>7
  <2>2. /\ i \in 1 .. n /\ i + 1 \in 1 .. n /\ i + 2 \in 1 .. n
        /\ m + i \in 1 .. (m + n - 2)
        /\ m + i + 1 = m + (i + 1) /\ m + i + 2 = m + (i + 2)
    BY <1>2, <2>1
  <2>3. z[m + i] = d[i] /\ z[m + i + 1] = d[i + 1] /\ z[m + i + 2] = d[i + 2]
    BY <1>3, <2>2
  <2>4. QED  BY <1>4, <2>1, <2>2, <2>3, SMTT(60)
<1>8. ASSUME NEW i, TagAt(z, i, x), i > m PROVE TagAt(d, i - m, x)
  <2>1. i \in 1 .. (m + n - 2) /\ z[i] = "<" /\ z[i + 1] = x /\ z[i + 2] = ">"
    BY <1>4, <1>8
  <2>2. PICK j \in 1 .. (n - 2) : j = i - m
    <3>1. i - m \in 1 .. (n - 2)  BY <1>2, <1>8, <2>1
    <3>2. QED  BY <3>1
  <2>3. /\ j \in 1 .. n /\ j + 1 \in 1 .. n /\ j + 2 \in 1 .. n
        /\ i = m + j /\ i + 1 = m + (j + 1) /\ i + 2 = m + (j + 2)
    BY <1>2, <2>1, <2>2
  <2>4. z[i] = d[j] /\ z[i + 1] = d[j + 1] /\ z[i + 2] = d[j + 2]
    BY <1>3, <2>3
  <2>5. TagAt(d, j, x)  BY <1>4, <2>1, <2>2, <2>4, SMTT(60)
  <2>6. QED  BY <2>2, <2>5
<1>9. QED  BY <1>2, <1>5, <1>6, <1>7, <1>8 DEF z

LEMMA HasMore ==
  ASSUME NEW S, NEW p \in Seq(S), NEW d \in Seq(S), NEW x
  PROVE  /\ Has(p, Tag(x)) => Has(p \o d, Tag(x))
         /\ Has(d, Tag(x)) => Has(p \o d, Tag(x))
<1> DEFINE z == p \o d
<1>0. z \in Seq(S) /\ Len(z) = Len(p) + Len(d)  BY Glued
<1>1. /\ \A i : TagAt(p, i, x) => TagAt(z, i, x)
      /\ \A i : TagAt(d, i, x) => TagAt(z, Len(p) + i, x)
  BY TagStays
<1> HIDE DEF z
<1>2. Has(z, Tag(x)) <=> \E i \in 1 .. Len(z) : TagAt(z, i, x)  BY <1>0, HasAt
<1>3. \A i : TagAt(z, i, x) => i \in 1 .. Len(z)
  <2>1. PICK m \in Nat : m = Len(z)  BY <1>0
  <2>2. \A i \in 1 .. (m - 2) : i \in 1 .. m  BY <2>1
  <2>3. QED  BY <2>1, <2>2 DEF TagAt
<1>4. Has(p, Tag(x)) => \E i : TagAt(p, i, x)  BY HasAt
<1>5. Has(d, Tag(x)) => \E i : TagAt(d, i, x)  BY HasAt
<1>6. QED  BY <1>1, <1>2, <1>3, <1>4, <1>5 DEF z

(* What comes before the first tag and after it, when text is added.         *)
LEMMA FirstStays ==
  ASSUME NEW S, NEW p \in Seq(S), NEW d \in Seq(S), NEW x, Has(p, Tag(x))
  PROVE  /\ Has(p \o d, Tag(x))
         /\ Before(p \o d, Tag(x)) = Before(p, Tag(x))
         /\ After(p \o d, Tag(x)) = After(p, Tag(x)) \o d
         /\ Before(p, Tag(x)) \in Seq(S) /\ After(p, Tag(x)) \in Seq(S)
<1> DEFINE z == p \o d
<1>0. PICK m, n \in Nat : m = Len(p) /\ n = Len(d)  OBVIOUS
<1>1. /\ z \in Seq(S) /\ Len(z) = m + n
      /\ \A i \in 1 .. m : z[i] = p[i]
      /\ \A i \in 1 .. n : z[m + i] = d[i]
  BY <1>0, Glued
<1>2. PICK k \in 1 .. m :
          TagAt(p, k, x) /\ \A i \in 1 .. m : TagAt(p, i, x) => k <= i
  BY <1>0, HasFirst
<1>3. /\ \A i : TagAt(p, i, x) => TagAt(z, i, x)
      /\ \A i : TagAt(z, i, x) /\ i + 2 <= m => TagAt(p, i, x)
  BY <1>0, TagStays
<1>4. k \in 1 .. (m - 2) /\ k - 1 \in 0 .. m /\ k + 3 \in Nat \ {0} /\ k + 3 <= m + 1
  BY <1>0, <1>2 DEF TagAt
<1>5. \A i \in 1 .. (m + n) : TagAt(z, i, x) => k <= i
  <2>1. SUFFICES ASSUME NEW i \in 1 .. (m + n), TagAt(z, i, x), ~(k <= i) PROVE FALSE
    OBVIOUS
  <2>2. i + 2 <= m /\ i \in 1 .. m  BY <1>0, <1>4, <2>1
  <2>3. QED  BY <1>2, <1>3, <2>1, <2>2
<1> HIDE DEF z
<1>6. Has(z, Tag(x))
  BY HasMore DEF z
<1>7. /\ Before(p, Tag(x)) = SubSeq(p, 1, k - 1) /\ After(p, Tag(x)) = SubSeq(p, k + 3, m)
  BY <1>0, <1>2, FirstAt
<1>8. /\ Before(z, Tag(x)) = SubSeq(z, 1, k - 1) /\ After(z, Tag(x)) = SubSeq(z, k + 3, m + n)
  <2>1. TagAt(z, k, x)  BY <1>2, <1>3
  <2>2. \A i \in 1 .. Len(z) : TagAt(z, i, x) => k <= i  BY <1>1, <1>5
  <2>3. QED  BY <1>1, <2>1, <2>2, FirstAt
<1>9. SubSeq(z, 1, k - 1) = SubSeq(p, 1, k - 1) /\ SubSeq(p, 1, k - 1) \in Seq(S)
  <2>1. PICK a \in Nat \ {0}, j \in 0 .. Len(p) : a = 1 /\ j = k - 1
    BY <1>0, <1>4
  <2>2. j \in 0 .. Len(z)  BY <1>0, <1>1, <2>1
  <2> DEFINE u == SubSeq(p, a, j)
             v == SubSeq(z, a, j)
  <2>3. /\ u \in Seq(S) /\ Len(u) = (IF a <= j THEN j - a + 1 ELSE 0)
        /\ \A i \in 1 .. (j - a + 1) : u[i] = p[a + i - 1]
    BY Cut
  <2>4. /\ v \in Seq(S) /\ Len(v) = (IF a <= j THEN j - a + 1 ELSE 0)
        /\ \A i \in 1 .. (j - a + 1) : v[i] = z[a + i - 1]
    BY <1>1, <2>2, Cut
  <2> HIDE DEF u, v
  <2>5. Len(u) = j /\ Len(v) = j  BY <2>1, <2>3, <2>4
  <2>6. \A i \in 1 .. j : i \in 1 .. (j - a + 1) /\ a + i - 1 = i /\ i \in 1 .. m
    BY <1>0, <1>4, <2>1
  <2>7. \A i \in 1 .. j : u[i] = v[i]
    BY <1>1, <2>3, <2>4, <2>6
  <2>8. u = v  BY <2>3, <2>4, <2>5, <2>7, SeqEqual
  <2>9. QED  BY <2>1, <2>3, <2>8 DEF u, v
<1>10. SubSeq(z, k + 3, m + n) = SubSeq(p, k + 3, m) \o d /\ SubSeq(p, k + 3, m) \in Seq(S)
  <2>1. PICK a \in Nat \ {0}, j \in 0 .. Len(p), h \in 0 .. Len(z) :
            a = k + 3 /\ j = m /\ h = m + n
    <3>1. m \in 0 .. Len(p) /\ m + n \in 0 .. Len(z)  BY <1>0, <1>1
    <3>2. QED  BY <1>4, <3>1
  <2>0. a <= m + 1 /\ a \in Nat  BY <1>4, <2>1
  <2> DEFINE u == SubSeq(p, a, j)
             v == SubSeq(z, a, h)
             w == u \o d
  <2>2. /\ u \in Seq(S) /\ Len(u) = (IF a <= j THEN j - a + 1 ELSE 0)
        /\ \A i \in 1 .. (j - a + 1) : u[i] = p[a + i - 1]
    BY Cut
  <2>3. /\ v \in Seq(S) /\ Len(v) = (IF a <= h THEN h - a + 1 ELSE 0)
        /\ \A i \in 1 .. (h - a + 1) : v[i] = z[a + i - 1]
    BY <1>1, Cut
  <2> HIDE DEF u, v
  <2>4. PICK b \in Nat : b = m - a + 1  BY <1>0, <2>0
  <2>5. Len(u) = b /\ Len(v) = b + n
    <3>1. Len(u) = b  BY <1>0, <2>0, <2>1, <2>2, <2>4
    <3>2. Len(v) = b + n  BY <1>0, <2>0, <2>1, <2>3, <2>4
    <3>3. QED  BY <3>1, <3>2
  <2>6. /\ w \in Seq(S) /\ Len(w) = b + n
        /\ \A i \in 1 .. b : w[i] = u[i]
        /\ \A i \in 1 .. n : w[b + i] = d[i]
    <3>0. u \in Seq(S)  BY <2>2
    <3>1. /\ w \in Seq(S) /\ Len(w) = Len(u) + Len(d)
          /\ \A i \in 1 .. Len(u) : w[i] = u[i]
          /\ \A i \in 1 .. Len(d) : w[Len(u) + i] = d[i]
      BY <3>0, Glued
    <3> HIDE DEF w
    <3>2. QED  BY <1>0, <2>5, <3>1
  <2> HIDE DEF w
  <2>7. \A i \in 1 .. (b + n) : v[i] = w[i]
    <3> TAKE i \in 1 .. (b + n)
    <3>1. v[i] = z[a + i - 1]
      <4>1. i \in 1 .. (h - a + 1)  BY <1>0, <2>1, <2>4
      <4>2. QED  BY <2>3, <4>1
    <3>2. CASE i <= b
      <4>1. i \in 1 .. b /\ i \in 1 .. (j - a + 1) /\ a + i - 1 \in 1 .. m
        BY <1>0, <2>1, <2>4, <3>2
      <4>2. QED  BY <1>1, <2>2, <2>6, <3>1, <4>1
    <3>3. CASE i > b
      <4>1. i - b \in 1 .. n /\ a + i - 1 = m + (i - b) /\ i = b + (i - b)
        BY <1>0, <2>1, <2>4, <3>3
      <4>2. w[i] = d[i - b]  BY <2>6, <4>1
      <4>3. z[a + i - 1] = d[i - b]  BY <1>1, <4>1
      <4>4. QED  BY <3>1, <4>2, <4>3
    <3>4. QED  BY <2>4, <3>2, <3>3
  <2>8. v = w  BY <2>3, <2>5, <2>6, <2>7, SeqEqual
  <2>9. QED  BY <2>1, <2>2, <2>8 DEF u, v, w
<1>11. QED  BY <1>6, <1>7, <1>8, <1>9, <1>10 DEF z

LEMMA Shifted ==
  ASSUME NEW S, NEW p \in Seq(S), NEW d \in Seq(S), NEW k \in 0 .. Len(d)
  PROVE  /\ SubSeq(p \o d, 1, Len(p) + k) = p \o SubSeq(d, 1, k)
         /\ SubSeq(p \o d, Len(p) + k + 1, Len(p) + Len(d)) = SubSeq(d, k + 1, Len(d))
<1> DEFINE z == p \o d
<1>0. PICK m, n \in Nat : m = Len(p) /\ n = Len(d)  OBVIOUS
<1>1. /\ z \in Seq(S) /\ Len(z) = m + n
      /\ \A i \in 1 .. m : z[i] = p[i]
      /\ \A i \in 1 .. n : z[m + i] = d[i]
  BY <1>0, Glued
<1> HIDE DEF z
<1>2. k \in 0 .. n  BY <1>0
<1>3. SubSeq(z, 1, m + k) = p \o SubSeq(d, 1, k)
  <2>1. PICK a \in Nat \ {0}, j \in 0 .. Len(z), h \in 0 .. Len(d) :
            a = 1 /\ j = m + k /\ h = k
    <3>1. m + k \in 0 .. Len(z) /\ k \in 0 .. Len(d)  BY <1>0, <1>1, <1>2
    <3>2. QED  BY <3>1
  <2> DEFINE u == SubSeq(z, a, j)
             v == SubSeq(d, a, h)
             w == p \o v
  <2>2. /\ u \in Seq(S) /\ Len(u) = (IF a <= j THEN j - a + 1 ELSE 0)
        /\ \A i \in 1 .. (j - a + 1) : u[i] = z[a + i - 1]
    BY <1>1, Cut
  <2>3. /\ v \in Seq(S) /\ Len(v) = (IF a <= h THEN h - a + 1 ELSE 0)
        /\ \A i \in 1 .. (h - a + 1) : v[i] = d[a + i - 1]
    BY Cut
  <2> HIDE DEF u, v
  <2>4. v \in Seq(S) /\ Len(v) = k /\ Len(u) = m + k
    BY <1>0, <1>2, <2>1, <2>2, <2>3
  <2>5. /\ w \in Seq(S) /\ Len(w) = Len(p) + Len(v)
        /\ \A i \in 1 .. Len(p) : w[i] = p[i]
        /\ \A i \in 1 .. Len(v) : w[Len(p) + i] = v[i]
    <3>1. v \in Seq(S)  BY <2>4
    <3>2. QED  BY <3>1, Glued
  <2> HIDE DEF w
  <2>6. \A i \in 1 .. (m + k) : u[i] = w[i]
    <3> TAKE i \in 1 .. (m + k)
    <3>1. i \in 1 .. (j - a + 1) /\ a + i - 1 = i  BY <1>0, <1>2, <2>1
    <3>2. u[i] = z[i]  BY <2>2, <3>1
    <3>3. CASE i <= m
      <4>1. i \in 1 .. m  BY <1>0, <3>3
      <4>2. QED  BY <1>0, <1>1, <2>5, <3>2, <4>1
    <3>4. CASE i > m
      <4>1. PICK x \in 1 .. k : x = i - m
        <5>1. i - m \in 1 .. k  BY <1>0, <1>2, <3>4
        <5>2. QED  BY <5>1
      <4>2. i = m + x /\ x \in 1 .. n /\ x \in 1 .. (h - a + 1) /\ a + x - 1 = x
        BY <1>0, <1>2, <2>1, <4>1
      <4>3. z[i] = d[x]  BY <1>1, <4>2
      <4>4. v[x] = d[x]  BY <2>3, <4>2
      <4>5. w[i] = v[x]  BY <1>0, <2>4, <2>5, <4>2
      <4>6. QED  BY <3>2, <4>3, <4>4, <4>5
    <3>5. QED  BY <1>0, <3>3, <3>4
  <2>7. Len(w) = m + k  BY <1>0, <2>4, <2>5
  <2>8. u = w  BY <2>2, <2>4, <2>5, <2>6, <2>7, SeqEqual
  <2>9. QED  BY <2>1, <2>8 DEF u, v, w
<1>4. SubSeq(z, m + k + 1, m + n) = SubSeq(d, k + 1, n)
  <2>1. PICK a \in Nat \ {0}, j \in 0 .. Len(z), b \in Nat \ {0}, h \in 0 .. Len(d) :
            a = m + k + 1 /\ j = m + n /\ b = k + 1 /\ h = n
    <3>1. m + n \in 0 .. Len(z) /\ n \in 0 .. Len(d) /\ k + 1 \in Nat \ {0}
          /\ m + k + 1 \in Nat \ {0}
      BY <1>0, <1>1, <1>2
    <3>2. QED  BY <3>1
  <2> DEFINE u == SubSeq(z, a, j)
             v == SubSeq(d, b, h)
  <2>2. /\ u \in Seq(S) /\ Len(u) = (IF a <= j THEN j - a + 1 ELSE 0)
        /\ \A i \in 1 .. (j - a + 1) : u[i] = z[a + i - 1]
    BY <1>1, Cut
  <2>3. /\ v \in Seq(S) /\ Len(v) = (IF b <= h THEN h - b + 1 ELSE 0)
        /\ \A i \in 1 .. (h - b + 1) : v[i] = d[b + i - 1]
    BY Cut
  <2> HIDE DEF u, v
  <2>4. Len(v) = n - k /\ Len(u) = n - k
    BY <1>0, <1>2, <2>1, <2>2, <2>3
  <2>5. \A i \in 1 .. (n - k) : u[i] = v[i]
    <3> TAKE i \in 1 .. (n - k)
    <3>1. PICK x \in 1 .. n : x = k + i
      <4>1. k + i \in 1 .. n  BY <1>0, <1>2
      <4>2. QED  BY <4>1
    <3>2. /\ i \in 1 .. (j - a + 1) /\ a + i - 1 = m + x
          /\ i \in 1 .. (h - b + 1) /\ b + i - 1 = x
      BY <1>0, <1>2, <2>1, <3>1
    <3>3. u[i] = z[m + x] /\ v[i] = d[x]  BY <2>2, <2>3, <3>2
    <3>4. QED  BY <1>1, <3>3
  <2>6. u = v  BY <2>2, <2>3, <2>4, <2>5, SeqEqual
  <2>7. QED  BY <2>1, <2>6 DEF u, v
<1>5. QED  BY <1>0, <1>3, <1>4 DEF z

(* The text up to the end of the first tag.                                  *)
LEMMA FirstCut ==
  ASSUME NEW S, NEW b \in Seq(S), NEW x, Has(b, Tag(x))
  PROVE  \E c \in Seq(S) :
            /\ After(b, Tag(x)) \in Seq(S) /\ b = c \o After(b, Tag(x))
            /\ Before(b, Tag(x)) \in Seq(S) /\ Len(c) >= 3 /\ Has(c, Tag(x))
            /\ Before(c, Tag(x)) = Before(b, Tag(x)) /\ After(c, Tag(x)) = <<>>
            /\ TagAt(c, 1, x) => Len(c) = 3 /\ Before(b, Tag(x)) = <<>>
<1>0. PICK n \in Nat : n = Len(b)  OBVIOUS
<1>1. PICK k \in 1 .. Len(b) :
          TagAt(b, k, x) /\ \A i \in 1 .. Len(b) : TagAt(b, i, x) => k <= i
  BY HasFirst
<1>2. k \in 1 .. (n - 2)  BY <1>0, <1>1 DEF TagAt
<1> DEFINE c == SubSeq(b, 1, k + 2)
           r == SubSeq(b, k + 3, n)
<1>3. c \in Seq(S) /\ Len(c) = k + 2 /\ r \in Seq(S) /\ b = c \o r
  <2>1. PICK a \in Nat \ {0}, j \in 0 .. Len(b), h \in 0 .. Len(b) :
            a = 1 /\ j = k + 2 /\ h = n
    <3>1. k + 2 \in 0 .. Len(b) /\ n \in 0 .. Len(b)  BY <1>0, <1>2
    <3>2. QED  BY <3>1
  <2>2. /\ SubSeq(b, a, j) \in Seq(S)
        /\ Len(SubSeq(b, a, j)) = (IF a <= j THEN j - a + 1 ELSE 0)
    BY Cut
  <2>3. /\ a \in 1 .. Len(b) + 1 /\ j \in (a - 1) .. Len(b) /\ h \in j .. Len(b)
        /\ j + 1 = k + 3 /\ j + 1 \in Nat \ {0}
    BY <1>0, <1>2, <2>1
  <2>4. SubSeq(b, a, j) \o SubSeq(b, j + 1, h) = SubSeq(b, a, h)
    BY <2>3, ConcatAdjacentSubSeq
  <2>5. SubSeq(b, j + 1, h) \in Seq(S)
    BY <2>3, Cut
  <2>6. SubSeq(b, a, h) = b  BY <1>0, <2>1, SubSeqFull
  <2>7. Len(c) = k + 2
    <3>1. Len(c) = (IF a <= j THEN j - a + 1 ELSE 0)  BY <2>1, <2>2
    <3> HIDE DEF c
    <3>2. QED  BY <1>2, <2>1, <3>1
  <2>8. QED  BY <2>1, <2>2, <2>3, <2>4, <2>5, <2>6, <2>7
<1>4. Before(b, Tag(x)) = SubSeq(b, 1, k - 1) /\ After(b, Tag(x)) = r
  BY <1>0, <1>1, FirstAt
<1> HIDE DEF c, r
<1>5. TagAt(c, k, x)
  <2>1. \A i : TagAt(c \o r, i, x) /\ i + 2 <= Len(c) => TagAt(c, i, x)
    BY <1>3, TagStays
  <2>2. k + 2 <= Len(c)  BY <1>2, <1>3
  <2>3. TagAt(c \o r, k, x)  BY <1>1, <1>3
  <2>4. QED  BY <2>1, <2>2, <2>3
<1>6. Has(c, Tag(x))
  <2>1. k \in 1 .. Len(c)  BY <1>2, <1>3
  <2>2. Has(c, Tag(x)) <=> \E i \in 1 .. Len(c) : TagAt(c, i, x)  BY <1>3, HasAt
  <2>3. QED  BY <1>5, <2>1, <2>2
<1>7. /\ Before(b, Tag(x)) = Before(c, Tag(x)) /\ Before(c, Tag(x)) \in Seq(S)
      /\ r = After(c, Tag(x)) \o r /\ After(c, Tag(x)) \in Seq(S)
  <2>1. /\ Before(c \o r, Tag(x)) = Before(c, Tag(x))
        /\ After(c \o r, Tag(x)) = After(c, Tag(x)) \o r
        /\ Before(c, Tag(x)) \in Seq(S) /\ After(c, Tag(x)) \in Seq(S)
    BY <1>3, <1>6, FirstStays
  <2>2. c \o r = b  BY <1>3
  <2>3. QED  BY <1>4, <2>1, <2>2
<1>8. After(c, Tag(x)) = <<>>
  <2> DEFINE e == After(c, Tag(x))
  <2>1. e \in Seq(S) /\ e \o r = r  BY <1>7
  <2> HIDE DEF e
  <2>2. e = <<>>  BY <1>3, <2>1, ConcatEqualIffEmpty
  <2>3. QED  BY <2>2 DEF e
<1>9. ASSUME TagAt(c, 1, x) PROVE Len(c) = 3 /\ Before(b, Tag(x)) = <<>>
  <2>1. TagAt(b, 1, x)
    <3>1. \A i : TagAt(c, i, x) => TagAt(c \o r, i, x)  BY <1>3, TagStays
    <3>2. QED  BY <1>3, <1>9, <3>1
  <2>2. k = 1
    <3>1. 1 \in 1 .. Len(b)  BY <1>0, <1>2
    <3>2. k <= 1  BY <1>1, <2>1, <3>1
    <3>3. QED  BY <1>2, <3>2
  <2>3. Len(c) = 3  BY <1>3, <2>2
  <2>4. SubSeq(b, 1, k - 1) = <<>>
    <3>1. k - 1 = 0  BY <2>2
    <3>2. \A j \in Int : j < 1 => SubSeq(b, 1, j) = <<>>  BY SubSeqEmpty
    <3>3. QED  BY <3>1, <3>2
  <2>5. QED  BY <1>4, <2>3, <2>4
<1>10. Len(c) >= 3  BY <1>2, <1>3
<1>11. QED  BY <1>3, <1>4, <1>6, <1>7, <1>8, <1>9, <1>10

(* A text that is cut twice: what lies between the cuts.                     *)
CutTwice(a, b, c, r) == a \o b = c \o r /\ Len(a) <= Len(c)

Between(S, a, b, c, r) ==
    \E d \in Seq(S) : c = a \o d /\ b = d \o r /\ Len(d) = Len(c) - Len(a)

LEMMA Splits ==
  ASSUME NEW S, NEW a \in Seq(S), NEW b \in Seq(S), NEW c \in Seq(S), NEW r \in Seq(S),
         CutTwice(a, b, c, r)
  PROVE  Between(S, a, b, c, r)
<1> USE DEF CutTwice
<1>0. PICK m, n, k, l \in Nat : m = Len(a) /\ n = Len(b) /\ k = Len(c) /\ l = Len(r)
  OBVIOUS
<1> DEFINE z == a \o b
           d == SubSeq(c, m + 1, k)
<1>a. /\ z \in Seq(S) /\ Len(z) = Len(a) + Len(b)
      /\ \A i \in 1 .. Len(a) : z[i] = a[i]
      /\ \A i \in 1 .. Len(b) : z[Len(a) + i] = b[i]
  BY Glued
<1>b. /\ Len(c \o r) = Len(c) + Len(r)
      /\ \A i \in 1 .. Len(c) : (c \o r)[i] = c[i]
      /\ \A i \in 1 .. Len(r) : (c \o r)[Len(c) + i] = r[i]
  BY Glued
<1>c. z = c \o r  OBVIOUS
<1> HIDE DEF z
<1>1. /\ z \in Seq(S) /\ Len(z) = m + n
      /\ \A i \in 1 .. m : z[i] = a[i]
      /\ \A i \in 1 .. n : z[m + i] = b[i]
  BY <1>0, <1>a
<1>2. /\ Len(z) = k + l
      /\ \A i \in 1 .. k : z[i] = c[i]
      /\ \A i \in 1 .. l : z[k + i] = r[i]
  BY <1>0, <1>b, <1>c
<1>3. m <= k /\ m + n = k + l  BY <1>0, <1>1, <1>2
<1>4. d \in Seq(S) /\ Len(d) = k - m /\ \A i \in 1 .. (k - m) : d[i] = c[m + i]
  <2>1. PICK p \in Nat \ {0}, q \in 0 .. Len(c) : p = m + 1 /\ q = k
    <3>1. m + 1 \in Nat \ {0} /\ k \in 0 .. Len(c)  BY <1>0
    <3>2. QED  BY <3>1
  <2>2. /\ SubSeq(c, p, q) \in Seq(S)
        /\ Len(SubSeq(c, p, q)) = (IF p <= q THEN q - p + 1 ELSE 0)
        /\ \A i \in 1 .. (q - p + 1) : SubSeq(c, p, q)[i] = c[p + i - 1]
    BY Cut
  <2>3. d = SubSeq(c, p, q)  BY <2>1
  <2> HIDE DEF d
  <2>4. Len(d) = k - m  BY <1>0, <1>3, <2>1, <2>2, <2>3
  <2>5. \A i \in 1 .. (k - m) : i \in 1 .. (q - p + 1) /\ p + i - 1 = m + i
    BY <1>0, <1>3, <2>1
  <2>6. QED  BY <2>2, <2>3, <2>4, <2>5
<1> HIDE DEF d
<1>5. c = a \o d
  <2> DEFINE w == a \o d
  <2>0. d \in Seq(S)  BY <1>4
  <2>1. /\ w \in Seq(S) /\ Len(w) = Len(a) + Len(d)
        /\ \A i \in 1 .. Len(a) : w[i] = a[i]
        /\ \A i \in 1 .. Len(d) : w[Len(a) + i] = d[i]
    BY <2>0, Glued
  <2> HIDE DEF w
  <2>2. Len(w) = k  BY <1>0, <1>3, <1>4, <2>1
  <2>3. \A i \in 1 .. k : w[i] = c[i]
    <3> TAKE i \in 1 .. k
    <3>1. CASE i <= m
      <4>1. i \in 1 .. m  BY <1>0, <3>1
      <4>2. QED  BY <1>0, <1>1, <1>2, <2>1, <4>1
    <3>2. CASE i > m
      <4>1. PICK j \in 1 .. (k - m) : j = i - m
        <5>1. i - m \in 1 .. (k - m)  BY <1>0, <3>2
        <5>2. QED  BY <5>1
      <4>2. i = m + j  BY <1>0, <4>1
      <4>3. w[m + j] = d[j]  BY <1>0, <1>4, <2>1, <4>1
      <4>4. d[j] = c[m + j]  BY <1>4, <4>1
      <4>5. QED  BY <4>2, <4>3, <4>4
    <3>3. QED  BY <1>0, <3>1, <3>2
  <2>4. w = c  BY <1>0, <2>1, <2>2, <2>3, SeqEqual
  <2>5. QED  BY <2>4 DEF w
<1>6. b = d \o r
  <2> DEFINE w == d \o r
  <2>0. d \in Seq(S)  BY <1>4
  <2>1. /\ w \in Seq(S) /\ Len(w) = Len(d) + Len(r)
        /\ \A i \in 1 .. Len(d) : w[i] = d[i]
        /\ \A i \in 1 .. Len(r) : w[Len(d) + i] = r[i]
    BY <2>0, Glued
  <2> HIDE DEF w
  <2>2. Len(w) = n  BY <1>0, <1>3, <1>4, <2>1
  <2>3. \A i \in 1 .. n : w[i] = b[i]
    <3> TAKE i \in 1 .. n
    <3>1. b[i] = z[m + i]  BY <1>1
    <3>2. CASE i <= k - m
      <4>1. i \in 1 .. (k - m) /\ m + i \in 1 .. k  BY <1>0, <1>3, <3>2
      <4>2. w[i] = d[i] /\ d[i] = c[m + i] /\ z[m + i] = c[m + i]
        BY <1>2, <1>4, <2>1, <4>1
      <4>3. QED  BY <3>1, <4>2
    <3>3. CASE i > k - m
      <4>1. PICK j \in 1 .. l : j = i - (k - m)
        <5>1. i - (k - m) \in 1 .. l  BY <1>0, <1>3, <3>3
        <5>2. QED  BY <5>1
      <4>2. i = (k - m) + j /\ m + i = k + j  BY <1>0, <1>3, <4>1
      <4>3. w[(k - m) + j] = r[j]  BY <1>0, <1>4, <2>1, <4>1, SMTT(60)
      <4>4. z[k + j] = r[j]  BY <1>2, <4>1
      <4>5. QED  BY <3>1, <4>2, <4>3, <4>4
    <3>4. QED  BY <1>0, <1>3, <3>2, <3>3
  <2>4. w = b  BY <1>0, <2>1, <2>2, <2>3, SeqEqual
  <2>5. QED  BY <2>4 DEF w
<1>7. QED  BY <1>0, <1>4, <1>5, <1>6 DEF Between

(* A closing tag that is completed later begins in what was held back, which *)
(* is as much as may become the tag.                                         *)
LEMMA HeldBack ==
  ASSUME NEW S, NEW a \in Seq(S), NEW h \in Seq(S), NEW d \in Seq(S),
         Len(h) = Keep(a \o h), ~Has(a \o h, Close), d # <<>>
  PROVE  LET b == h \o d
             w == a \o b
         IN /\ w = (a \o h) \o d /\ b \in Seq(S)
            /\ Has(w, Close) <=> Has(b, Close)
            /\ Has(b, Close) => /\ Before(w, Close) = a \o Before(b, Close)
                                /\ After(w, Close) = After(b, Close)
            /\ Keep(w) = Keep(b)
<1> DEFINE b == h \o d
           w == a \o b
           R == a \o h
<1>0. PICK l, m, n \in Nat : l = Len(a) /\ m = Len(h) /\ n = Len(d)  OBVIOUS
<1>1. n > 0
  <2>1. Len(d) # 0  OBVIOUS
  <2>2. QED  BY <1>0, <2>1
<1>2. Close = Tag("c")  BY DEF Close, Tag
<1>3. w = R \o d
  <2>1. Regrouped(a, h, d)  BY Regroups
  <2>2. QED  BY <2>1 DEF Regrouped
<1>4. /\ R \in Seq(S) /\ Len(R) = Len(a) + Len(h)
      /\ \A i \in 1 .. Len(a) : R[i] = a[i]
      /\ \A i \in 1 .. Len(h) : R[Len(a) + i] = h[i]
  BY Glued
<1>5. /\ b \in Seq(S) /\ Len(b) = Len(h) + Len(d)
      /\ \A i \in 1 .. Len(h) : b[i] = h[i]
      /\ \A i \in 1 .. Len(d) : b[Len(h) + i] = d[i]
  <2>1. h \in Seq(S) /\ d \in Seq(S)  OBVIOUS
  <2>2. QED  BY ONLY <2>1, Glued
<1> HIDE DEF R, b
<1>6. /\ w \in Seq(S) /\ Len(w) = Len(a) + Len(b)
      /\ \A i \in 1 .. Len(a) : w[i] = a[i]
      /\ \A i \in 1 .. Len(b) : w[Len(a) + i] = b[i]
  <2>1. b \in Seq(S)  BY <1>5
  <2>2. QED  BY <2>1, Glued
<1> HIDE DEF w
<1>7. \A i \in 1 .. Len(R) : w[i] = R[i]
  <2> DEFINE v == R \o d
  <2>1. R \in Seq(S)  BY <1>4
  <2>2. \A i \in 1 .. Len(R) : v[i] = R[i]  BY <2>1, Glued
  <2>3. v = w  BY <1>3
  <2> HIDE DEF v
  <2>4. QED  BY <2>2, <2>3
<1>8. Len(R) = l + m /\ Len(b) = m + n /\ Len(w) = l + m + n
  BY <1>0, <1>4, <1>5, <1>6, SMTT(60)
<1>9. m = IF l + m >= 2 /\ R[l + m - 1] = "<" /\ R[l + m] = "c" THEN 2
          ELSE IF l + m >= 1 /\ R[l + m] = "<" THEN 1 ELSE 0
  <2>1. m = Keep(R)  BY <1>0 DEF R
  <2>2. R \in Seq(S)  BY <1>4
  <2>3. Keep(R) = IF Len(R) >= 2 /\ R[Len(R) - 1] = "<" /\ R[Len(R)] = "c" THEN 2
                  ELSE IF Len(R) >= 1 /\ R[Len(R)] = "<" THEN 1 ELSE 0
    BY <2>2, KeepIs
  <2>4. Len(R) = l + m  BY <1>8
  <2> HIDE DEF R
  <2>5. QED  BY ONLY <2>1, <2>3, <2>4
(* No tag of the whole begins before what was held back. *)
<1>10. ASSUME NEW i, TagAt(w, i, "c") PROVE i > l
  <2>1. i \in 1 .. (l + m + n - 2) /\ w[i] = "<" /\ w[i + 1] = "c" /\ w[i + 2] = ">"
    BY <1>8, <1>10 DEF TagAt
  <2>2. SUFFICES ASSUME i <= l PROVE FALSE  BY <1>0, <2>1
  <2>3. CASE i + 2 <= l + m
    <3>1. \A j : TagAt(R \o d, j, "c") /\ j + 2 <= Len(R) => TagAt(R, j, "c")
      BY <1>4, TagStays
    <3>2. TagAt(R, i, "c")  BY <1>3, <1>8, <1>10, <2>3, <3>1
    <3>3. i \in 1 .. Len(R)  BY <1>0, <1>8, <2>1, <2>3, SMTT(60)
    <3>4. Has(R, Tag("c")) <=> \E j \in 1 .. Len(R) : TagAt(R, j, "c")
      BY <1>4, HasAt
    <3>5. Has(R, Close)  BY <1>2, <3>2, <3>3, <3>4
    <3>6. QED  BY <3>5 DEF R
  <2>4. CASE i + 1 = l + m
    <3>0. i \in Nat \ {0}  BY <1>0, <2>1
    <3>1. i \in 1 .. Len(R) /\ i + 1 \in 1 .. Len(R)  BY <1>0, <1>8, <2>4, <3>0, SMTT(60)
    <3>2. R[i] = "<" /\ R[i + 1] = "c"  BY <1>7, <2>1, <3>1
    <3>3. i = l + m - 1 /\ l + m >= 2  BY <1>0, <2>1, <2>4, SMTT(60)
    <3>4. m = 2  BY <1>9, <2>4, <3>2, <3>3
    <3>5. QED  BY <1>0, <2>1, <2>2, <2>4, <3>4
  <2>5. CASE i = l + m
    <3>1. i \in 1 .. Len(R)  BY <1>0, <1>8, <2>1, <2>5
    <3>2. R[l + m] = "<" /\ l + m >= 1  BY <1>7, <2>1, <2>5, <3>1
    <3>3. m = 2 \/ m = 1  BY <1>9, <3>2
    <3>4. QED  BY <1>0, <2>2, <2>5, <3>3
  <2>6. QED  BY <1>0, <2>1, <2>2, <2>3, <2>4, <2>5, SMTT(60)
<1>11. /\ \A i : TagAt(w, i, "c") => TagAt(b, i - l, "c")
       /\ \A i : TagAt(b, i, "c") => TagAt(w, l + i, "c")
  <2>1. b \in Seq(S)  BY <1>5
  <2>2. /\ \A i : TagAt(b, i, "c") => TagAt(a \o b, Len(a) + i, "c")
        /\ \A i : TagAt(a \o b, i, "c") /\ i > Len(a) => TagAt(b, i - Len(a), "c")
    BY <2>1, TagStays
  <2>3. QED  BY <1>0, <1>10, <2>2 DEF w
<1>12. /\ \A i : TagAt(w, i, "c") => i \in 1 .. Len(w)
       /\ \A i : TagAt(b, i, "c") => i \in 1 .. Len(b)
  <2>1. \A x \in Nat : \A i \in 1 .. (x - 2) : i \in 1 .. x  OBVIOUS
  <2>2. Len(w) \in Nat /\ Len(b) \in Nat  BY <1>5, <1>6
  <2>3. QED  BY <2>1, <2>2 DEF TagAt
<1>13. Has(w, Close) <=> Has(b, Close)
  <2>1. Has(w, Tag("c")) <=> \E i \in 1 .. Len(w) : TagAt(w, i, "c")  BY <1>6, HasAt
  <2>2. Has(b, Tag("c")) <=> \E i \in 1 .. Len(b) : TagAt(b, i, "c")  BY <1>5, HasAt
  <2>3. QED  BY <1>2, <1>11, <1>12, <2>1, <2>2
<1>14. ASSUME Has(b, Close)
       PROVE  Before(w, Close) = a \o Before(b, Close) /\ After(w, Close) = After(b, Close)
  <2>1. PICK k \in 1 .. Len(b) :
            TagAt(b, k, "c") /\ \A i \in 1 .. Len(b) : TagAt(b, i, "c") => k <= i
    BY <1>2, <1>5, <1>14, HasFirst
  <2>2. k \in 1 .. (m + n - 2)  BY <1>8, <2>1 DEF TagAt
  <2>3. Before(b, Close) = SubSeq(b, 1, k - 1) /\ After(b, Close) = SubSeq(b, k + 3, m + n)
    BY <1>2, <1>5, <1>8, <2>1, FirstAt
  <2>4. TagAt(w, l + k, "c")  BY <1>11, <2>1
  <2>5. \A i \in 1 .. Len(w) : TagAt(w, i, "c") => l + k <= i
    <3> TAKE i \in 1 .. Len(w)
    <3> HAVE TagAt(w, i, "c")
    <3>1. TagAt(b, i - l, "c") /\ i - l \in 1 .. Len(b)  BY <1>11, <1>12
    <3>2. k <= i - l  BY <2>1, <3>1
    <3>3. i \in Nat  BY <1>0, <1>8
    <3>4. QED  BY <1>0, <2>2, <3>2, <3>3
  <2>6. /\ Before(w, Close) = SubSeq(w, 1, (l + k) - 1)
        /\ After(w, Close) = SubSeq(w, (l + k) + 3, Len(w))
    BY <1>2, <1>6, <2>4, <2>5, FirstAt
  <2>7. PICK p, q \in 0 .. Len(b) : p = k - 1 /\ q = k + 2
    <3>1. k - 1 \in 0 .. Len(b) /\ k + 2 \in 0 .. Len(b)  BY <1>0, <1>8, <2>2, SMTT(60)
    <3>2. QED  BY <3>1
  <2>8. SubSeq(a \o b, 1, Len(a) + p) = a \o SubSeq(b, 1, p)
    BY <1>5, Shifted
  <2>9. SubSeq(a \o b, Len(a) + q + 1, Len(a) + Len(b)) = SubSeq(b, q + 1, Len(b))
    BY <1>5, Shifted
  <2>10. Len(a) + p = (l + k) - 1 /\ Len(a) + q + 1 = (l + k) + 3
         /\ Len(a) + Len(b) = Len(w) /\ q + 1 = k + 3 /\ Len(b) = m + n
    BY <1>0, <1>6, <1>8, <2>2, <2>7
  <2>11. SubSeq(w, 1, (l + k) - 1) = a \o SubSeq(b, 1, k - 1)
    BY <2>7, <2>8, <2>10 DEF w
  <2>12. SubSeq(w, (l + k) + 3, Len(w)) = SubSeq(b, k + 3, m + n)
    BY <2>9, <2>10 DEF w
  <2>13. QED  BY <2>3, <2>6, <2>11, <2>12
<1>15. Keep(w) = Keep(b)
  <2>1. \A i \in 1 .. m + n : w[l + i] = b[i]  BY <1>0, <1>6, <1>8
  <2>2. m + n >= 1 /\ w[l + m + n] = b[m + n]
    <3>1. m + n \in 1 .. m + n /\ l + m + n = l + (m + n)  BY <1>0, <1>1
    <3>2. QED  BY <1>0, <1>1, <2>1, <3>1, SMTT(60)
  <2>3. m + n >= 2 => w[l + m + n - 1] = b[m + n - 1]
    <3>1. SUFFICES ASSUME m + n >= 2 PROVE w[l + m + n - 1] = b[m + n - 1]
      OBVIOUS
    <3>2. m + n - 1 \in 1 .. m + n /\ l + m + n - 1 = l + (m + n - 1)  BY <1>0, <3>1
    <3>3. QED  BY <2>1, <3>2
  (* One character after none that was held back: none before it began a tag. *)
  <2>4. m + n = 1 => m = 0 /\ (l + m + n >= 2 => w[l + m + n - 1] = R[l + m])
    <3>1. SUFFICES ASSUME m + n = 1 PROVE m = 0 /\ (l + m + n >= 2 => w[l + m + n - 1] = R[l + m])
      OBVIOUS
    <3>2. m = 0 /\ l + m + n - 1 = l + m  BY <1>0, <1>1, <3>1
    <3>3. l + m + n >= 2 => l + m \in 1 .. Len(R)  BY <1>0, <1>8, <3>1, SMTT(60)
    <3>4. QED  BY <1>7, <3>2, <3>3
  <2>5. m = 0 => ~(l + m >= 1 /\ R[l + m] = "<")
    <3>1. SUFFICES ASSUME l + m >= 1, R[l + m] = "<", m = 0 PROVE FALSE  OBVIOUS
    <3>2. m = 2 \/ m = 1  BY <1>9, <3>1
    <3>3. QED  BY <3>1, <3>2
  <2>6. Keep(w) = IF l + m + n >= 2 /\ w[l + m + n - 1] = "<" /\ w[l + m + n] = "c" THEN 2
                  ELSE IF l + m + n >= 1 /\ w[l + m + n] = "<" THEN 1 ELSE 0
    <3>1. w \in Seq(S)  BY <1>6
    <3>2. QED  BY <1>8, <3>1, KeepIs, SMTT(60)
  <2>7. Keep(b) = IF m + n >= 2 /\ b[m + n - 1] = "<" /\ b[m + n] = "c" THEN 2
                  ELSE IF m + n >= 1 /\ b[m + n] = "<" THEN 1 ELSE 0
    <3>1. b \in Seq(S)  BY <1>5
    <3>2. QED  BY <1>8, <3>1, KeepIs, SMTT(60)
  <2>8. CASE m + n >= 2
    <3>1. l + m + n >= 2 /\ l + m + n >= 1  BY <1>0, <2>8
    <3>2. QED  BY <2>2, <2>3, <2>6, <2>7, <2>8, <3>1
  <2>9. CASE m + n = 1
    <3>1. ~(m + n >= 2) /\ l + m + n >= 1 /\ (l + m + n >= 2 => l + m >= 1)  BY <1>0, <2>9
    <3>2. ~(l + m + n >= 2 /\ w[l + m + n - 1] = "<")  BY <2>4, <2>5, <2>9, <3>1
    <3>3. QED  BY <2>2, <2>6, <2>7, <3>1, <3>2
  <2>10. QED  BY <1>0, <1>1, <2>8, <2>9
<1>16. b \in Seq(S) /\ w = R \o d  BY <1>3, <1>5
<1>17. QED  BY <1>13, <1>14, <1>15, <1>16 DEF w, b, R

-----------------------------------------------------------------------------
(* The thoughts that came as content. *)

ContentRun(f, s, N) ==
    f = [n \in 0 .. N |-> IF n = 0 THEN <<>>
                          ELSE IF s[n] = "r" THEN f[n - 1]
                          ELSE Append(f[n - 1], s[n])]

LEMMA ContentRuns ==
  ASSUME NEW s, Len(s) \in Nat
  PROVE  \E f : /\ FromContent(s) = f[Len(s)] /\ f[0] = <<>>
                /\ \A n \in 1 .. Len(s) :
                      f[n] = IF s[n] = "r" THEN f[n - 1] ELSE Append(f[n - 1], s[n])
<1> DEFINE N == Len(s)
           kept == CHOOSE f : ContentRun(f, s, N)
           T == {m \in Nat : \E f : ContentRun(f, s, m)}
<1>1. FromContent(s) = kept[N]
  BY DEF FromContent, ContentRun
<1>2. T = Nat
  <2>1. 0 \in T
    <3> DEFINE g == [n \in 0 .. 0 |-> <<>>]
    <3>1. ContentRun(g, s, 0)  BY DEF ContentRun
    <3>2. QED  BY <3>1
  <2>2. ASSUME NEW m \in T PROVE m + 1 \in T
    <3>1. m \in Nat  OBVIOUS
    <3>2. PICK g : ContentRun(g, s, m)  OBVIOUS
    <3> DEFINE y == IF s[m + 1] = "r" THEN g[m] ELSE Append(g[m], s[m + 1])
               h == [n \in 0 .. (m + 1) |-> IF n = m + 1 THEN y ELSE g[n]]
               Then(k, n) == IF n = 0 THEN <<>>
                             ELSE IF s[n] = "r" THEN k[n - 1] ELSE Append(k[n - 1], s[n])
    <3>3. ContentRun(h, s, m + 1)
      <4> HIDE DEF y
      <4>1. \A n \in 0 .. m : h[n] = g[n]  BY <3>1
      <4>2. h[m + 1] = y  BY <3>1
      <4>3. \A n \in 0 .. (m + 1) : h[n] = Then(h, n)
        <5> TAKE n \in 0 .. (m + 1)
        <5>1. CASE n = m + 1
          <6>1. n - 1 = m /\ n # 0 /\ m \in 0 .. m  BY <5>1, <3>1
          <6>2. h[n - 1] = g[m]  BY <6>1, <4>1
          <6>3. QED  BY <5>1, <6>1, <6>2, <4>2 DEF y
        <5>2. CASE n \in 0 .. m
          <6>1. n = 0 \/ n - 1 \in 0 .. m  BY <5>2, <3>1
          <6>2. g[n] = Then(g, n)
            BY <3>2, <5>2 DEF ContentRun
          <6>3. QED  BY <5>2, <6>1, <6>2, <4>1
        <5>3. QED  BY <5>1, <5>2, <3>1
      <4>4. h = [n \in 0 .. (m + 1) |-> h[n]]  OBVIOUS
      <4> HIDE DEF h
      <4>5. QED  BY <4>3, <4>4 DEF ContentRun
    <3>4. m + 1 \in Nat  BY <3>1
    <3>5. QED  BY <3>3, <3>4
  <2> HIDE DEF T
  <2>3. T \in SUBSET Nat  BY DEF T
  <2>4. QED  BY <2>1, <2>2, <2>3, NaturalsReached
<1>3. ContentRun(kept, s, N)
  <2>1. \E g : ContentRun(g, s, N)  BY <1>2
  <2>2. QED  BY <2>1
<1> HIDE DEF kept
<1>4. kept[0] = <<>>  BY <1>3 DEF ContentRun
<1>5. \A n \in 1 .. N : kept[n] = IF s[n] = "r" THEN kept[n - 1] ELSE Append(kept[n - 1], s[n])
  <2>1. TAKE n \in 1 .. N
  <2>2. n \in 0 .. N /\ n # 0  OBVIOUS
  <2>3. QED  BY <1>3, <2>2, Zenon DEF ContentRun
<1>6. QED  BY <1>1, <1>4, <1>5

LEMMA ContentOnly ==
  ASSUME NEW S, "r" \notin S, NEW s \in Seq(S \cup {"r"}), NEW w \in Seq(S)
  PROVE  FromContent(s) \in Seq(S) /\ FromContent(s \o w) = FromContent(s) \o w
<1> DEFINE R == S \cup {"r"}
           z == s \o w
<1>0. PICK m, n \in Nat : m = Len(s) /\ n = Len(w)  OBVIOUS
<1>1. s \in Seq(R) /\ w \in Seq(R) /\ \A i \in 1 .. n : w[i] \in S /\ w[i] # "r"
  <2>1. S \subseteq R  OBVIOUS
  <2>2. \A i \in 1 .. n : w[i] \in S  BY <1>0, ElementOfSeq
  <2>3. \A i \in 1 .. n : w[i] # "r"  BY <2>2
  <2> HIDE DEF R
  <2>4. w \in Seq(R)  BY <2>1, SeqMonotonic
  <2>5. QED  BY <2>2, <2>3, <2>4 DEF R
<1>2. \A i \in 1 .. m : s[i] \in R  BY <1>0, ElementOfSeq
<1>3. /\ Len(z) = m + n
      /\ \A i \in 1 .. m : z[i] = s[i]
      /\ \A i \in 1 .. n : z[m + i] = w[i]
  <2>1. /\ Len(z) = Len(s) + Len(w)
        /\ \A i \in 1 .. Len(s) : z[i] = s[i]
        /\ \A i \in 1 .. Len(w) : z[Len(s) + i] = w[i]
    <3>1. s \in Seq(R) /\ w \in Seq(R)  BY <1>1
    <3> HIDE DEF R
    <3>2. QED  BY ONLY <3>1, Glued
  <2> HIDE DEF z
  <2>2. QED  BY <1>0, <2>1
<1> HIDE DEF z
<1>4. PICK f : /\ FromContent(s) = f[m] /\ f[0] = <<>>
               /\ \A i \in 1 .. m :
                     f[i] = IF s[i] = "r" THEN f[i - 1] ELSE Append(f[i - 1], s[i])
  BY <1>0, ContentRuns
<1>5. PICK g : /\ FromContent(z) = g[m + n] /\ g[0] = <<>>
               /\ \A i \in 1 .. (m + n) :
                     g[i] = IF z[i] = "r" THEN g[i - 1] ELSE Append(g[i - 1], z[i])
  <2>1. Len(z) \in Nat  BY <1>0, <1>3
  <2>2. PICK g : /\ FromContent(z) = g[Len(z)] /\ g[0] = <<>>
                 /\ \A i \in 1 .. Len(z) :
                       g[i] = IF z[i] = "r" THEN g[i - 1] ELSE Append(g[i - 1], z[i])
    BY <2>1, ContentRuns
  <2>3. QED  BY <1>3, <2>2
<1> DEFINE P == {i \in Nat : i <= m => f[i] \in Seq(S) /\ g[i] = f[i]}
           E(i) == f[m] \o SubSeq(w, 1, i)
           Q == {i \in Nat : i <= n => g[m + i] = E(i)}
<1>6. P = Nat
  <2>0. <<>> \in Seq(S)  BY EmptySeq
  <2>1. 0 \in P  BY <1>4, <1>5, <2>0
  <2>2. ASSUME NEW i \in P PROVE i + 1 \in P
    <3>1. i \in Nat /\ i + 1 \in Nat  OBVIOUS
    <3>2. SUFFICES ASSUME i + 1 <= m PROVE f[i + 1] \in Seq(S) /\ g[i + 1] = f[i + 1]
      BY <3>1
    <3>3. f[i] \in Seq(S) /\ g[i] = f[i]  BY <1>0, <3>1, <3>2
    <3>4. PICK k \in 1 .. m : k = i + 1 /\ k - 1 = i /\ k \in 1 .. (m + n)
      <4>1. i + 1 \in 1 .. m /\ i + 1 - 1 = i /\ i + 1 \in 1 .. (m + n)
        BY <1>0, <3>1, <3>2
      <4>2. QED  BY <4>1
    <3>5. f[k] = IF s[k] = "r" THEN f[i] ELSE Append(f[i], s[k])  BY <1>4, <3>4
    <3>6. g[k] = IF s[k] = "r" THEN f[i] ELSE Append(f[i], s[k])
      BY <1>3, <1>5, <3>3, <3>4
    <3>7. s[k] \in S \/ s[k] = "r"  BY <1>2
    <3>8. s[k] # "r" => Append(f[i], s[k]) \in Seq(S)  BY <3>3, <3>7, AppendProperties
    <3>9. QED  BY <3>3, <3>4, <3>5, <3>6, <3>8
  <2>3. P \in SUBSET Nat  OBVIOUS
  <2> HIDE DEF P
  <2>4. QED  BY <2>1, <2>2, <2>3, NaturalsReached
<1>7. f[m] \in Seq(S) /\ g[m] = f[m]
  BY <1>0, <1>6
<1>8. Q = Nat
  <2>1. 0 \in Q
    <3>1. SubSeq(w, 1, 0) = <<>>  BY SubSeqEmpty
    <3>2. f[m] \o <<>> = f[m]  BY <1>7, ConcatEmptySeq
    <3>3. E(0) = f[m]  BY <3>1, <3>2
    <3> HIDE DEF E
    <3>4. g[m + 0] = E(0)  BY <1>0, <1>7, <3>3
    <3>5. QED  BY <3>4
  <2>2. ASSUME NEW i \in Q PROVE i + 1 \in Q
    <3> HIDE DEF E
    <3>1. i \in Nat /\ i + 1 \in Nat  OBVIOUS
    <3>2. SUFFICES ASSUME i + 1 <= n PROVE g[m + (i + 1)] = E(i + 1)
      BY <3>1
    <3>a. i <= n  BY <1>0, <3>1, <3>2
    <3>3. g[m + i] = E(i)  BY <3>a
    <3>4. PICK k \in 1 .. n : k = i + 1
      <4>1. i + 1 \in 1 .. n  BY <1>0, <3>1, <3>2
      <4>2. QED  BY <4>1
    <3>5. m + k \in 1 .. (m + n) /\ (m + k) - 1 = m + i /\ i = k - 1 /\ k - 1 \in 0 .. Len(w)
      BY <1>0, <3>1, <3>4
    <3>6. g[m + k] = Append(g[m + i], w[k])
      <4>1. z[m + k] = w[k] /\ w[k] # "r"  BY <1>1, <1>3
      <4>2. QED  BY <1>5, <3>5, <4>1
    <3> DEFINE u == SubSeq(w, 1, k - 1)
               e == w[k]
    <3>7. SubSeq(w, 1, k) = u \o <<e>>
      <4>1. PICK a \in 1 .. Len(w), j \in 1 .. Len(w) : a = 1 /\ j = k /\ j \in a .. Len(w)
        <5>1. 1 \in 1 .. Len(w) /\ k \in 1 .. Len(w)  BY <1>0
        <5>2. QED  BY <5>1
      <4>2. SubSeq(w, a, j) = SubSeq(w, a, j - 1) \o << w[j] >>
        BY <4>1, SubSeqRecursiveSecond
      <4>3. QED  BY <4>1, <4>2
    <3>8. u \in Seq(S) /\ e \in S /\ <<e>> \in Seq(S)
      <4>1. PICK a \in Nat \ {0} : a = 1  OBVIOUS
      <4>2. SubSeq(w, a, k - 1) \in Seq(S)  BY <3>5, Cut
      <4>3. e \in S  BY <1>1
      <4>4. QED  BY <4>1, <4>2, <4>3
    <3> HIDE DEF u, e
    <3>9. Append(f[m] \o u, e) = f[m] \o (u \o <<e>>)
      <4>1. PICK v \in Seq(S) : v = f[m]  BY <1>7
      <4>2. v \o u \in Seq(S)  BY <3>8, ConcatProperties
      <4>3. Append(v \o u, e) = (v \o u) \o <<e>>  BY <3>8, <4>2, AppendIsConcat
      <4>4. (v \o u) \o <<e>> = v \o (u \o <<e>>)  BY <3>8, ConcatAssociative, SMTT(60)
      <4>5. QED  BY <4>1, <4>3, <4>4
    <3>10. g[m + k] = Append(f[m] \o u, e)
      BY <3>3, <3>5, <3>6 DEF u, e, E
    <3>11. QED  BY <3>4, <3>7, <3>9, <3>10 DEF E
  <2>3. Q \in SUBSET Nat  OBVIOUS
  <2> HIDE DEF Q
  <2>4. QED  BY <2>1, <2>2, <2>3, NaturalsReached
<1> HIDE DEF E
<1>9. g[m + n] = E(n)
  <2>1. n \in Q  BY <1>8
  <2>2. QED  BY <2>1
<1>10. SubSeq(w, 1, n) = w  BY <1>0, SubSeqFull
<1>11. QED  BY <1>4, <1>5, <1>7, <1>9, <1>10 DEF z, E

LEMMA ContentBesides ==
  ASSUME NEW R, NEW s \in Seq(R), "r" \in R
  PROVE  FromContent(s \o <<"r">>) = FromContent(s)
<1> DEFINE w == <<"r">>
           z == s \o w
<1>0. PICK m \in Nat : m = Len(s)  OBVIOUS
<1>1. w \in Seq(R) /\ Len(w) = 1 /\ w[1] = "r"  OBVIOUS
<1> HIDE DEF w
<1>2. /\ Len(z) = m + 1 /\ z[m + 1] = "r"
      /\ \A i \in 1 .. m : z[i] = s[i]
  <2>1. /\ Len(z) = Len(s) + Len(w)
        /\ \A i \in 1 .. Len(s) : z[i] = s[i]
        /\ \A i \in 1 .. Len(w) : z[Len(s) + i] = w[i]
    <3>1. s \in Seq(R) /\ w \in Seq(R)  BY <1>1
    <3>2. QED  BY ONLY <3>1, Glued
  <2> HIDE DEF z
  <2>2. 1 \in 1 .. Len(w)  BY <1>1
  <2>3. QED  BY <1>0, <1>1, <2>1, <2>2
<1> HIDE DEF z
<1>3. PICK f : /\ FromContent(s) = f[m] /\ f[0] = <<>>
               /\ \A i \in 1 .. m :
                     f[i] = IF s[i] = "r" THEN f[i - 1] ELSE Append(f[i - 1], s[i])
  BY <1>0, ContentRuns
<1>4. PICK g : /\ FromContent(z) = g[m + 1] /\ g[0] = <<>>
               /\ \A i \in 1 .. (m + 1) :
                     g[i] = IF z[i] = "r" THEN g[i - 1] ELSE Append(g[i - 1], z[i])
  <2>1. Len(z) \in Nat  BY <1>0, <1>2
  <2>2. PICK g : /\ FromContent(z) = g[Len(z)] /\ g[0] = <<>>
                 /\ \A i \in 1 .. Len(z) :
                       g[i] = IF z[i] = "r" THEN g[i - 1] ELSE Append(g[i - 1], z[i])
    BY <2>1, ContentRuns
  <2>3. QED  BY <1>2, <2>2
<1> DEFINE P == {i \in Nat : i <= m => g[i] = f[i]}
<1>5. P = Nat
  <2>1. 0 \in P  BY <1>3, <1>4
  <2>2. ASSUME NEW i \in P PROVE i + 1 \in P
    <3>1. i \in Nat /\ i + 1 \in Nat  OBVIOUS
    <3>2. SUFFICES ASSUME i + 1 <= m PROVE g[i + 1] = f[i + 1]
      BY <3>1
    <3>3. g[i] = f[i]  BY <1>0, <3>1, <3>2
    <3>4. PICK k \in 1 .. m : k = i + 1 /\ k - 1 = i /\ k \in 1 .. (m + 1)
      <4>1. i + 1 \in 1 .. m /\ i + 1 - 1 = i /\ i + 1 \in 1 .. (m + 1)
        BY <1>0, <3>1, <3>2
      <4>2. QED  BY <4>1
    <3>5. f[k] = IF s[k] = "r" THEN f[i] ELSE Append(f[i], s[k])  BY <1>3, <3>4
    <3>6. g[k] = IF s[k] = "r" THEN f[i] ELSE Append(f[i], s[k])
      BY <1>2, <1>4, <3>3, <3>4
    <3>7. QED  BY <3>4, <3>5, <3>6
  <2>3. P \in SUBSET Nat  OBVIOUS
  <2> HIDE DEF P
  <2>4. QED  BY <2>1, <2>2, <2>3, NaturalsReached
<1>6. g[m] = f[m]  BY <1>0, <1>5
<1>7. g[m + 1] = g[m]
  <2>1. m + 1 \in 1 .. (m + 1) /\ (m + 1) - 1 = m  BY <1>0
  <2>2. QED  BY <1>2, <1>4, <2>1
<1>8. QED  BY <1>3, <1>4, <1>6, <1>7 DEF z, w

LEMMA ContentNone == FromContent(<<>>) = <<>>
<1>1. PICK s : s = <<>> /\ Len(s) = 0  OBVIOUS
<1>2. PICK f : FromContent(s) = f[0] /\ f[0] = <<>>
  BY <1>1, ContentRuns
<1>3. QED  BY <1>1, <1>2

-----------------------------------------------------------------------------
(* What becomes of the texts. *)

(* z is s, but for the items, the calls and what the client was told.        *)
SameText(s, z) ==
    /\ Made(z) /\ z.mode = s.mode /\ z.held = s.held
    /\ z.thought = s.thought /\ z.visible = s.visible

LEMMA SameTextFields ==
  ASSUME NEW s, Made(s), NEW v
  PROVE  /\ SameText(s, [s EXCEPT !.created = v]) /\ SameText(s, [s EXCEPT !.items = v])
         /\ SameText(s, [s EXCEPT !.thinking = v]) /\ SameText(s, [s EXCEPT !.text = v])
         /\ SameText(s, [s EXCEPT !.calls = v]) /\ SameText(s, [s EXCEPT !.client = v])
         /\ SameText(s, [s EXCEPT !.reason = v])
<1>1. SameText(s, [s EXCEPT !.created = v])  BY DEF Made, SameText
<1>2. SameText(s, [s EXCEPT !.items = v])  BY DEF Made, SameText
<1>3. SameText(s, [s EXCEPT !.thinking = v])  BY DEF Made, SameText
<1>4. SameText(s, [s EXCEPT !.text = v])  BY DEF Made, SameText
<1>5. SameText(s, [s EXCEPT !.calls = v])  BY DEF Made, SameText
<1>6. SameText(s, [s EXCEPT !.client = v])  BY DEF Made, SameText
<1>7. SameText(s, [s EXCEPT !.reason = v])  BY DEF Made, SameText
<1>8. QED  BY <1>1, <1>2, <1>3, <1>4, <1>5, <1>6, <1>7

LEMMA ThoughtChanges ==
  ASSUME NEW s, Made(s), NEW v
  PROVE  LET z == [s EXCEPT !.thought = v]
         IN /\ Made(z) /\ z.mode = s.mode /\ z.held = s.held
            /\ z.thought = v /\ z.visible = s.visible
BY DEF Made

LEMMA VisibleChanges ==
  ASSUME NEW s, Made(s), NEW v
  PROVE  LET z == [s EXCEPT !.visible = v]
         IN /\ Made(z) /\ z.mode = s.mode /\ z.held = s.held
            /\ z.thought = s.thought /\ z.visible = v
BY DEF Made

LEMMA HeldChanges ==
  ASSUME NEW s, Made(s), NEW v
  PROVE  LET z == [s EXCEPT !.held = v]
         IN /\ Made(z) /\ z.mode = s.mode /\ z.held = v
            /\ z.thought = s.thought /\ z.visible = s.visible
BY DEF Made

(* z is s in another mode. *)
Switched(s, z, held, mode) ==
    /\ Made(z) /\ z.mode = mode /\ z.held = held
    /\ z.thought = s.thought /\ z.visible = s.visible

LEMMA ModeChanges ==
  ASSUME NEW s, Made(s), NEW v, NEW w
  PROVE  Switched(s, [s EXCEPT !.held = v, !.mode = w], v, w)
<1> DEFINE b == [s EXCEPT !.held = v]
           z == [b EXCEPT !.mode = w]
<1>1. [s EXCEPT !.held = v, !.mode = w] = z
  OBVIOUS
<1>2. Made(b) /\ b.held = v /\ b.thought = s.thought /\ b.visible = s.visible
  BY HeldChanges
<1> HIDE DEF b
<1>3. /\ Made(z) /\ z.mode = w /\ z.held = b.held
      /\ z.thought = b.thought /\ z.visible = b.visible
  BY <1>2 DEF Made
<1> HIDE DEF z
<1>4. Switched(s, z, v, w)  BY <1>2, <1>3 DEF Switched
<1>5. QED  BY <1>1, <1>4

LEMMA SameTextSteps ==
  ASSUME NEW s, NEW y, NEW z, SameText(s, y), SameText(y, z)
  PROVE  SameText(s, z)
BY DEF SameText

LEMMA EmitText ==
  ASSUME NEW s, Made(s), NEW kind, NEW i
  PROVE  SameText(s, Emit(s, kind, i))
<1> DEFINE v == See(s.client, kind, i)
<1>1. Emit(s, kind, i) = [s EXCEPT !.client = v]  BY DEF Emit
<1> HIDE DEF v
<1>2. SameText(s, [s EXCEPT !.client = v])  BY SameTextFields
<1>3. QED  BY <1>1, <1>2

LEMMA CreatedText ==
  ASSUME NEW s, Made(s)
  PROVE  SameText(s, Created(s))
<1>1. SameText(s, s)  BY DEF SameText
<1> DEFINE b == [s EXCEPT !.created = TRUE]
<1>2. SameText(s, b)
  <2>1. PICK v : v = TRUE  OBVIOUS
  <2>2. SameText(s, [s EXCEPT !.created = v])  BY SameTextFields
  <2>3. QED  BY <2>1, <2>2
<1>3. Created(s) = s \/ Created(s) = Emit(b, "created", 0)  BY DEF Created
<1> HIDE DEF b
<1>4. SameText(b, Emit(b, "created", 0))  BY <1>2, EmitText DEF SameText
<1>5. SameText(s, Emit(b, "created", 0))  BY <1>2, <1>4, SameTextSteps
<1>6. QED  BY <1>1, <1>3, <1>5

LEMMA StartedText ==
  ASSUME NEW s, Made(s), NEW kind
  PROVE  SameText(s, Placed(s, kind)) /\ SameText(s, Started(s, kind))
<1> DEFINE v == Append(s.items, [kind |-> kind, status |-> "in_progress"])
           b == Placed(s, kind)
<1>1. b = [s EXCEPT !.items = v]  BY DEF Placed
<1> HIDE DEF v, b
<1>2. SameText(s, b)  BY <1>1, SameTextFields
<1>3. SameText(b, Emit(b, "added", Len(s.items) + 1))  BY <1>2, EmitText DEF SameText
<1>4. Started(s, kind) = Emit(b, "added", Len(s.items) + 1)  BY DEF Started, b
<1>5. SameText(s, Started(s, kind))  BY <1>2, <1>3, <1>4, SameTextSteps
<1>6. QED  BY <1>2, <1>5 DEF b

LEMMA BegunText ==
  ASSUME NEW s, Made(s)
  PROVE  SameText(s, BeginThink(s)) /\ SameText(s, BeginText(s))
<1>1. SameText(s, s)  BY DEF SameText
<1> DEFINE v == Len(s.items) + 1
           b == Started(s, "reasoning")
           c == Started(s, "message")
<1>2. BeginThink(s) = s \/ BeginThink(s) = [b EXCEPT !.thinking = v]  BY DEF BeginThink
<1>3. BeginText(s) = s \/ BeginText(s) = [c EXCEPT !.text = v]  BY DEF BeginText
<1> HIDE DEF v, b, c
<1>4. SameText(s, b) /\ SameText(s, c)  BY StartedText DEF b, c
<1>5. Made(b) /\ Made(c)  BY <1>4 DEF SameText
<1>6. SameText(b, [b EXCEPT !.thinking = v]) /\ SameText(c, [c EXCEPT !.text = v])
  BY <1>5, SameTextFields
<1>7. SameText(s, [b EXCEPT !.thinking = v]) /\ SameText(s, [c EXCEPT !.text = v])
  BY <1>4, <1>6, SameTextSteps
<1>8. QED  BY <1>1, <1>2, <1>3, <1>7

LEMMA ThinkText ==
  ASSUME NEW s, Made(s), NEW R, s.thought \in Seq(R), NEW what
  PROVE  LET z == Think(s, what)
         IN /\ Made(z) /\ z.mode = s.mode /\ z.held = s.held
            /\ z.thought = s.thought \o what /\ z.visible = s.visible
<1>1. CASE what = <<>>
  <2>1. Think(s, what) = s  BY <1>1 DEF Think
  <2>2. s.thought \o <<>> = s.thought
    <3>1. PICK q \in Seq(R) : q = s.thought  OBVIOUS
    <3>2. q \o <<>> = q  BY ConcatEmptySeq
    <3>3. QED  BY <3>1, <3>2
  <2>3. QED  BY <1>1, <2>1, <2>2
<1>2. CASE what # <<>>
  <2> DEFINE a == BeginThink(s)
             v == a.thought \o what
             b == [a EXCEPT !.thought = v]
             k == a.thinking
  <2>1. Think(s, what) = Emit(b, "delta", k)  BY <1>2 DEF Think
  <2> HIDE DEF v, k
  <2>2. SameText(s, a)  BY BegunText
  <2> HIDE DEF a
  <2>3. Made(a)  BY <2>2 DEF SameText
  <2>4. /\ Made(b) /\ b.mode = a.mode /\ b.held = a.held
        /\ b.thought = v /\ b.visible = a.visible
    BY <2>3, ThoughtChanges
  <2> HIDE DEF b
  <2>5. SameText(b, Emit(b, "delta", k))  BY <2>4, EmitText
  <2>6. QED  BY <2>1, <2>2, <2>4, <2>5 DEF SameText, v
<1>3. QED  BY <1>1, <1>2

LEMMA SayText ==
  ASSUME NEW s, Made(s), NEW R, s.visible \in Seq(R), NEW what
  PROVE  LET z == Say(s, what)
         IN /\ Made(z) /\ z.mode = s.mode /\ z.held = s.held
            /\ z.thought = s.thought /\ z.visible = s.visible \o what
<1>1. CASE what = <<>>
  <2>1. Say(s, what) = s  BY <1>1 DEF Say
  <2>2. s.visible \o <<>> = s.visible
    <3>1. PICK q \in Seq(R) : q = s.visible  OBVIOUS
    <3>2. q \o <<>> = q  BY ConcatEmptySeq
    <3>3. QED  BY <3>1, <3>2
  <2>3. QED  BY <1>1, <2>1, <2>2
<1>2. CASE what # <<>>
  <2> DEFINE a == BeginText(s)
             v == a.visible \o what
             b == [a EXCEPT !.visible = v]
             k == a.text
  <2>1. Say(s, what) = Emit(b, "delta", k)  BY <1>2 DEF Say
  <2> HIDE DEF v, k
  <2>2. SameText(s, a)  BY BegunText
  <2> HIDE DEF a
  <2>3. Made(a)  BY <2>2 DEF SameText
  <2>4. /\ Made(b) /\ b.mode = a.mode /\ b.held = a.held
        /\ b.thought = a.thought /\ b.visible = v
    BY <2>3, VisibleChanges
  <2> HIDE DEF b
  <2>5. SameText(b, Emit(b, "delta", k))  BY <2>4, EmitText
  <2>6. QED  BY <2>1, <2>2, <2>4, <2>5 DEF SameText, v
<1>3. QED  BY <1>1, <1>2

LEMMA EndsText ==
  ASSUME NEW s, Made(s)
  PROVE  SameText(s, EndThink(s)) /\ SameText(s, EndText(s))
<1>1. SameText(s, s)  BY DEF SameText
<1> DEFINE v(k) == [s.items EXCEPT ![k].status = "completed"]
           b(k) == [s EXCEPT !.items = v(k)]
           a(k) == Emit(b(k), "done", k)
<1>2. \A k : [s EXCEPT !.items[k].status = "completed"] = b(k)
  BY DEF Made
<1>3. EndThink(s) = s \/ EndThink(s) = [a(s.thinking) EXCEPT !.thinking = 0]
  BY <1>2 DEF EndThink
<1>4. EndText(s) = s \/ EndText(s) = [a(s.text) EXCEPT !.text = 0]
  BY <1>2 DEF EndText
<1> HIDE DEF v
<1>5. ASSUME NEW k PROVE SameText(s, a(k))
  <2>1. SameText(s, b(k))  BY SameTextFields
  <2> HIDE DEF b
  <2>2. SameText(b(k), a(k))  BY <2>1, EmitText DEF SameText
  <2>3. QED  BY <2>1, <2>2, SameTextSteps
<1> HIDE DEF b, a
<1>6. ASSUME NEW y, SameText(s, y)
      PROVE  SameText(s, [y EXCEPT !.thinking = 0]) /\ SameText(s, [y EXCEPT !.text = 0])
  <2>1. PICK m : m = 0  OBVIOUS
  <2>2. Made(y)  BY <1>6 DEF SameText
  <2>3. SameText(y, [y EXCEPT !.thinking = m]) /\ SameText(y, [y EXCEPT !.text = m])
    BY <2>2, SameTextFields
  <2>4. SameText(s, [y EXCEPT !.thinking = m]) /\ SameText(s, [y EXCEPT !.text = m])
    BY <1>6, <2>3, SameTextSteps
  <2>5. QED  BY <2>1, <2>4
<1>7. QED  BY <1>1, <1>3, <1>4, <1>5, <1>6

LEMMA CallsText ==
  ASSUME NEW s, Made(s), NEW i, NEW tool
  PROVE  /\ SameText(s, EndCall(s, i)) /\ SameText(s, Called(s, i))
         /\ SameText(s, Named(s, i, tool))
<1>1. SameText(s, s)  BY DEF SameText
<1>2. SameText(s, EndCall(s, i))
  <2> DEFINE c == s.calls[i]
             v == [s.items EXCEPT ![c.item].status = "completed"]
             w == [s.calls EXCEPT ![i].late = @ \/ c.tool = "none"]
             b == [s EXCEPT !.items = v]
             on == [b EXCEPT !.calls = w]
             told == IF c.tool = "custom" THEN Emit(on, "delta", c.item) ELSE on
             k == c.item
  <2>1. SameText(s, b)  BY SameTextFields
  <2>0. b.calls = s.calls  BY DEF Made
  <2>2. [s EXCEPT !.items[c.item].status = "completed",
                  !.calls[i].late = @ \/ c.tool = "none"] = on
    BY <2>0 DEF Made
  <2>3. EndCall(s, i) = Emit(told, "done", k)
    BY <2>2 DEF EndCall
  <2> HIDE DEF v, w, b
  <2>4. Made(b)  BY <2>1 DEF SameText
  <2>5. SameText(b, on)  BY <2>4, SameTextFields
  <2> HIDE DEF on, c
  <2>6. SameText(s, on)  BY <2>1, <2>5, SameTextSteps
  <2>7. Made(on)  BY <2>6 DEF SameText
  <2>8. SameText(on, Emit(on, "delta", c.item))  BY <2>7, EmitText
  <2>9. SameText(s, told)
    <3>1. SameText(s, Emit(on, "delta", c.item))  BY <2>6, <2>8, SameTextSteps
    <3>2. QED  BY <2>6, <3>1
  <2> HIDE DEF told, k
  <2>10. Made(told)  BY <2>9 DEF SameText
  <2>11. SameText(told, Emit(told, "done", k))  BY <2>10, EmitText
  <2>12. QED  BY <2>3, <2>9, <2>11, SameTextSteps
<1>3. SameText(s, Called(s, i))
  <2> DEFINE b == Placed(s, "call")
             w == Append(b.calls, [item |-> Len(s.items) + 1, tool |-> "none",
                                   args |-> "none", late |-> FALSE])
  <2>1. Called(s, i) = s \/ Called(s, i) = [b EXCEPT !.calls = w]
    BY DEF Called
  <2> HIDE DEF w, b
  <2>2. SameText(s, b)  BY StartedText DEF b
  <2>3. Made(b)  BY <2>2 DEF SameText
  <2>4. SameText(b, [b EXCEPT !.calls = w])  BY <2>3, SameTextFields
  <2>5. SameText(s, [b EXCEPT !.calls = w])  BY <2>2, <2>4, SameTextSteps
  <2>6. QED  BY <1>1, <2>1, <2>5
<1>4. SameText(s, Named(s, i, tool))
  <2> DEFINE w == [s.calls EXCEPT ![i].tool = tool]
             b == [s EXCEPT !.calls = w]
             k == CallItem(s, i)
  <2>1. Named(s, i, tool) = s \/ Named(s, i, tool) = Emit(b, "added", k)
    BY DEF Named
  <2> HIDE DEF w, k
  <2>2. SameText(s, b)  BY SameTextFields
  <2> HIDE DEF b
  <2>3. Made(b)  BY <2>2 DEF SameText
  <2>4. SameText(b, Emit(b, "added", k))  BY <2>3, EmitText
  <2>5. SameText(s, Emit(b, "added", k))  BY <2>2, <2>4, SameTextSteps
  <2>6. QED  BY <1>1, <2>1, <2>5
<1>5. QED  BY <1>2, <1>3, <1>4

LEMMA EndCallsText ==
  ASSUME NEW s, Made(s), Len(s.calls) \in Nat
  PROVE  SameText(s, EndCalls(s))
<1> DEFINE N == Len(s.calls)
           Runs(g, m) == g = [n \in 0 .. m |-> IF n = 0 THEN s ELSE EndCall(g[n - 1], n)]
           ended == CHOOSE g : Runs(g, N)
           T == {m \in Nat : \E g : Runs(g, m)}
           U == {m \in Nat : m <= N => SameText(s, ended[m])}
<1>1. EndCalls(s) = ended[N]
  BY DEF EndCalls
<1>2. T = Nat
  <2>1. 0 \in T
    <3> DEFINE g == [n \in 0 .. 0 |-> s]
    <3>1. Runs(g, 0)  OBVIOUS
    <3>2. QED  BY <3>1
  <2>2. ASSUME NEW m \in T PROVE m + 1 \in T
    <3>1. m \in Nat  OBVIOUS
    <3>2. PICK g : Runs(g, m)  OBVIOUS
    <3> DEFINE y == EndCall(g[m], m + 1)
               h == [n \in 0 .. (m + 1) |-> IF n = m + 1 THEN y ELSE g[n]]
    <3>3. Runs(h, m + 1)
      <4> HIDE DEF y
      <4>1. \A n \in 0 .. m : h[n] = g[n]  BY <3>1
      <4>2. h[m + 1] = y  BY <3>1
      <4>3. \A n \in 0 .. (m + 1) : h[n] = IF n = 0 THEN s ELSE EndCall(h[n - 1], n)
        <5> TAKE n \in 0 .. (m + 1)
        <5>1. CASE n = m + 1
          <6>1. n - 1 = m /\ n # 0 /\ m \in 0 .. m  BY <5>1, <3>1
          <6>2. h[n - 1] = g[m]  BY <6>1, <4>1
          <6>3. QED  BY <5>1, <6>1, <6>2, <4>2 DEF y
        <5>2. CASE n \in 0 .. m
          <6>1. n = 0 \/ n - 1 \in 0 .. m  BY <5>2, <3>1
          <6>2. g[n] = IF n = 0 THEN s ELSE EndCall(g[n - 1], n)
            BY <3>2, <5>2
          <6>3. QED  BY <5>2, <6>1, <6>2, <4>1
        <5>3. QED  BY <5>1, <5>2, <3>1
      <4>4. h = [n \in 0 .. (m + 1) |-> h[n]]  OBVIOUS
      <4> HIDE DEF h
      <4>5. QED  BY <4>3, <4>4
    <3>4. m + 1 \in Nat  BY <3>1
    <3>5. QED  BY <3>3, <3>4
  <2> HIDE DEF T
  <2>3. T \in SUBSET Nat  BY DEF T
  <2>4. QED  BY <2>1, <2>2, <2>3, NaturalsReached
<1>3. N \in Nat  OBVIOUS
<1>4. Runs(ended, N)
  <2>1. \E g : Runs(g, N)  BY <1>2, <1>3
  <2>2. QED  BY <2>1
<1> HIDE DEF ended
<1>5. ended[0] = s /\ \A n \in 1 .. N : ended[n] = EndCall(ended[n - 1], n)
  <2>1. ended[0] = s  BY <1>3, <1>4
  <2>2. ASSUME NEW n \in 1 .. N PROVE ended[n] = EndCall(ended[n - 1], n)
    <3>1. n \in 0 .. N /\ n # 0  BY <1>3
    <3>2. QED  BY <1>4, <3>1, Zenon
  <2>3. QED  BY <2>1, <2>2
<1>6. U = Nat
  <2>1. 0 \in U
    <3>1. SameText(s, s)  BY DEF SameText
    <3>2. QED  BY <1>5, <3>1
  <2>2. ASSUME NEW m \in U PROVE m + 1 \in U
    <3>1. m \in Nat /\ m + 1 \in Nat  OBVIOUS
    <3>2. SUFFICES ASSUME m + 1 <= N PROVE SameText(s, ended[m + 1])
      BY <3>1
    <3>3. SameText(s, ended[m])
      <4>1. m <= N  BY <1>3, <3>1, <3>2
      <4>2. QED  BY <4>1
    <3>4. PICK n \in 1 .. N : n = m + 1 /\ n - 1 = m
      <4>1. m + 1 \in 1 .. N /\ m + 1 - 1 = m  BY <1>3, <3>1, <3>2
      <4>2. QED  BY <4>1
    <3> DEFINE y == ended[m]
    <3>5. ended[n] = EndCall(y, n)  BY <1>5, <3>4
    <3> HIDE DEF y
    <3>6. SameText(s, y)  BY <3>3 DEF y
    <3>7. Made(y)  BY <3>6 DEF SameText
    <3>8. SameText(y, EndCall(y, n))  BY <3>7, CallsText
    <3>9. SameText(s, EndCall(y, n))  BY <3>6, <3>8, SameTextSteps
    <3>10. QED  BY <3>4, <3>5, <3>9
  <2> HIDE DEF U
  <2>3. U \in SUBSET Nat  BY DEF U
  <2>4. QED  BY <2>1, <2>2, <2>3, NaturalsReached
<1>7. N \in U  BY <1>3, <1>6
<1>8. QED  BY <1>1, <1>3, <1>7

LEMMA FlushText ==
  ASSUME NEW s, Made(s), NEW R, s.thought \in Seq(R), s.visible \in Seq(R)
  PROVE  LET z == Flush(s)
         IN /\ Made(z) /\ z.held = <<>>
            /\ z.mode = IF s.mode = "reasoning" /\ s.held = <<>> THEN s.mode ELSE "text"
            /\ z.thought = IF s.mode = "reasoning" THEN s.thought \o s.held ELSE s.thought
            /\ z.visible = IF s.mode = "reasoning" THEN s.visible ELSE s.visible \o s.held
<1> DEFINE v == <<>>
           w == IF s.mode = "reasoning" /\ s.held = <<>> THEN s.mode ELSE "text"
           let == [s EXCEPT !.held = v, !.mode = w]
<1>1. Flush(s) = IF s.mode = "reasoning" THEN Think(let, s.held) ELSE Say(let, s.held)
  BY DEF Flush, Made
<1> HIDE DEF v, w
<1>2. /\ Made(let) /\ let.mode = w /\ let.held = v
      /\ let.thought = s.thought /\ let.visible = s.visible
  <2>1. Switched(s, let, v, w)  BY ModeChanges
  <2> HIDE DEF let
  <2>2. QED  BY <2>1 DEF Switched
<1> HIDE DEF let
<1>3. let.thought \in Seq(R) /\ let.visible \in Seq(R)  BY <1>2
<1>4. ASSUME NEW what
      PROVE  LET z == Think(let, what)
             IN /\ Made(z) /\ z.mode = let.mode /\ z.held = let.held
                /\ z.thought = let.thought \o what /\ z.visible = let.visible
  BY <1>2, <1>3, ThinkText
<1>5. ASSUME NEW what
      PROVE  LET z == Say(let, what)
             IN /\ Made(z) /\ z.mode = let.mode /\ z.held = let.held
                /\ z.thought = let.thought /\ z.visible = let.visible \o what
  BY <1>2, <1>3, SayText
<1>6. CASE s.mode = "reasoning"
  <2>1. Flush(s) = Think(let, s.held)  BY <1>1, <1>6
  <2>2. QED  BY <1>2, <1>4, <1>6, <2>1 DEF v, w
<1>7. CASE s.mode # "reasoning"
  <2>1. Flush(s) = Say(let, s.held)  BY <1>1, <1>7
  <2>2. QED  BY <1>2, <1>5, <1>7, <2>1 DEF v, w
<1>8. QED  BY <1>6, <1>7

-----------------------------------------------------------------------------
(* What was made of the content so far. *)

AfterOpen(P) == SubSeq(P, Len(Open) + 1, Len(P))

Thinking(held, thought, visible, R) ==
    /\ ~Has(R, Close) /\ thought \o held = R /\ Len(held) = Keep(R) /\ visible = <<>>

Answering(thought, visible, R) ==
    Has(R, Close) /\ thought = Before(R, Close) /\ visible = After(R, Close)

(* P is the content so far.  Until it is clear whether it opens with the tag *)
(* it is all held back; then nothing is that is no part of a closing tag.    *)
Read(mode, held, thought, visible, P) ==
    /\ mode \in {"detecting", "text", "reasoning"}
    /\ mode = "detecting" =>
          held = P /\ IsPrefix(P, Open) /\ thought = <<>> /\ visible = <<>>
    /\ mode = "text" => held = <<>>
    /\ mode = "reasoning" => IsStrictPrefix(held, Close)
    /\ mode # "detecting" =>
          /\ ~IsStrictPrefix(P, Open)
          /\ ~Has(P, Open) => mode = "text" /\ thought = <<>> /\ visible = P
          /\ IsPrefix(Open, P) /\ ~Has(AfterOpen(P), Open) =>
                \/ mode = "reasoning" /\ Thinking(held, thought, visible, AfterOpen(P))
                \/ mode = "text" /\ Answering(thought, visible, AfterOpen(P))

LEMMA TagNames == Open = Tag("o") /\ Close = Tag("c") /\ Len(Open) = 3
BY DEF Open, Close, Tag

(* Content that is more than the opening tag stays so.                       *)
LEMMA OpenStays ==
  ASSUME NEW S, NEW P \in Seq(S), NEW d \in Seq(S), ~IsStrictPrefix(P, Open)
  PROVE  /\ ~IsStrictPrefix(P \o d, Open)
         /\ IsPrefix(Open, P \o d) => /\ IsPrefix(Open, P)
                                      /\ AfterOpen(P \o d) = AfterOpen(P) \o d
                                      /\ AfterOpen(P) \in Seq(S)
<1> DEFINE z == P \o d
<1>0. PICK m, n \in Nat : m = Len(P) /\ n = Len(d)  OBVIOUS
<1>1. /\ z \in Seq(S) /\ Len(z) = m + n
      /\ \A i \in 1 .. m : z[i] = P[i]
  <2>1. /\ z \in Seq(S) /\ Len(z) = Len(P) + Len(d)
        /\ \A i \in 1 .. Len(P) : z[i] = P[i]
    BY Glued
  <2> HIDE DEF z
  <2>2. QED  BY <1>0, <2>1
<1> HIDE DEF z
<1>2. /\ IsStrictPrefix(P, Open) <=> Begins(P, "o") /\ Len(P) <= 2
      /\ IsStrictPrefix(z, Open) <=> Begins(z, "o") /\ Len(z) <= 2
      /\ IsPrefix(Open, P) <=> TagAt(P, 1, "o")
      /\ IsPrefix(Open, z) <=> TagAt(z, 1, "o")
  BY <1>1, TagNames, StrictPrefixes, TagPrefixes
<1>3. ASSUME Len(z) <= 2 \/ Len(P) <= 2, Begins(z, "o") \/ TagAt(z, 1, "o"), m <= 2
      PROVE  Begins(P, "o") /\ Len(P) <= 2
  <2>1. (m + n >= 1 => z[1] = "<") /\ (m + n >= 2 => z[2] = "o")
    BY <1>0, <1>1, <1>3 DEF Begins, TagAt
  <2>2. (m >= 1 => P[1] = "<") /\ (m >= 2 => P[2] = "o")
    <3>1. m >= 1 => 1 \in 1 .. m /\ m + n >= 1  BY <1>0
    <3>2. m >= 2 => 2 \in 1 .. m /\ m + n >= 2  BY <1>0
    <3>3. QED  BY <1>1, <2>1, <3>1, <3>2
  <2>3. Begins(P, "o") <=> /\ m <= 3 /\ (m >= 1 => P[1] = "<")
                           /\ (m >= 2 => P[2] = "o") /\ (m >= 3 => P[3] = ">")
    BY <1>0 DEF Begins
  <2>4. m <= 3 /\ ~(m >= 3) /\ Len(P) <= 2  BY <1>0, <1>3
  <2>5. QED  BY <2>2, <2>3, <2>4
<1>4. ~IsStrictPrefix(z, Open)
  <2>1. Len(z) <= 2 => m <= 2  BY <1>0, <1>1
  <2>2. QED  BY <1>2, <1>3, <2>1
<1>5. ASSUME IsPrefix(Open, z)
      PROVE  /\ IsPrefix(Open, P)
             /\ AfterOpen(z) = AfterOpen(P) \o d /\ AfterOpen(P) \in Seq(S)
  <2>1. TagAt(z, 1, "o")  BY <1>2, <1>5
  <2>2. m >= 3
    <3>1. m <= 2 => Len(P) <= 2  BY <1>0
    <3>2. ~(m <= 2)  BY <1>2, <1>3, <2>1, <3>1
    <3>3. QED  BY <1>0, <3>2
  <2>3. TagAt(P, 1, "o")
    <3>1. 1 + 2 <= Len(P)  BY <1>0, <2>2
    <3>2. \A i : TagAt(P \o d, i, "o") /\ i + 2 <= Len(P) => TagAt(P, i, "o")
      BY TagStays
    <3>3. QED  BY <2>1, <3>1, <3>2 DEF z
  <2>4. AfterOpen(z) = SubSeq(z, 4, m + n) /\ AfterOpen(P) = SubSeq(P, 4, m)
    <3>1. Len(Open) + 1 = 4  BY DEF Open
    <3>2. AfterOpen(z) = SubSeq(z, 4, Len(z)) /\ AfterOpen(P) = SubSeq(P, 4, Len(P))
      BY <3>1 DEF AfterOpen
    <3>3. QED  BY <1>0, <1>1, <3>2
  (* P is its first three characters and the rest. *)
  <2> DEFINE p == SubSeq(P, 1, 3)
             q == SubSeq(P, 4, m)
  <2>5. p \in Seq(S) /\ Len(p) = 3 /\ q \in Seq(S) /\ p \o q = P
    <3>1. PICK a \in Nat \ {0}, j \in 0 .. Len(P), h \in 0 .. Len(P) : a = 1 /\ j = 3 /\ h = m
      <4>1. 3 \in 0 .. Len(P) /\ m \in 0 .. Len(P)  BY <1>0, <2>2
      <4>2. QED  BY <4>1
    <3>2. /\ SubSeq(P, a, j) \in Seq(S)
          /\ Len(SubSeq(P, a, j)) = (IF a <= j THEN j - a + 1 ELSE 0)
      BY Cut
    <3>3. /\ a \in 1 .. Len(P) + 1 /\ j \in (a - 1) .. Len(P) /\ h \in j .. Len(P)
          /\ j + 1 = 4 /\ j + 1 \in Nat \ {0}
      BY <1>0, <2>2, <3>1
    <3>4. SubSeq(P, a, j) \o SubSeq(P, j + 1, h) = SubSeq(P, a, h)
      BY <3>3, ConcatAdjacentSubSeq
    <3>5. SubSeq(P, j + 1, h) \in Seq(S)  BY <3>3, Cut
    <3>6. SubSeq(P, a, h) = P  BY <1>0, <3>1, SubSeqFull
    <3>7. Len(p) = 3
      <4>1. Len(p) = (IF a <= j THEN j - a + 1 ELSE 0)  BY <3>1, <3>2
      <4> HIDE DEF p
      <4>2. QED  BY <3>1, <4>1
    <3>8. QED  BY <3>1, <3>2, <3>3, <3>4, <3>5, <3>6, <3>7
  <2> HIDE DEF p, q
  <2> DEFINE y == q \o d
  <2>6. y \in Seq(S) /\ Len(y) = Len(q) + n /\ z = p \o y
    <3>1. p \in Seq(S) /\ q \in Seq(S)  BY <2>5
    <3>2. y \in Seq(S) /\ Len(y) = Len(q) + Len(d)  BY <3>1, Glued
    <3>3. (p \o q) \o d = p \o (q \o d)
      <4>1. Regrouped(p, q, d)  BY <3>1, Regroups
      <4>2. QED  BY <4>1 DEF Regrouped
    <3>4. (p \o q) \o d = z  BY <2>5 DEF z
    <3> HIDE DEF y
    <3>5. z = p \o y  BY <3>3, <3>4 DEF y
    <3>6. QED  BY <1>0, <3>2, <3>5
  <2> HIDE DEF y
  <2>7. SubSeq(z, 4, m + n) = y
    <3>1. PICK k \in 0 .. Len(y) : k = 0  BY <2>6
    <3>2. p \in Seq(S) /\ y \in Seq(S)  BY <2>5, <2>6
    <3>3. SubSeq(p \o y, Len(p) + k + 1, Len(p) + Len(y)) = SubSeq(y, k + 1, Len(y))
      BY <3>2, Shifted
    <3>4. Len(z) = Len(p) + Len(y)
      <4>1. Len(p \o y) = Len(p) + Len(y)  BY <3>2, Glued
      <4>2. QED  BY <2>6, <4>1
    <3>5. Len(p) + k + 1 = 4 /\ Len(p) + Len(y) = m + n /\ k + 1 = 1
      BY <1>1, <2>5, <3>1, <3>4
    <3>6. SubSeq(y, 1, Len(y)) = y  BY <2>6, SubSeqFull
    <3>7. QED  BY <2>6, <3>3, <3>5, <3>6
  <2>8. QED  BY <1>2, <2>3, <2>4, <2>5, <2>7 DEF y, q
<1>6. QED  BY <1>4, <1>5 DEF z

(* The same, by the tag.                                                     *)
CutAfter(S, b, tag) ==
    \E c \in Seq(S) :
       /\ After(b, tag) \in Seq(S) /\ b = c \o After(b, tag)
       /\ Before(b, tag) \in Seq(S) /\ Len(c) >= 3 /\ Has(c, tag)
       /\ Before(c, tag) = Before(b, tag) /\ After(c, tag) = <<>>
       /\ IsPrefix(tag, c) => Len(c) = 3 /\ Before(b, tag) = <<>>

LEMMA TagCut ==
  ASSUME NEW S, NEW b \in Seq(S), NEW tag \in {Open, Close}, Has(b, tag)
  PROVE  CutAfter(S, b, tag)
<1>1. PICK x : tag = Tag(x)  BY TagNames
<1>2. Has(b, Tag(x))  BY <1>1
<1>3. PICK c \in Seq(S) :
         /\ After(b, Tag(x)) \in Seq(S) /\ b = c \o After(b, Tag(x))
         /\ Before(b, Tag(x)) \in Seq(S) /\ Len(c) >= 3 /\ Has(c, Tag(x))
         /\ Before(c, Tag(x)) = Before(b, Tag(x)) /\ After(c, Tag(x)) = <<>>
         /\ TagAt(c, 1, x) => Len(c) = 3 /\ Before(b, Tag(x)) = <<>>
  BY ONLY <1>2, b \in Seq(S), FirstCut, ZenonT(60)
<1>4. IsPrefix(tag, c) => TagAt(c, 1, x)  BY <1>1, TagPrefixes
<1>5. /\ After(b, tag) \in Seq(S) /\ b = c \o After(b, tag)
      /\ Before(b, tag) \in Seq(S) /\ Len(c) >= 3 /\ Has(c, tag)
      /\ Before(c, tag) = Before(b, tag) /\ After(c, tag) = <<>>
      /\ TagAt(c, 1, x) => Len(c) = 3 /\ Before(b, tag) = <<>>
  BY <1>1, <1>3
<1>6. QED  BY <1>4, <1>5, Zenon DEF CutAfter

(* What may be held back is shorter than a tag, and less than one is none.   *)
LEMMA ShortOfTag ==
  ASSUME NEW S, NEW h \in Seq(S)
  PROVE  /\ IsStrictPrefix(h, Close) => Len(h) <= 2
         /\ IsPrefix(h, Open) => Len(h) <= 3
         /\ Len(h) >= 3 => ~IsStrictPrefix(h, Open)
         /\ ~Has(h, Open) => ~IsPrefix(Open, h)
         /\ IsPrefix(Open, h) => TagAt(h, 1, "o")
<1>1. /\ IsStrictPrefix(h, Close) <=> Begins(h, "c") /\ Len(h) <= 2
      /\ IsStrictPrefix(h, Open) <=> Begins(h, "o") /\ Len(h) <= 2
      /\ IsPrefix(Open, h) <=> TagAt(h, 1, "o")
      /\ IsPrefix(h, Open) <=> Begins(h, "o")
  BY TagNames, StrictPrefixes, TagPrefixes
<1>2. PICK n \in Nat : n = Len(h)  OBVIOUS
<1>3. Begins(h, "o") => n <= 3  BY <1>2 DEF Begins
<1>4. Has(h, Open) <=> \E i \in 1 .. Len(h) : TagAt(h, i, "o")  BY TagNames, HasAt
<1>5. TagAt(h, 1, "o") => 1 \in 1 .. n  BY <1>2 DEF TagAt
<1>6. n >= 3 => ~(n <= 2)  OBVIOUS
<1>7. QED  BY <1>1, <1>2, <1>3, <1>4, <1>5, <1>6

LEMMA NothingHeld ==
  /\ IsStrictPrefix(<<>>, Close) /\ IsPrefix(<<>>, Open)
  /\ ~Has(<<>>, Close) /\ ~Has(<<>>, Open) /\ Keep(<<>>) = 0
<1>1. PICK e \in Seq({0}) : e = <<>> /\ Len(e) = 0
  <2>1. <<>> \in Seq({0}) /\ Len(<<>>) = 0  OBVIOUS
  <2>2. QED  BY <2>1
<1>2. Begins(e, "c") /\ Begins(e, "o")  BY <1>1 DEF Begins
<1>3. \A i : ~TagAt(e, i, "c") /\ ~TagAt(e, i, "o")  BY <1>1 DEF TagAt
<1>4. /\ IsStrictPrefix(e, Close) <=> Begins(e, "c") /\ Len(e) <= 2
      /\ IsPrefix(e, Open) <=> Begins(e, "o")
  BY TagNames, StrictPrefixes, TagPrefixes
<1>5. /\ Has(e, Close) <=> \E i \in 1 .. Len(e) : TagAt(e, i, "c")
      /\ Has(e, Open) <=> \E i \in 1 .. Len(e) : TagAt(e, i, "o")
  BY TagNames, HasAt
<1>6. Keep(e) = 0
  <2>1. Keep(e) = IF Len(e) >= 2 /\ e[Len(e) - 1] = "<" /\ e[Len(e)] = "c" THEN 2
                  ELSE IF Len(e) >= 1 /\ e[Len(e)] = "<" THEN 1 ELSE 0
    BY KeepIs
  <2>2. ~(Len(e) >= 2) /\ ~(Len(e) >= 1)  BY <1>1
  <2>3. QED  BY <2>1, <2>2
<1>7. Len(e) <= 2  BY <1>1
<1>8. QED  BY <1>1, <1>2, <1>3, <1>4, <1>5, <1>6, <1>7

(* A thought that is not over: what goes out and what is held back.          *)
LEMMA HeldIs ==
  ASSUME NEW S, NEW b \in Seq(S)
  PROVE  LET n == Len(b) - Keep(b)
         IN /\ SubSeq(b, 1, n) \in Seq(S) /\ SubSeq(b, n + 1, Len(b)) \in Seq(S)
            /\ SubSeq(b, 1, n) \o SubSeq(b, n + 1, Len(b)) = b
            /\ Len(SubSeq(b, n + 1, Len(b))) = Keep(b)
            /\ IsStrictPrefix(SubSeq(b, n + 1, Len(b)), Close)
<1>0. PICK m \in Nat : m = Len(b)  OBVIOUS
<1>1. Keep(b) = IF m >= 2 /\ b[m - 1] = "<" /\ b[m] = "c" THEN 2
                ELSE IF m >= 1 /\ b[m] = "<" THEN 1 ELSE 0
  BY <1>0, KeepIs
<1>2. Keep(b) \in 0 .. 2 /\ Keep(b) <= m  BY <1>1
<1>3. PICK k \in 0 .. 2 : k = Keep(b) /\ k <= m  BY <1>2
<1>4. PICK n \in 0 .. Len(b) : n = m - k /\ n = Len(b) - Keep(b)
  <2>1. m - k \in 0 .. Len(b)  BY <1>0, <1>3
  <2>2. QED  BY <1>0, <1>3, <2>1
<1> DEFINE h == SubSeq(b, n + 1, m)
<1>5. PICK a \in Nat \ {0}, j \in 0 .. Len(b) : a = 1 /\ j = m  BY <1>0
<1>6. SubSeq(b, a, n) \in Seq(S)  BY Cut
<1>7. SubSeq(b, a, n) \o SubSeq(b, n + 1, j) = SubSeq(b, a, j)
  <2>1. a \in 1 .. Len(b) + 1 /\ n \in (a - 1) .. Len(b) /\ j \in n .. Len(b)
    BY <1>0, <1>4, <1>5
  <2>2. QED  BY <2>1, ConcatAdjacentSubSeq
<1>8. SubSeq(b, a, j) = b  BY <1>0, <1>5, SubSeqFull
<1>9. h \in Seq(S) /\ Len(h) = k /\ \A i \in 1 .. k : h[i] = b[n + i]
  <2>1. PICK c \in Nat \ {0} : c = n + 1  BY <1>4
  <2>2. /\ SubSeq(b, c, j) \in Seq(S)
        /\ Len(SubSeq(b, c, j)) = IF c <= j THEN j - c + 1 ELSE 0
        /\ \A i \in 1 .. (j - c + 1) : SubSeq(b, c, j)[i] = b[c + i - 1]
    BY Cut
  <2>3. h = SubSeq(b, c, j)  BY <1>5, <2>1
  <2> HIDE DEF h
  <2>4. j - c + 1 = k /\ (c <= j <=> k > 0)  BY <1>3, <1>4, <1>5, <2>1
  <2>5. \A i \in 1 .. k : c + i - 1 = n + i  BY <2>1
  <2>6. QED  BY <1>3, <2>2, <2>3, <2>4, <2>5
<1> HIDE DEF h
<1>10. IsStrictPrefix(h, Close) <=> Begins(h, "c") /\ Len(h) <= 2
  BY <1>9, TagNames, StrictPrefixes
<1>11. Begins(h, "c")
  <2>1. Begins(h, "c") <=> /\ k <= 3 /\ (k >= 1 => h[1] = "<")
                           /\ (k >= 2 => h[2] = "c") /\ (k >= 3 => h[3] = ">")
    BY <1>9 DEF Begins
  <2>2. k <= 3 /\ ~(k >= 3)  BY <1>3
  <2>3. k = 2 => n + 1 = m - 1 /\ n + 2 = m /\ b[m - 1] = "<" /\ b[m] = "c"
    BY <1>1, <1>3, <1>4
  <2>4. k = 1 => n + 1 = m /\ b[m] = "<"  BY <1>1, <1>3, <1>4
  <2>5. k >= 1 => h[1] = "<"
    <3>1. k >= 1 => h[1] = b[n + 1] /\ (k = 1 \/ k = 2)  BY <1>3, <1>9
    <3>2. QED  BY <2>3, <2>4, <3>1
  <2>6. k >= 2 => h[2] = "c"
    <3>1. k >= 2 => h[2] = b[n + 2] /\ k = 2  BY <1>3, <1>9
    <3>2. QED  BY <2>3, <3>1
  <2>7. QED  BY <2>1, <2>2, <2>5, <2>6
<1>12. Len(h) <= 2  BY <1>3, <1>9
<1>13. QED  BY <1>0, <1>3, <1>4, <1>5, <1>6, <1>7, <1>8, <1>9, <1>10, <1>11, <1>12 DEF h

-----------------------------------------------------------------------------
(* One turn of the loop. *)

(* The closing tag came.                                                     *)
LEMMA ThoughtCloses ==
  ASSUME NEW S, NEW P \in Seq(S), NEW h \in Seq(S), NEW th \in Seq(S), NEW vi \in Seq(S),
         NEW rest \in Seq(S), Read("reasoning", h, th, vi, P), Has(h \o rest, Close)
  PROVE  LET b == h \o rest
         IN /\ Before(b, Close) \in Seq(S) /\ After(b, Close) \in Seq(S)
            /\ \E d \in Seq(S) :
                  /\ rest = d \o After(b, Close) /\ Len(d) > 0
                  /\ Read("text", <<>>, th \o Before(b, Close), vi, P \o d)
<1> DEFINE b == h \o rest
           A == After(b, Close)
           B == Before(b, Close)
           R == AfterOpen(P)
<1>0. b \in Seq(S)
  <2>1. h \in Seq(S) /\ rest \in Seq(S)  OBVIOUS
  <2>2. QED  BY ONLY <2>1, Glued
<1>1. Close = Tag("c") /\ Open = Tag("o")  BY TagNames
<1>2. PICK c \in Seq(S) :
          /\ A \in Seq(S) /\ b = c \o A /\ B \in Seq(S) /\ Len(c) >= 3
          /\ Has(c, Close) /\ Before(c, Close) = B /\ After(c, Close) = <<>>
  <2> HIDE DEF b
  <2>1. Close \in {Open, Close} /\ Has(b, Close)  BY DEF b
  <2>2. CutAfter(S, b, Close)  BY ONLY <1>0, <2>1, TagCut
  <2>3. QED  BY <2>2, Zenon DEF CutAfter
<1>3. /\ IsStrictPrefix(h, Close) /\ Len(h) <= 2
      /\ ~IsStrictPrefix(P, Open) /\ Has(P, Open)
      /\ IsPrefix(Open, P) /\ ~Has(R, Open) => Thinking(h, th, vi, R)
  <2>1. /\ IsStrictPrefix(h, Close) /\ ~IsStrictPrefix(P, Open) /\ Has(P, Open)
        /\ IsPrefix(Open, P) /\ ~Has(R, Open) => Thinking(h, th, vi, R)
    BY DEF Read
  <2>2. QED  BY <2>1, ShortOfTag
<1> HIDE DEF A, B, R
<1>4. PICK d \in Seq(S) : c = h \o d /\ rest = d \o A /\ Len(d) = Len(c) - Len(h)
  <2>1. h \o rest = c \o A  BY <1>2 DEF b
  <2>2. Len(h) <= Len(c)
    <3>1. PICK m, n \in Nat : m = Len(h) /\ n = Len(c)  BY <1>2
    <3>2. m <= n  BY <1>2, <1>3, <3>1
    <3>3. QED  BY <3>1, <3>2
  <2>3. A \in Seq(S) /\ c \in Seq(S)  BY <1>2
  <2>4. CutTwice(h, rest, c, A)  BY <2>1, <2>2 DEF CutTwice
  <2>5. Between(S, h, rest, c, A)
    BY ONLY <2>3, <2>4, h \in Seq(S), rest \in Seq(S), Splits
  <2>6. QED  BY <2>5 DEF Between
<1>5. Len(d) > 0 /\ d # <<>>
  <2>1. PICK m, n \in Nat : m = Len(h) /\ n = Len(c)  BY <1>2
  <2>2. Len(d) > 0  BY <1>2, <1>3, <1>4, <2>1
  <2>3. QED  BY <2>2
<1>6. /\ ~IsStrictPrefix(P \o d, Open)
      /\ IsPrefix(Open, P \o d) => /\ IsPrefix(Open, P) /\ AfterOpen(P \o d) = R \o d
                                   /\ R \in Seq(S)
  BY <1>3, OpenStays DEF R
<1>7. Has(P \o d, Open)  BY <1>1, <1>3, HasMore
<1>8. ASSUME IsPrefix(Open, P \o d), ~Has(AfterOpen(P \o d), Open)
      PROVE  Answering(th \o B, vi, AfterOpen(P \o d))
  <2>1. R \in Seq(S) /\ AfterOpen(P \o d) = R \o d /\ IsPrefix(Open, P)  BY <1>6, <1>8
  <2>2. ~Has(R, Open)
    <3>1. Has(R, Open) => Has(R \o d, Open)  BY <1>1, <2>1, HasMore
    <3>2. QED  BY <1>8, <2>1, <3>1
  <2>3. ~Has(R, Close) /\ th \o h = R /\ Len(h) = Keep(R) /\ vi = <<>>
    BY <1>3, <2>1, <2>2 DEF Thinking
  <2>4. /\ th \o (h \o d) = (th \o h) \o d
        /\ Has(th \o (h \o d), Close) <=> Has(h \o d, Close)
        /\ Has(h \o d, Close) =>
              /\ Before(th \o (h \o d), Close) = th \o Before(h \o d, Close)
              /\ After(th \o (h \o d), Close) = After(h \o d, Close)
    <3>1. Len(h) = Keep(th \o h) /\ ~Has(th \o h, Close)  BY <2>3
    <3>2. QED
      BY ONLY <1>5, <3>1, th \in Seq(S), h \in Seq(S), d \in Seq(S), HeldBack, SMTT(60)
  <2>5. /\ th \o c = R \o d /\ Has(th \o c, Close)
        /\ Before(th \o c, Close) = th \o B /\ After(th \o c, Close) = <<>>
    BY <1>2, <1>4, <2>3, <2>4
  <2>6. QED  BY <2>1, <2>3, <2>5 DEF Answering
<1>9. Read("text", <<>>, th \o B, vi, P \o d)
  BY <1>6, <1>7, <1>8, Zenon DEF Read
<1>10. QED  BY <1>2, <1>4, <1>5, <1>9 DEF A, B

(* It did not: all but the beginning of one goes out.                        *)
LEMMA ThoughtGoesOn ==
  ASSUME NEW S, NEW P \in Seq(S), NEW h \in Seq(S), NEW th \in Seq(S), NEW vi \in Seq(S),
         NEW rest \in Seq(S), Read("reasoning", h, th, vi, P), rest # <<>>,
         ~Has(h \o rest, Close)
  PROVE  LET b == h \o rest
             n == Len(b) - Keep(b)
             out == SubSeq(b, 1, n)
             kept == SubSeq(b, n + 1, Len(b))
         IN /\ out \in Seq(S) /\ kept \in Seq(S)
            /\ Read("reasoning", kept, th \o out, vi, P \o rest)
<1> DEFINE b == h \o rest
           n == Len(b) - Keep(b)
           out == SubSeq(b, 1, n)
           kept == SubSeq(b, n + 1, Len(b))
           R == AfterOpen(P)
<1>0. b \in Seq(S)
  <2>1. h \in Seq(S) /\ rest \in Seq(S)  OBVIOUS
  <2>2. QED  BY ONLY <2>1, Glued
<1>1. Close = Tag("c") /\ Open = Tag("o")  BY TagNames
<1>2. /\ out \in Seq(S) /\ kept \in Seq(S) /\ out \o kept = b
      /\ Len(kept) = Keep(b) /\ IsStrictPrefix(kept, Close)
  <2> HIDE DEF b
  <2>1. QED  BY <1>0, HeldIs
<1>3. /\ ~IsStrictPrefix(P, Open) /\ Has(P, Open)
      /\ IsPrefix(Open, P) /\ ~Has(R, Open) => Thinking(h, th, vi, R)
  BY DEF Read
<1> HIDE DEF out, kept, n, R
<1>6. /\ ~IsStrictPrefix(P \o rest, Open)
      /\ IsPrefix(Open, P \o rest) => /\ IsPrefix(Open, P)
                                      /\ AfterOpen(P \o rest) = R \o rest
                                      /\ R \in Seq(S)
  BY <1>3, OpenStays DEF R
<1>7. Has(P \o rest, Open)  BY <1>1, <1>3, HasMore
<1>8. ASSUME IsPrefix(Open, P \o rest), ~Has(AfterOpen(P \o rest), Open)
      PROVE  Thinking(kept, th \o out, vi, AfterOpen(P \o rest))
  <2>1. R \in Seq(S) /\ AfterOpen(P \o rest) = R \o rest /\ IsPrefix(Open, P)
    BY <1>6, <1>8
  <2>2. ~Has(R, Open)
    <3>1. Has(R, Open) => Has(R \o rest, Open)  BY <1>1, <2>1, HasMore
    <3>2. QED  BY <1>8, <2>1, <3>1
  <2>3. ~Has(R, Close) /\ th \o h = R /\ Len(h) = Keep(R) /\ vi = <<>>
    BY <1>3, <2>1, <2>2 DEF Thinking
  <2>4. /\ th \o b = (th \o h) \o rest
        /\ Has(th \o b, Close) <=> Has(b, Close)
        /\ Keep(th \o b) = Keep(b)
    <3>1. Len(h) = Keep(th \o h) /\ ~Has(th \o h, Close)  BY <2>3
    <3>2. QED
      BY ONLY <3>1, rest # <<>>, th \in Seq(S), h \in Seq(S), rest \in Seq(S), HeldBack, SMTT(60)
  <2> HIDE DEF b
  <2>5. (th \o out) \o kept = th \o b
    <3>1. Regrouped(th, out, kept)  BY <1>2, Regroups
    <3>2. QED  BY <1>2, <3>1 DEF Regrouped
  <2>6. th \o b = R \o rest /\ ~Has(b, Close)  BY <2>3, <2>4 DEF b
  <2>7. QED  BY <1>2, <2>1, <2>3, <2>4, <2>5, <2>6 DEF Thinking
<1>9. Read("reasoning", kept, th \o out, vi, P \o rest)
  BY <1>2, <1>6, <1>7, <1>8, Zenon DEF Read
<1>10. QED  BY <1>2, <1>9 DEF out, kept, n

(* What may become the opening tag is held back.                             *)
LEMMA StillDetecting ==
  ASSUME NEW P, NEW h, NEW th, NEW vi, NEW rest,
         Read("detecting", h, th, vi, P), IsPrefix(h \o rest, Open)
  PROVE  Read("detecting", h \o rest, th, vi, P \o rest)
<1>1. h = P /\ th = <<>> /\ vi = <<>>  BY DEF Read
<1>2. h \o rest = P \o rest  BY <1>1
<1>3. QED  BY <1>1, <1>2, Zenon DEF Read

(* The opening tag came.                                                     *)
OpensIn(S, P, th, vi, rest, mode, b) ==
    /\ Before(b, Open) \in Seq(S) /\ After(b, Open) \in Seq(S)
    /\ \E d \in Seq(S) :
          /\ rest = d \o After(b, Open) /\ (mode = "text" => Len(d) > 0)
          /\ Read("reasoning", <<>>, th, vi \o Before(b, Open), P \o d)

LEMMA ThoughtOpens ==
  ASSUME NEW S, NEW P \in Seq(S), NEW h \in Seq(S), NEW th \in Seq(S), NEW vi \in Seq(S),
         NEW rest \in Seq(S), NEW mode, mode # "reasoning",
         Read(mode, h, th, vi, P), Has(h \o rest, Open)
  PROVE  OpensIn(S, P, th, vi, rest, mode, h \o rest)
<1> DEFINE b == h \o rest
           A == After(b, Open)
           B == Before(b, Open)
           R == AfterOpen(P)
<1>m. mode \in {"detecting", "text"}  BY DEF Read
<1>0. b \in Seq(S)
  <2>1. h \in Seq(S) /\ rest \in Seq(S)  OBVIOUS
  <2>2. QED  BY ONLY <2>1, Glued
<1>1. Close = Tag("c") /\ Open = Tag("o")  BY TagNames
<1>2. PICK c \in Seq(S) :
          /\ A \in Seq(S) /\ b = c \o A /\ B \in Seq(S) /\ Len(c) >= 3
          /\ Has(c, Open) /\ Before(c, Open) = B /\ After(c, Open) = <<>>
          /\ IsPrefix(Open, c) => Len(c) = 3 /\ B = <<>>
  <2> HIDE DEF b
  <2>1. Open \in {Open, Close} /\ Has(b, Open)  BY DEF b
  <2>2. CutAfter(S, b, Open)  BY ONLY <1>0, <2>1, TagCut
  <2>3. QED  BY <2>2, Zenon DEF CutAfter
<1>3. /\ mode = "detecting" =>
            h = P /\ IsPrefix(P, Open) /\ th = <<>> /\ vi = <<>>
      /\ mode = "text" => h = <<>> /\ ~IsStrictPrefix(P, Open)
  BY DEF Read
<1> HIDE DEF A, B, R
<1>4. PICK d \in Seq(S) : c = h \o d /\ rest = d \o A /\ Len(d) = Len(c) - Len(h)
  <2>1. h \o rest = c \o A  BY <1>2 DEF b
  <2>2. Len(h) <= Len(c)
    <3>1. PICK m, n \in Nat : m = Len(h) /\ n = Len(c)  BY <1>2
    <3>2. mode = "detecting" => Len(h) <= 3
      <4>1. IsPrefix(h, Open) => Len(h) <= 3  BY ShortOfTag
      <4>2. QED  BY <1>3, <4>1
    <3>3. mode = "text" => Len(h) = 0  BY <1>3
    <3>4. Len(h) = m /\ (Len(h) <= 3 \/ Len(h) = 0)  BY <1>m, <3>1, <3>2, <3>3
    <3>5. n >= 3  BY <1>2, <3>1
    <3>6. m <= n  BY <3>4, <3>5
    <3>7. QED  BY <3>1, <3>6
  <2>3. A \in Seq(S) /\ c \in Seq(S)  BY <1>2
  <2>4. CutTwice(h, rest, c, A)  BY <2>1, <2>2 DEF CutTwice
  <2>5. Between(S, h, rest, c, A)
    BY ONLY <2>3, <2>4, h \in Seq(S), rest \in Seq(S), Splits
  <2>6. QED  BY <2>5 DEF Between
<1>5. mode = "text" => Len(d) > 0
  <2>1. mode = "text" => Len(h) = 0  BY <1>3
  <2>2. PICK n \in Nat : n = Len(c)  BY <1>2
  <2>3. QED  BY <1>2, <1>4, <2>1, <2>2
<1> DEFINE z == P \o d
<1>6. /\ ~IsStrictPrefix(z, Open) /\ Has(z, Open)
      /\ IsPrefix(Open, z) /\ ~Has(AfterOpen(z), Open) =>
            Thinking(<<>>, th, vi \o B, AfterOpen(z))
  <2>1. CASE mode = "detecting"
    <3>1. z = c /\ th = <<>> /\ vi = <<>>  BY <1>3, <1>4, <2>1
    <3> HIDE DEF z
    <3>2. ~IsStrictPrefix(c, Open)  BY <1>2, ShortOfTag
    <3>3. ASSUME IsPrefix(Open, c)
          PROVE  Thinking(<<>>, <<>>, <<>> \o B, AfterOpen(c))
      <4>1. Len(c) = 3 /\ B = <<>>  BY <1>2, <3>3
      <4>2. AfterOpen(c) = <<>>
        <5>1. Len(Open) + 1 = 4  BY DEF Open
        <5>2. AfterOpen(c) = SubSeq(c, 4, 3)  BY <4>1, <5>1 DEF AfterOpen
        <5>3. QED  BY <5>2
      <4>3. <<>> \o B = <<>> /\ Len(<<>>) = 0 /\ <<>> \o <<>> = <<>>  BY <4>1
      <4>4. QED  BY <4>2, <4>3, NothingHeld DEF Thinking
    <3>4. QED  BY <1>2, <3>1, <3>2, <3>3
  <2>2. CASE mode = "text"
    <3>1. h = <<>> /\ ~IsStrictPrefix(P, Open)  BY <1>3, <2>2
    <3>2. <<>> \o d = d  OBVIOUS
    <3>3. Has(d, Open)  BY <1>2, <1>4, <3>1, <3>2
    <3>4. Has(P \o d, Open)  BY <1>1, <3>3, HasMore
    <3>5. /\ ~IsStrictPrefix(P \o d, Open)
          /\ IsPrefix(Open, P \o d) => AfterOpen(P \o d) = R \o d /\ R \in Seq(S)
      BY <3>1, OpenStays DEF R
    <3>6. R \in Seq(S) => Has(R \o d, Open)  BY <1>1, <3>3, HasMore
    <3>7. QED  BY <3>4, <3>5, <3>6
  <2>3. QED  BY <1>m, <2>1, <2>2
<1> HIDE DEF z
<1>7. Read("reasoning", <<>>, th, vi \o B, z)
  BY <1>6, NothingHeld, Zenon DEF Read
<1>8. QED  BY <1>2, <1>4, <1>5, <1>7 DEF A, B, z, OpensIn

(* There is none: the content is visible.                                    *)
LEMMA ContentSaid ==
  ASSUME NEW S, NEW P \in Seq(S), NEW h \in Seq(S), NEW th \in Seq(S), NEW vi \in Seq(S),
         NEW rest \in Seq(S), NEW mode, mode # "reasoning",
         Read(mode, h, th, vi, P), ~Has(h \o rest, Open),
         mode = "detecting" => ~IsPrefix(h \o rest, Open)
  PROVE  h \o rest \in Seq(S) /\ Read("text", <<>>, th, vi \o (h \o rest), P \o rest)
<1> DEFINE b == h \o rest
           R == AfterOpen(P)
           z == P \o rest
<1>m. mode \in {"detecting", "text"}  BY DEF Read
<1>0. b \in Seq(S)
  <2>1. h \in Seq(S) /\ rest \in Seq(S)  OBVIOUS
  <2>2. QED  BY ONLY <2>1, Glued
<1>1. Close = Tag("c") /\ Open = Tag("o")  BY TagNames
<1>2. CASE mode = "detecting"
  <2>1. h = P /\ th = <<>> /\ vi = <<>> /\ z = b  BY <1>2 DEF Read
  <2>2. ~IsPrefix(b, Open) /\ ~Has(b, Open)  BY <1>2
  <2> HIDE DEF b, z
  <2>3. ~IsStrictPrefix(b, Open)  BY <2>2, Zenon DEF IsStrictPrefix
  <2>4. ~IsPrefix(Open, b)  BY <1>0, <2>2, ShortOfTag
  <2>5. <<>> \o b = b  BY <1>0, ConcatEmptySeq
  <2>6. Read("text", <<>>, th, vi \o b, z)
    BY <2>1, <2>2, <2>3, <2>4, <2>5, Zenon DEF Read
  <2>7. QED  BY <1>0, <2>6 DEF b, z
<1>3. CASE mode = "text"
  <2>1. /\ h = <<>> /\ ~IsStrictPrefix(P, Open)
        /\ ~Has(P, Open) => th = <<>> /\ vi = P
        /\ IsPrefix(Open, P) /\ ~Has(R, Open) => Answering(th, vi, R)
    BY <1>3 DEF Read
  <2>2. b = rest
    <3>1. <<>> \o rest = rest  BY ConcatEmptySeq
    <3>2. QED  BY <2>1, <3>1
  <2> HIDE DEF b, R
  <2>3. /\ ~IsStrictPrefix(z, Open)
        /\ IsPrefix(Open, z) => /\ IsPrefix(Open, P) /\ AfterOpen(z) = R \o rest
                                /\ R \in Seq(S)
    BY <2>1, OpenStays DEF R
  <2>4. ~Has(z, Open) => th = <<>> /\ vi \o rest = z
    <3>1. Has(P, Open) => Has(z, Open)  BY <1>1, HasMore
    <3>2. QED  BY <2>1, <3>1
  <2>5. ASSUME IsPrefix(Open, z), ~Has(AfterOpen(z), Open)
        PROVE  Answering(th, vi \o rest, AfterOpen(z))
    <3>1. R \in Seq(S) /\ AfterOpen(z) = R \o rest /\ IsPrefix(Open, P)  BY <2>3, <2>5
    <3>2. ~Has(R, Open)
      <4>1. Has(R, Open) => Has(R \o rest, Open)  BY <1>1, <3>1, HasMore
      <4>2. QED  BY <2>5, <3>1, <4>1
    <3>3. Has(R, Close) /\ th = Before(R, Close) /\ vi = After(R, Close)
      BY <2>1, <3>1, <3>2 DEF Answering
    <3>4. /\ Has(R \o rest, Close) /\ Before(R \o rest, Close) = Before(R, Close)
          /\ After(R \o rest, Close) = After(R, Close) \o rest
      <4>1. /\ Has(R, Tag("c")) =>
               /\ Has(R \o rest, Tag("c"))
               /\ Before(R \o rest, Tag("c")) = Before(R, Tag("c"))
               /\ After(R \o rest, Tag("c")) = After(R, Tag("c")) \o rest
        BY <3>1, FirstStays, SMTT(60)
      <4>2. QED  BY <1>1, <3>3, <4>1
    <3>5. QED  BY <3>1, <3>3, <3>4 DEF Answering
  <2> HIDE DEF z
  <2>6. Read("text", <<>>, th, vi \o rest, z)
    BY <2>3, <2>4, <2>5, Zenon DEF Read
  <2>7. QED  BY <1>0, <2>2, <2>6 DEF b, z
<1>4. QED  BY <1>m, <1>2, <1>3

-----------------------------------------------------------------------------
(* The translator reads the content in turns. *)

Letter == UNION {{piece[i] : i \in 1..Len(piece)} : piece \in Pieces}

LEMMA Narrows ==
  ASSUME NEW T, NEW U, NEW s \in Seq(T), \A i \in 1 .. Len(s) : s[i] \in U
  PROVE  s \in Seq(U)
OBVIOUS

LEMMA Letters ==
  "r" \notin Letter /\ \A piece \in Pieces : piece \in Seq(Letter)
<1>1. \A piece \in Pieces : \A i \in 1..Len(piece) : piece[i] # "r"
  BY StreamAssumption
<1>2. "r" \notin Letter
  <2>1. PICK r : r = "r"  OBVIOUS
  <2>2. \A piece \in Pieces : \A i \in 1..Len(piece) : piece[i] # r  BY <1>1, <2>1
  <2>3. r \notin Letter  BY <2>2 DEF Letter
  <2>4. QED  BY <2>1, <2>3
<1>3. ASSUME NEW piece \in Pieces PROVE piece \in Seq(Letter)
  <2>1. piece \in Seq(STRING)  BY StreamAssumption
  <2>2. PICK T : piece \in Seq(T)  BY <2>1
  <2>3. \A i \in 1 .. Len(piece) : piece[i] \in Letter  BY DEF Letter
  <2>4. QED  BY <2>2, <2>3, Narrows
<1>4. QED  BY <1>2, <1>3

Lettered(s) ==
    /\ Made(s) /\ s.held \in Seq(Letter) /\ s.visible \in Seq(Letter)
    /\ s.thought \in Seq(Letter \cup {"r"})

HasRead(s, P) == Read(s.mode, s.held, FromContent(s.thought), s.visible, P)

LEMMA SameHasRead ==
  ASSUME NEW s, NEW z, SameText(s, z), NEW P
  PROVE  (Lettered(s) => Lettered(z)) /\ (HasRead(s, P) => HasRead(z, P))
<1>1. /\ Made(z) /\ z.mode = s.mode /\ z.held = s.held
      /\ z.thought = s.thought /\ z.visible = s.visible
  BY DEF SameText
<1>2. Lettered(s) => Lettered(z)  BY <1>1 DEF Lettered
<1>3. HasRead(s, P) => HasRead(z, P)  BY <1>1 DEF HasRead
<1>4. QED  BY <1>2, <1>3

(* v is s but for the mode and what is held back.                            *)
LEMMA Thinks ==
  ASSUME NEW s, Lettered(s), NEW what \in Seq(Letter), NEW v, Made(v),
         v.thought = s.thought, v.visible = s.visible, v.held \in Seq(Letter)
  PROVE  LET z == Think(v, what)
         IN /\ Lettered(z) /\ z.mode = v.mode /\ z.held = v.held
            /\ FromContent(z.thought) = FromContent(s.thought) \o what
            /\ z.visible = s.visible
<1> DEFINE R == Letter \cup {"r"}
           z == Think(v, what)
<1>1. s.thought \in Seq(R) /\ s.visible \in Seq(Letter)  BY DEF Lettered
<1>2. v.thought \in Seq(R)  BY <1>1
<1> HIDE DEF R
<1>3. /\ Made(z) /\ z.mode = v.mode /\ z.held = v.held
      /\ z.thought = v.thought \o what /\ z.visible = v.visible
  BY <1>2, ThinkText
<1> HIDE DEF z
<1>4. PICK th \in Seq(R) : th = s.thought  BY <1>1
<1>5. th \o what \in Seq(R)
  <2>1. what \in Seq(R)
    <3>1. Letter \subseteq R  BY DEF R
    <3>2. QED  BY <3>1
  <2>2. QED  BY ONLY <2>1, th \in Seq(R), Glued
<1>6. FromContent(th \o what) = FromContent(th) \o what
  <2>1. "r" \notin Letter  BY Letters
  <2>2. th \in Seq(Letter \cup {"r"})  BY DEF R
  <2>3. QED  BY ONLY <2>1, <2>2, what \in Seq(Letter), ContentOnly
<1>7. Lettered(z)  BY <1>1, <1>3, <1>4, <1>5 DEF Lettered, R
<1>8. QED  BY <1>3, <1>4, <1>6, <1>7 DEF z

LEMMA Says ==
  ASSUME NEW s, Lettered(s), NEW what \in Seq(Letter), NEW v, Made(v),
         v.thought = s.thought, v.visible = s.visible, v.held \in Seq(Letter)
  PROVE  LET z == Say(v, what)
         IN /\ Lettered(z) /\ z.mode = v.mode /\ z.held = v.held
            /\ z.thought = s.thought /\ z.visible = s.visible \o what
<1> DEFINE z == Say(v, what)
<1>1. s.visible \in Seq(Letter) /\ s.thought \in Seq(Letter \cup {"r"})
  BY DEF Lettered
<1>2. v.visible \in Seq(Letter)  BY <1>1
<1>3. /\ Made(z) /\ z.mode = v.mode /\ z.held = v.held
      /\ z.thought = v.thought /\ z.visible = v.visible \o what
  BY <1>2, SayText
<1> HIDE DEF z
<1>4. v.visible \o what \in Seq(Letter)
  BY ONLY <1>2, what \in Seq(Letter), Glued
<1>5. Lettered(z)  BY <1>1, <1>3, <1>4 DEF Lettered
<1>6. QED  BY <1>3, <1>5 DEF z

(* A turn that leaves something over is no longer detecting, and then every  *)
(* turn takes something.                                                     *)
Progress(s, P, rest, u) ==
    /\ Lettered(u.s) /\ u.rest \in Seq(Letter)
    /\ u.rest # <<>> => u.s.mode # "detecting"
    /\ \E d \in Seq(Letter) : /\ rest = d \o u.rest /\ HasRead(u.s, P \o d)
                              /\ s.mode # "detecting" => Len(d) > 0

LEMMA ScanCloses ==
  ASSUME NEW s, Lettered(s), NEW P \in Seq(Letter), NEW rest \in Seq(Letter),
         HasRead(s, P), s.mode = "reasoning", Has(s.held \o rest, Close)
  PROVE  LET b == s.held \o rest
             v == [s EXCEPT !.held = <<>>, !.mode = "text"]
         IN Progress(s, P, rest,
                     [s |-> EndThink(Think(v, Before(b, Close))), rest |-> After(b, Close)])
<1> DEFINE b == s.held \o rest
           v == [s EXCEPT !.held = <<>>, !.mode = "text"]
           y == Think(v, Before(b, Close))
           z == EndThink(y)
           u == [s |-> z, rest |-> After(b, Close)]
           th == FromContent(s.thought)
<1>1. /\ s.held \in Seq(Letter) /\ s.visible \in Seq(Letter) /\ Made(s)
      /\ s.thought \in Seq(Letter \cup {"r"})
  BY DEF Lettered
<1>2. th \in Seq(Letter)
  <2>1. "r" \notin Letter /\ <<>> \in Seq(Letter)  BY Letters
  <2>2. QED  BY ONLY <1>1, <2>1, ContentOnly
<1>3. Read("reasoning", s.held, th, s.visible, P)  BY DEF HasRead
<1> HIDE DEF th
<1>4. PICK h \in Seq(Letter) : h = s.held  BY <1>1
<1>5. PICK vi \in Seq(Letter) : vi = s.visible  BY <1>1
<1>6. Read("reasoning", h, th, vi, P) /\ Has(h \o rest, Close)
  BY <1>3, <1>4, <1>5
<1>7. /\ Before(h \o rest, Close) \in Seq(Letter) /\ After(h \o rest, Close) \in Seq(Letter)
      /\ \E d \in Seq(Letter) :
            /\ rest = d \o After(h \o rest, Close) /\ Len(d) > 0
            /\ Read("text", <<>>, th \o Before(h \o rest, Close), vi, P \o d)
  BY ONLY <1>2, <1>6, h \in Seq(Letter), vi \in Seq(Letter), P \in Seq(Letter),
          rest \in Seq(Letter), ThoughtCloses, ZenonT(60)
<1>8. b = h \o rest  BY <1>4
<1> HIDE DEF b
<1>9. Before(b, Close) \in Seq(Letter) /\ After(b, Close) \in Seq(Letter)
  BY <1>7, <1>8
<1>10. PICK d \in Seq(Letter) :
          /\ rest = d \o After(b, Close) /\ Len(d) > 0
          /\ Read("text", <<>>, th \o Before(b, Close), vi, P \o d)
  BY <1>7, <1>8
<1>11. /\ Made(v) /\ v.mode = "text" /\ v.held = <<>>
       /\ v.thought = s.thought /\ v.visible = s.visible /\ v.held \in Seq(Letter)
  <2>1. PICK e, m : e = <<>> /\ m = "text"  OBVIOUS
  <2>2. Switched(s, [s EXCEPT !.held = e, !.mode = m], e, m)  BY <1>1, ModeChanges
  <2>3. Switched(s, v, <<>>, "text")  BY <2>1, <2>2
  <2> HIDE DEF v
  <2>4. QED  BY <2>3 DEF Switched
<1> HIDE DEF v
<1>12. /\ Lettered(y) /\ y.mode = v.mode /\ y.held = v.held
       /\ FromContent(y.thought) = th \o Before(b, Close) /\ y.visible = s.visible
  BY <1>9, <1>11, Thinks, ZenonT(60) DEF th
<1> HIDE DEF y
<1>13. HasRead(y, P \o d)  BY <1>5, <1>10, <1>11, <1>12 DEF HasRead
<1>14. SameText(y, z)  BY <1>12, EndsText DEF Lettered
<1>15. z.mode = "text"  BY <1>11, <1>12, <1>14 DEF SameText
<1>16. Lettered(z) /\ HasRead(z, P \o d)  BY <1>12, <1>13, <1>14, SameHasRead
<1> HIDE DEF z
<1>17. u.s = z /\ u.rest = After(b, Close)  OBVIOUS
<1> HIDE DEF u
<1>18. Progress(s, P, rest, u)  BY <1>9, <1>10, <1>15, <1>16, <1>17 DEF Progress
<1>19. QED  BY <1>18 DEF u, z, y, v, b

LEMMA ScanGoesOn ==
  ASSUME NEW s, Lettered(s), NEW P \in Seq(Letter), NEW rest \in Seq(Letter),
         HasRead(s, P), s.mode = "reasoning", rest # <<>>, ~Has(s.held \o rest, Close)
  PROVE  LET b == s.held \o rest
             n == Len(b) - Keep(b)
             v == [s EXCEPT !.held = SubSeq(b, n + 1, Len(b))]
         IN Progress(s, P, rest, [s |-> Think(v, SubSeq(b, 1, n)), rest |-> <<>>])
<1> DEFINE b == s.held \o rest
           n == Len(b) - Keep(b)
           kept == SubSeq(b, n + 1, Len(b))
           out == SubSeq(b, 1, n)
           v == [s EXCEPT !.held = kept]
           y == Think(v, out)
           u == [s |-> y, rest |-> <<>>]
           th == FromContent(s.thought)
<1>1. /\ s.held \in Seq(Letter) /\ s.visible \in Seq(Letter) /\ Made(s)
      /\ s.thought \in Seq(Letter \cup {"r"})
  BY DEF Lettered
<1>2. th \in Seq(Letter)
  <2>1. "r" \notin Letter /\ <<>> \in Seq(Letter)  BY Letters
  <2>2. QED  BY ONLY <1>1, <2>1, ContentOnly
<1>3. Read("reasoning", s.held, th, s.visible, P)  BY DEF HasRead
<1> HIDE DEF th
<1>4. PICK h \in Seq(Letter) : h = s.held  BY <1>1
<1>5. PICK vi \in Seq(Letter) : vi = s.visible  BY <1>1
<1>6. Read("reasoning", h, th, vi, P) /\ ~Has(h \o rest, Close)
  BY <1>3, <1>4, <1>5
<1>7. LET c == h \o rest
          k == Len(c) - Keep(c)
      IN /\ SubSeq(c, 1, k) \in Seq(Letter) /\ SubSeq(c, k + 1, Len(c)) \in Seq(Letter)
         /\ Read("reasoning", SubSeq(c, k + 1, Len(c)), th \o SubSeq(c, 1, k), vi, P \o rest)
  BY ONLY <1>2, <1>6, rest # <<>>, h \in Seq(Letter), vi \in Seq(Letter),
          P \in Seq(Letter), rest \in Seq(Letter), ThoughtGoesOn
<1>8. b = h \o rest  BY <1>4
<1> HIDE DEF b
<1>9. /\ out \in Seq(Letter) /\ kept \in Seq(Letter)
      /\ Read("reasoning", kept, th \o out, vi, P \o rest)
  BY <1>7, <1>8
<1> HIDE DEF n, out, kept
<1>11. /\ Made(v) /\ v.mode = "reasoning" /\ v.held = kept
       /\ v.thought = s.thought /\ v.visible = s.visible /\ v.held \in Seq(Letter)
  <2>1. /\ Made(v) /\ v.mode = s.mode /\ v.held = kept
        /\ v.thought = s.thought /\ v.visible = s.visible
    BY <1>1, HeldChanges
  <2> HIDE DEF v
  <2>2. QED  BY <1>9, <2>1
<1> HIDE DEF v
<1>12. /\ Lettered(y) /\ y.mode = v.mode /\ y.held = v.held
       /\ FromContent(y.thought) = th \o out /\ y.visible = s.visible
  BY <1>9, <1>11, Thinks, SMTT(60) DEF th
<1> HIDE DEF y
<1>13. HasRead(y, P \o rest)  BY <1>5, <1>9, <1>11, <1>12 DEF HasRead
<1>14. u.s = y /\ u.rest = <<>>  OBVIOUS
<1> HIDE DEF u
<1>15. rest = rest \o <<>> /\ Len(rest) > 0 /\ <<>> \in Seq(Letter)
  <2>1. rest \o <<>> = rest  BY ConcatEmptySeq
  <2>2. QED  BY <2>1
<1>16. Progress(s, P, rest, u)
  BY <1>12, <1>13, <1>14, <1>15 DEF Progress
<1>17. QED  BY <1>16 DEF u, y, v, kept, out, n, b

LEMMA ScanHolds ==
  ASSUME NEW s, Lettered(s), NEW P \in Seq(Letter), NEW rest \in Seq(Letter),
         HasRead(s, P), s.mode = "detecting", IsPrefix(s.held \o rest, Open)
  PROVE  Progress(s, P, rest, [s |-> [s EXCEPT !.held = s.held \o rest], rest |-> <<>>])
<1> DEFINE b == s.held \o rest
           v == [s EXCEPT !.held = b]
           u == [s |-> v, rest |-> <<>>]
           th == FromContent(s.thought)
<1>1. /\ s.held \in Seq(Letter) /\ s.visible \in Seq(Letter) /\ Made(s)
      /\ s.thought \in Seq(Letter \cup {"r"})
  BY DEF Lettered
<1>2. Read("detecting", s.held, th, s.visible, P)  BY DEF HasRead
<1> HIDE DEF th
<1>3. Read("detecting", b, th, s.visible, P \o rest)
  BY ONLY <1>2, IsPrefix(s.held \o rest, Open), StillDetecting
<1>4. b \in Seq(Letter)
  BY ONLY <1>1, rest \in Seq(Letter), Glued
<1> HIDE DEF b
<1>5. /\ Made(v) /\ v.mode = s.mode /\ v.held = b
      /\ v.thought = s.thought /\ v.visible = s.visible
  BY <1>1, HeldChanges
<1> HIDE DEF v
<1>6. Lettered(v)  BY <1>1, <1>4, <1>5 DEF Lettered
<1>7. HasRead(v, P \o rest)  BY <1>3, <1>5 DEF HasRead, th
<1>8. u.s = v /\ u.rest = <<>>  OBVIOUS
<1> HIDE DEF u
<1>9. rest = rest \o <<>> /\ <<>> \in Seq(Letter)
  <2>1. rest \o <<>> = rest  BY ConcatEmptySeq
  <2>2. QED  BY <2>1
<1>10. Progress(s, P, rest, u)
  BY <1>6, <1>7, <1>8, <1>9 DEF Progress
<1>11. QED  BY <1>10 DEF u, v, b

LEMMA ScanOpens ==
  ASSUME NEW s, Lettered(s), NEW P \in Seq(Letter), NEW rest \in Seq(Letter),
         HasRead(s, P), s.mode \in {"detecting", "text"}, Has(s.held \o rest, Open)
  PROVE  LET b == s.held \o rest
             v == [s EXCEPT !.held = <<>>, !.mode = "reasoning"]
         IN Progress(s, P, rest, [s |-> Say(v, Before(b, Open)), rest |-> After(b, Open)])
<1> DEFINE b == s.held \o rest
           v == [s EXCEPT !.held = <<>>, !.mode = "reasoning"]
           y == Say(v, Before(b, Open))
           u == [s |-> y, rest |-> After(b, Open)]
           th == FromContent(s.thought)
<1>1. /\ s.held \in Seq(Letter) /\ s.visible \in Seq(Letter) /\ Made(s)
      /\ s.thought \in Seq(Letter \cup {"r"})
  BY DEF Lettered
<1>2. th \in Seq(Letter)
  <2>1. "r" \notin Letter /\ <<>> \in Seq(Letter)  BY Letters
  <2>2. QED  BY ONLY <1>1, <2>1, ContentOnly
<1>3. Read(s.mode, s.held, th, s.visible, P)  BY DEF HasRead
<1> HIDE DEF th
<1>4. PICK h \in Seq(Letter) : h = s.held  BY <1>1
<1>5. PICK vi \in Seq(Letter) : vi = s.visible  BY <1>1
<1>m. PICK m : m = s.mode /\ m # "reasoning"  OBVIOUS
<1>6. Read(m, h, th, vi, P) /\ Has(h \o rest, Open)
  BY <1>3, <1>4, <1>5, <1>m
<1>7. OpensIn(Letter, P, th, vi, rest, m, h \o rest)
  BY ONLY <1>2, <1>6, h \in Seq(Letter), vi \in Seq(Letter), P \in Seq(Letter),
          rest \in Seq(Letter), <1>m, ThoughtOpens
<1>8. b = h \o rest  BY <1>4
<1> HIDE DEF b
<1>a. OpensIn(Letter, P, th, vi, rest, m, b)  BY <1>7, <1>8
<1>9. Before(b, Open) \in Seq(Letter) /\ After(b, Open) \in Seq(Letter)
  BY <1>a DEF OpensIn
<1>10. PICK d \in Seq(Letter) :
          /\ rest = d \o After(b, Open) /\ (m = "text" => Len(d) > 0)
          /\ Read("reasoning", <<>>, th, vi \o Before(b, Open), P \o d)
  BY <1>a DEF OpensIn
<1>11. /\ Made(v) /\ v.mode = "reasoning" /\ v.held = <<>>
       /\ v.thought = s.thought /\ v.visible = s.visible /\ v.held \in Seq(Letter)
  <2>1. PICK e, q : e = <<>> /\ q = "reasoning"  OBVIOUS
  <2>2. Switched(s, [s EXCEPT !.held = e, !.mode = q], e, q)  BY <1>1, ModeChanges
  <2>3. Switched(s, v, <<>>, "reasoning")  BY <2>1, <2>2
  <2> HIDE DEF v
  <2>4. QED  BY <2>3 DEF Switched
<1> HIDE DEF v
<1>12. /\ Lettered(y) /\ y.mode = v.mode /\ y.held = v.held
       /\ y.thought = s.thought /\ y.visible = s.visible \o Before(b, Open)
  BY <1>9, <1>11, Says, ZenonT(60)
<1> HIDE DEF y
<1>13. HasRead(y, P \o d)  BY <1>5, <1>10, <1>11, <1>12 DEF HasRead, th
<1>17. u.s = y /\ u.rest = After(b, Open)  OBVIOUS
<1> HIDE DEF u
<1>18. s.mode # "detecting" => Len(d) > 0  BY <1>m, <1>10
<1>19. Progress(s, P, rest, u)  BY <1>9, <1>10, <1>11, <1>12, <1>13, <1>17, <1>18 DEF Progress
<1>20. QED  BY <1>19 DEF u, y, v, b

LEMMA ScanSays ==
  ASSUME NEW s, Lettered(s), NEW P \in Seq(Letter), NEW rest \in Seq(Letter),
         HasRead(s, P), s.mode \in {"detecting", "text"}, rest # <<>>,
         ~Has(s.held \o rest, Open), s.mode = "detecting" => ~IsPrefix(s.held \o rest, Open)
  PROVE  LET v == [s EXCEPT !.held = <<>>, !.mode = "text"]
         IN Progress(s, P, rest, [s |-> Say(v, s.held \o rest), rest |-> <<>>])
<1> DEFINE b == s.held \o rest
           v == [s EXCEPT !.held = <<>>, !.mode = "text"]
           y == Say(v, b)
           u == [s |-> y, rest |-> <<>>]
           th == FromContent(s.thought)
<1>1. /\ s.held \in Seq(Letter) /\ s.visible \in Seq(Letter) /\ Made(s)
      /\ s.thought \in Seq(Letter \cup {"r"})
  BY DEF Lettered
<1>2. th \in Seq(Letter)
  <2>1. "r" \notin Letter /\ <<>> \in Seq(Letter)  BY Letters
  <2>2. QED  BY ONLY <1>1, <2>1, ContentOnly
<1>3. Read(s.mode, s.held, th, s.visible, P)  BY DEF HasRead
<1> HIDE DEF th
<1>4. PICK h \in Seq(Letter) : h = s.held  BY <1>1
<1>5. PICK vi \in Seq(Letter) : vi = s.visible  BY <1>1
<1>m. PICK m : m = s.mode /\ m # "reasoning"  OBVIOUS
<1>6. /\ Read(m, h, th, vi, P) /\ ~Has(h \o rest, Open)
      /\ m = "detecting" => ~IsPrefix(h \o rest, Open)
  BY <1>3, <1>4, <1>5, <1>m
<1>7. /\ h \o rest \in Seq(Letter)
      /\ Read("text", <<>>, th, vi \o (h \o rest), P \o rest)
  BY ONLY <1>2, <1>6, h \in Seq(Letter), vi \in Seq(Letter), P \in Seq(Letter),
          rest \in Seq(Letter), <1>m, ContentSaid
<1>8. b = h \o rest  BY <1>4
<1> HIDE DEF b
<1>9. b \in Seq(Letter) /\ Read("text", <<>>, th, vi \o b, P \o rest)
  BY <1>7, <1>8
<1>11. /\ Made(v) /\ v.mode = "text" /\ v.held = <<>>
       /\ v.thought = s.thought /\ v.visible = s.visible /\ v.held \in Seq(Letter)
  <2>1. PICK e, q : e = <<>> /\ q = "text"  OBVIOUS
  <2>2. Switched(s, [s EXCEPT !.held = e, !.mode = q], e, q)  BY <1>1, ModeChanges
  <2>3. Switched(s, v, <<>>, "text")  BY <2>1, <2>2
  <2> HIDE DEF v
  <2>4. QED  BY <2>3 DEF Switched
<1> HIDE DEF v
<1>12. /\ Lettered(y) /\ y.mode = v.mode /\ y.held = v.held
       /\ y.thought = s.thought /\ y.visible = s.visible \o b
  BY <1>9, <1>11, Says, ZenonT(60)
<1> HIDE DEF y
<1>13. HasRead(y, P \o rest)  BY <1>5, <1>9, <1>11, <1>12 DEF HasRead, th
<1>14. u.s = y /\ u.rest = <<>>  OBVIOUS
<1> HIDE DEF u
<1>15. rest = rest \o <<>> /\ Len(rest) > 0 /\ <<>> \in Seq(Letter)
  <2>1. rest \o <<>> = rest  BY ConcatEmptySeq
  <2>2. QED  BY <2>1
<1>16. Progress(s, P, rest, u)
  BY <1>12, <1>13, <1>14, <1>15 DEF Progress
<1>17. QED  BY <1>16 DEF u, y, v, b

LEMMA ScanReads ==
  ASSUME NEW s, Lettered(s), NEW P \in Seq(Letter), NEW rest \in Seq(Letter),
         HasRead(s, P), rest # <<>>
  PROVE  Progress(s, P, rest, Scan(s, rest))
<1> DEFINE b == s.held \o rest
<1>0. s.mode \in {"detecting", "text", "reasoning"}
  BY DEF HasRead, Read
<1>1. CASE s.mode = "reasoning" /\ Has(b, Close)
  <2>1. Scan(s, rest) =
          [s |-> EndThink(Think([s EXCEPT !.held = <<>>, !.mode = "text"], Before(b, Close))),
           rest |-> After(b, Close)]
    BY <1>1 DEF Scan
  <2>2. QED  BY <1>1, <2>1, ScanCloses
<1>2. CASE s.mode = "reasoning" /\ ~Has(b, Close)
  <2> DEFINE n == Len(b) - Keep(b)
  <2>1. Scan(s, rest) =
          [s |-> Think([s EXCEPT !.held = SubSeq(b, n + 1, Len(b))], SubSeq(b, 1, n)),
           rest |-> <<>>]
    BY <1>2 DEF Scan
  <2>2. QED  BY <1>2, <2>1, ScanGoesOn
<1>3. CASE s.mode = "detecting" /\ IsPrefix(b, Open)
  <2>1. Scan(s, rest) = [s |-> [s EXCEPT !.held = b], rest |-> <<>>]
    BY <1>3 DEF Scan
  <2>2. QED  BY <1>3, <2>1, ScanHolds
<1>4. CASE /\ s.mode # "reasoning" /\ ~(s.mode = "detecting" /\ IsPrefix(b, Open))
           /\ Has(b, Open)
  <2>1. Scan(s, rest) =
          [s |-> Say([s EXCEPT !.held = <<>>, !.mode = "reasoning"], Before(b, Open)),
           rest |-> After(b, Open)]
    BY <1>4 DEF Scan
  <2>2. s.mode \in {"detecting", "text"}  BY <1>0, <1>4
  <2>3. QED  BY <1>4, <2>1, <2>2, ScanOpens
<1>5. CASE /\ s.mode # "reasoning" /\ ~(s.mode = "detecting" /\ IsPrefix(b, Open))
           /\ ~Has(b, Open)
  <2>1. Scan(s, rest) = [s |-> Say([s EXCEPT !.held = <<>>, !.mode = "text"], b),
                         rest |-> <<>>]
    BY <1>5 DEF Scan
  <2>2. s.mode \in {"detecting", "text"}  BY <1>0, <1>5
  <2>3. QED  BY <1>5, <2>1, <2>2, ScanSays
<1>6. QED  BY <1>1, <1>2, <1>3, <1>4, <1>5

(* After n turns: what they took is read, and the rest gets shorter.         *)
AtTurn(P, piece, n, u) ==
    /\ Lettered(u.s) /\ u.rest \in Seq(Letter)
    /\ u.rest # <<>> => \/ n = 0 /\ u.rest = piece
                        \/ n > 0 /\ u.s.mode # "detecting" /\ Len(u.rest) + n <= Len(piece) + 1
    /\ \E d \in Seq(Letter) : piece = d \o u.rest /\ HasRead(u.s, P \o d)

LEMMA TurnReads ==
  ASSUME NEW P \in Seq(Letter), NEW piece \in Seq(Letter), NEW n \in Nat, NEW u,
         AtTurn(P, piece, n, u)
  PROVE  AtTurn(P, piece, n + 1, Scan(u.s, u.rest))
<1>1. PICK d \in Seq(Letter) : piece = d \o u.rest /\ HasRead(u.s, P \o d)
  BY DEF AtTurn
<1>2. /\ Lettered(u.s) /\ u.rest \in Seq(Letter)
      /\ u.rest # <<>> => \/ n = 0 /\ u.rest = piece
                          \/ n > 0 /\ u.s.mode # "detecting" /\ Len(u.rest) + n <= Len(piece) + 1
  BY DEF AtTurn
<1>3. CASE u.rest = <<>>
  <2> DEFINE v == Scan(u.s, u.rest)
  <2>1. v = [s |-> u.s, rest |-> u.rest]  BY <1>3 DEF Scan
  <2>2. v.s = u.s /\ v.rest = u.rest  BY <2>1
  <2> HIDE DEF v
  <2>3. AtTurn(P, piece, n + 1, v)  BY <1>1, <1>2, <1>3, <2>2 DEF AtTurn
  <2>4. QED  BY <2>3 DEF v
<1>4. CASE u.rest # <<>>
  <2> DEFINE v == Scan(u.s, u.rest)
  <2>1. PICK rest \in Seq(Letter) : rest = u.rest  BY <1>2
  <2>2. PICK Q \in Seq(Letter) : Q = P \o d
    <3>1. P \o d \in Seq(Letter)
      BY ONLY P \in Seq(Letter), d \in Seq(Letter), Glued
    <3>2. QED  BY <3>1
  <2>3. Progress(u.s, Q, rest, v)
    <3>1. Lettered(u.s) /\ HasRead(u.s, Q) /\ rest # <<>>  BY <1>1, <1>2, <1>4, <2>1, <2>2
    <3>2. Progress(u.s, Q, rest, Scan(u.s, rest))
      BY ONLY <3>1, Q \in Seq(Letter), rest \in Seq(Letter), ScanReads
    <3>3. QED  BY <2>1, <3>2
  <2> HIDE DEF v
  <2>4. Lettered(v.s) /\ v.rest \in Seq(Letter) /\ (v.rest # <<>> => v.s.mode # "detecting")
    BY <2>3 DEF Progress
  <2>5. PICK e \in Seq(Letter) : /\ rest = e \o v.rest /\ HasRead(v.s, Q \o e)
                                 /\ u.s.mode # "detecting" => Len(e) > 0
    BY <2>3 DEF Progress
  <2>6. PICK r \in Seq(Letter) : r = v.rest  BY <2>4
  <2>7. d \o e \in Seq(Letter)
    BY ONLY d \in Seq(Letter), e \in Seq(Letter), Glued
  <2>8. piece = (d \o e) \o r /\ P \o (d \o e) = Q \o e
    <3>1. Regrouped(d, e, r) /\ Regrouped(P, d, e)
      BY ONLY P \in Seq(Letter), d \in Seq(Letter), e \in Seq(Letter), r \in Seq(Letter),
              Regroups
    <3>2. piece = d \o (e \o r)  BY <1>1, <2>1, <2>5, <2>6
    <3>3. QED  BY <2>2, <3>1, <3>2 DEF Regrouped
  <2>9. \E f \in Seq(Letter) : piece = f \o v.rest /\ HasRead(v.s, P \o f)
    BY <2>5, <2>6, <2>7, <2>8
  <2>10. v.rest # <<>> => Len(v.rest) + (n + 1) <= Len(piece) + 1
    <3>1. Len(rest) = Len(e) + Len(r)
      <4>1. Len(e \o r) = Len(e) + Len(r)
        BY ONLY e \in Seq(Letter), r \in Seq(Letter), Glued
      <4>2. QED  BY <2>5, <2>6, <4>1
    <3>2. PICK i, j, k, l \in Nat :
              i = Len(rest) /\ j = Len(e) /\ k = Len(r) /\ l = Len(piece)
      OBVIOUS
    <3>3. i = j + k /\ (u.s.mode # "detecting" => j > 0)  BY <2>5, <3>1, <3>2
    <3>4. (n = 0 /\ i = l) \/ (n > 0 /\ u.s.mode # "detecting" /\ i + n <= l + 1)
      BY <1>2, <1>4, <2>1, <3>2
    <3>5. k + (n + 1) <= l + 1  BY <3>3, <3>4
    <3>6. QED  BY <2>6, <3>2, <3>5
  <2>11. n + 1 > 0  OBVIOUS
  <2>12. AtTurn(P, piece, n + 1, v)  BY <2>4, <2>9, <2>10, <2>11 DEF AtTurn
  <2>13. QED  BY <2>12 DEF v
<1>5. QED  BY <1>3, <1>4

LEMMA ContentReads ==
  ASSUME NEW s, Lettered(s), NEW P \in Seq(Letter), NEW piece \in Seq(Letter), HasRead(s, P)
  PROVE  Lettered(Content(s, piece)) /\ HasRead(Content(s, piece), P \o piece)
<1>0. PICK N \in Nat : N = Len(piece) + 1 /\ N = 1 + Len(piece)  OBVIOUS
<1>1. PICK turn : /\ Content(s, piece) = turn[N].s
                  /\ turn[0].s = s /\ turn[0].rest = piece
                  /\ \A n \in 1 .. N : turn[n] = Scan(turn[n - 1].s, turn[n - 1].rest)
  <2>1. Len(piece) \in Nat  OBVIOUS
  <2>2. QED  BY ONLY <1>0, <2>1, ContentTurns
<1> DEFINE U == {m \in Nat : m <= N => AtTurn(P, piece, m, turn[m])}
<1>2. U = Nat
  <2>1. 0 \in U
    <3>1. <<>> \o piece = piece /\ P \o <<>> = P /\ <<>> \in Seq(Letter)
      BY ConcatEmptySeq
    <3>2. \E d \in Seq(Letter) : piece = d \o turn[0].rest /\ HasRead(turn[0].s, P \o d)
      BY <1>1, <3>1
    <3>3. AtTurn(P, piece, 0, turn[0])  BY <1>1, <3>2 DEF AtTurn
    <3>4. QED  BY <3>3
  <2>2. ASSUME NEW m \in U PROVE m + 1 \in U
    <3>1. m \in Nat /\ m + 1 \in Nat  OBVIOUS
    <3>2. SUFFICES ASSUME m + 1 <= N PROVE AtTurn(P, piece, m + 1, turn[m + 1])
      BY <3>1
    <3>3. m <= N /\ m + 1 \in 1 .. N /\ m + 1 - 1 = m  BY <1>0, <3>1, <3>2
    <3>4. AtTurn(P, piece, m, turn[m])  BY <3>3
    <3>5. turn[m + 1] = Scan(turn[m].s, turn[m].rest)  BY <1>1, <3>3
    <3>6. QED
      <4>1. AtTurn(P, piece, m + 1, Scan(turn[m].s, turn[m].rest))
        BY ONLY <3>1, <3>4, P \in Seq(Letter), piece \in Seq(Letter), TurnReads
      <4>2. QED  BY <3>5, <4>1
  <2> HIDE DEF U
  <2>3. U \in SUBSET Nat  BY DEF U
  <2>4. QED  BY <2>1, <2>2, <2>3, NaturalsReached
<1>3. AtTurn(P, piece, N, turn[N])  BY <1>0, <1>2
<1> DEFINE u == turn[N]
<1> HIDE DEF u
<1>4. /\ Lettered(u.s) /\ u.rest \in Seq(Letter)
      /\ u.rest # <<>> => N = 0 \/ Len(u.rest) + N <= Len(piece) + 1
  BY <1>3 DEF AtTurn, u
<1>5. PICK d \in Seq(Letter) : piece = d \o u.rest /\ HasRead(u.s, P \o d)
  BY <1>3 DEF AtTurn, u
<1>6. u.rest = <<>>
  <2>0. PICK r \in Seq(Letter) : r = u.rest  BY <1>4
  <2>1. PICK k \in Nat : k = Len(r)  OBVIOUS
  <2>2. u.rest # <<>> => k # 0  BY <2>0, <2>1
  <2>3. N # 0 /\ (k + N <= N => k = 0)
    <3>1. PICK l \in Nat : l = Len(piece)  OBVIOUS
    <3>2. N = l + 1  BY <1>0, <3>1
    <3>3. QED  BY ONLY <3>2, k \in Nat, l \in Nat
  <2>4. QED  BY <1>0, <1>4, <2>0, <2>1, <2>2, <2>3
<1>7. d = piece
  <2>1. d \o <<>> = d  BY ConcatEmptySeq
  <2>2. QED  BY <1>5, <1>6, <2>1
<1>8. QED  BY <1>1, <1>4, <1>5, <1>7 DEF u

-----------------------------------------------------------------------------
(* What shows of the content. *)

ThoughtShown(s) ==
    FromContent(s.thought) \o (IF s.mode = "reasoning" THEN s.held ELSE <<>>)

TextShown(s) == s.visible \o (IF s.mode = "detecting" THEN s.held ELSE <<>>)

ShownOf(held, thought, visible, P) ==
    /\ IsPrefix(held, Open) \/ IsStrictPrefix(held, Close)
    /\ ~Has(P, Open) => thought = <<>> /\ visible = P
    /\ (IsStrictPrefix(Open, P) /\ ~Has(AfterOpen(P), Open)) =>
          IF Has(AfterOpen(P), Close)
          THEN thought = Before(AfterOpen(P), Close) /\ visible = After(AfterOpen(P), Close)
          ELSE thought = AfterOpen(P) /\ visible = <<>>

Shown(s, P) == ShownOf(s.held, ThoughtShown(s), TextShown(s), P)

LEMMA IndependentIs == CutIndependent <=> (~cut => Shown(t, said))
BY DEF CutIndependent, Shown, ShownOf, ThoughtShown, TextShown, AfterOpen

LEMMA SameShown ==
  ASSUME NEW s, NEW z, SameText(s, z), NEW P
  PROVE  Shown(s, P) => Shown(z, P)
<1>1. /\ z.mode = s.mode /\ z.held = s.held
      /\ z.thought = s.thought /\ z.visible = s.visible
  BY DEF SameText
<1>2. ThoughtShown(z) = ThoughtShown(s) /\ TextShown(z) = TextShown(s)
  BY <1>1 DEF ThoughtShown, TextShown
<1>3. QED  BY <1>1, <1>2 DEF Shown

LEMMA ReadShows ==
  ASSUME NEW S, NEW P \in Seq(S), NEW h \in Seq(S), NEW th \in Seq(S), NEW vi \in Seq(S),
         NEW mode, Read(mode, h, th, vi, P)
  PROVE  ShownOf(h, th \o (IF mode = "reasoning" THEN h ELSE <<>>),
                 vi \o (IF mode = "detecting" THEN h ELSE <<>>), P)
<1> DEFINE R == AfterOpen(P)
<1>0. th \o <<>> = th /\ vi \o <<>> = vi /\ <<>> \o P = P  BY ConcatEmptySeq
<1>1. mode \in {"detecting", "text", "reasoning"}  BY DEF Read
<1>2. CASE mode = "detecting"
  <2>1. h = P /\ IsPrefix(P, Open) /\ th = <<>> /\ vi = <<>>  BY <1>2 DEF Read
  <2>2. ~IsStrictPrefix(Open, P)
    <3>1. Len(P) <= 3  BY <2>1, ShortOfTag
    <3>2. IsStrictPrefix(Tag("o"), P) <=> TagAt(P, 1, "o") /\ Len(P) > 3
      BY StrictPrefixes
    <3>3. PICK n \in Nat : n = Len(P)  OBVIOUS
    <3>4. ~(Len(P) > 3)  BY <3>1, <3>3
    <3>5. QED  BY <3>2, <3>4, TagNames
  <2>3. ShownOf(h, th, vi \o h, P)
    <3>1. th = <<>> /\ vi \o h = P  BY <1>0, <2>1
    <3>2. IsPrefix(h, Open)  BY <2>1
    <3>3. QED  BY <2>2, <3>1, <3>2, Zenon DEF ShownOf
  <2>4. QED  BY <1>0, <1>2, <2>3
<1>3. CASE mode = "text"
  <2>1. /\ h = <<>>
        /\ ~Has(P, Open) => th = <<>> /\ vi = P
        /\ IsPrefix(Open, P) /\ ~Has(R, Open) => Answering(th, vi, R)
    BY <1>3 DEF Read
  <2>2. IsStrictPrefix(Open, P) => IsPrefix(Open, P)  BY Zenon DEF IsStrictPrefix
  <2>3. IsPrefix(h, Open)  BY <2>1, NothingHeld
  <2>4. Answering(th, vi, R) =>
          Has(R, Close) /\ th = Before(R, Close) /\ vi = After(R, Close)
    BY Zenon DEF Answering
  <2> HIDE DEF R
  <2>5. ShownOf(h, th, vi, P)
    BY <2>1, <2>2, <2>3, <2>4, Zenon DEF ShownOf, R
  <2>6. QED  BY <1>0, <1>3, <2>5
<1>4. CASE mode = "reasoning"
  <2>1. /\ IsStrictPrefix(h, Close) /\ Has(P, Open)
        /\ IsPrefix(Open, P) /\ ~Has(R, Open) => Thinking(h, th, vi, R)
    BY <1>4 DEF Read
  <2>2. IsStrictPrefix(Open, P) => IsPrefix(Open, P)  BY Zenon DEF IsStrictPrefix
  <2>3. Thinking(h, th, vi, R) => ~Has(R, Close) /\ th \o h = R /\ vi = <<>>
    BY Zenon DEF Thinking
  <2> HIDE DEF R
  <2>4. ShownOf(h, th \o h, vi, P)
    BY <2>1, <2>2, <2>3, Zenon DEF ShownOf, R
  <2>5. QED  BY <1>0, <1>4, <2>4
<1>5. QED  BY <1>1, <1>2, <1>3, <1>4

LEMMA HasReadShows ==
  ASSUME NEW s, Lettered(s), NEW P \in Seq(Letter), HasRead(s, P)
  PROVE  Shown(s, P)
<1>1. /\ s.held \in Seq(Letter) /\ s.visible \in Seq(Letter)
      /\ s.thought \in Seq(Letter \cup {"r"})
  BY DEF Lettered
<1>2. FromContent(s.thought) \in Seq(Letter)
  <2>1. "r" \notin Letter /\ <<>> \in Seq(Letter)  BY Letters
  <2>2. QED  BY ONLY <1>1, <2>1, ContentOnly
<1>3. Read(s.mode, s.held, FromContent(s.thought), s.visible, P)  BY DEF HasRead
<1>4. QED
  BY <1>1, <1>2, <1>3, ReadShows DEF Shown, ThoughtShown, TextShown

(* What was held back goes out as what it was taken for.                     *)
LEMMA FlushShows ==
  ASSUME NEW s, Lettered(s), NEW P \in Seq(Letter), HasRead(s, P)
  PROVE  Made(Flush(s)) /\ Shown(Flush(s), P)
<1> DEFINE z == Flush(s)
           R == Letter \cup {"r"}
           th == FromContent(s.thought)
<1>1. /\ s.held \in Seq(Letter) /\ s.visible \in Seq(Letter) /\ Made(s)
      /\ s.thought \in Seq(R)
  BY DEF Lettered
<1>2. s.held \in Seq(R) /\ s.visible \in Seq(R)
  <2>1. Letter \subseteq R  OBVIOUS
  <2> HIDE DEF R
  <2>2. QED  BY <1>1, <2>1
<1>3. th \in Seq(Letter) /\ FromContent(s.thought \o s.held) = th \o s.held
  <2>1. "r" \notin Letter  BY Letters
  <2>2. QED  BY ONLY <1>1, <2>1, ContentOnly
<1> HIDE DEF R
<1>4. /\ Made(z) /\ z.held = <<>>
      /\ z.mode = IF s.mode = "reasoning" /\ s.held = <<>> THEN s.mode ELSE "text"
      /\ z.thought = IF s.mode = "reasoning" THEN s.thought \o s.held ELSE s.thought
      /\ z.visible = IF s.mode = "reasoning" THEN s.visible ELSE s.visible \o s.held
  BY <1>1, <1>2, FlushText
<1> HIDE DEF z
<1>5. Shown(s, P)  BY HasReadShows
<1>6. s.mode = "text" => s.held = <<>>  BY DEF HasRead, Read
<1>7. s.mode \in {"detecting", "text", "reasoning"}  BY DEF HasRead, Read
<1> HIDE DEF th
<1>8. PICK h, vi, w \in Seq(Letter) : h = s.held /\ vi = s.visible /\ w = th
  BY <1>1, <1>3
<1>9. h \o <<>> = h /\ vi \o <<>> = vi /\ w \o <<>> = w  BY ConcatEmptySeq
<1>10. (w \o h) \o <<>> = w \o h /\ (vi \o h) \o <<>> = vi \o h
  <2>1. w \o h \in Seq(Letter) /\ vi \o h \in Seq(Letter)
    <3>1. w \in Seq(Letter) /\ h \in Seq(Letter) /\ vi \in Seq(Letter)  OBVIOUS
    <3>2. QED  BY ONLY <3>1, Glued
  <2>2. QED  BY <2>1, ConcatEmptySeq
<1>11. ThoughtShown(z) = ThoughtShown(s)
  <2>1. ThoughtShown(z) = FromContent(z.thought) \o <<>>
    BY <1>4 DEF ThoughtShown
  <2>2. CASE s.mode = "reasoning"
    <3>1. FromContent(z.thought) = w \o h  BY <1>3, <1>4, <1>8, <2>2
    <3>2. ThoughtShown(s) = w \o h  BY <1>8, <2>2 DEF ThoughtShown, th
    <3>3. QED  BY <1>10, <2>1, <3>1, <3>2
  <2>3. CASE s.mode # "reasoning"
    <3>1. FromContent(z.thought) = w  BY <1>4, <1>8, <2>3 DEF th
    <3>2. ThoughtShown(s) = w \o <<>>  BY <1>8, <2>3 DEF ThoughtShown, th
    <3>3. QED  BY <2>1, <3>1, <3>2
  <2>4. QED  BY <2>2, <2>3
<1>12. TextShown(z) = TextShown(s)
  <2>1. TextShown(z) = z.visible \o <<>>
    BY <1>4 DEF TextShown
  <2>2. CASE s.mode = "reasoning"
    <3>1. TextShown(s) = vi \o <<>> /\ z.visible = vi  BY <1>4, <1>8, <2>2 DEF TextShown
    <3>2. QED  BY <2>1, <3>1
  <2>3. CASE s.mode = "text"
    <3>1. TextShown(s) = vi \o <<>> /\ z.visible = vi \o h /\ h = <<>>
      BY <1>4, <1>6, <1>8, <2>3 DEF TextShown
    <3>2. QED  BY <1>9, <2>1, <3>1
  <2>4. CASE s.mode = "detecting"
    <3>1. TextShown(s) = vi \o h /\ z.visible = vi \o h
      BY <1>4, <1>8, <2>4 DEF TextShown
    <3>2. QED  BY <1>10, <2>1, <3>1
  <2>5. QED  BY <1>7, <2>2, <2>3, <2>4
<1>13. IsPrefix(z.held, Open)  BY <1>4, NothingHeld
<1>14. Shown(z, P)
  BY <1>5, <1>11, <1>12, <1>13, Zenon DEF Shown, ShownOf
<1>15. QED  BY <1>4, <1>14 DEF z

-----------------------------------------------------------------------------
(* The invariant: while no tool call came the content was read to its last   *)
(* letter, and what shows of it stays when the stream is over.               *)
CutInv ==
    /\ said \in Seq(Letter)
    /\ CutIndependent
    /\ stage = "reading" /\ ~cut => Lettered(t) /\ HasRead(t, said)

LEMMA NothingRead ==
  ASSUME NEW s, Made(s), s.mode = "detecting", s.held = <<>>, s.thought = <<>>, s.visible = <<>>
  PROVE  Lettered(s) /\ HasRead(s, <<>>)
<1>1. <<>> \in Seq(Letter) /\ <<>> \in Seq(Letter \cup {"r"})  OBVIOUS
<1>2. Lettered(s)  BY <1>1 DEF Lettered
<1>3. FromContent(s.thought) = <<>>  BY ContentNone
<1>4. Read("detecting", <<>>, <<>>, <<>>, <<>>)  BY NothingHeld DEF Read
<1>5. HasRead(s, <<>>)  BY <1>3, <1>4 DEF HasRead
<1>6. QED  BY <1>2, <1>5

LEMMA FreshRead ==
  ASSUME NEW items, NEW created, NEW client
  PROVE  LET s == Fresh(items, created, client) IN Lettered(s) /\ HasRead(s, <<>>)
<1> DEFINE s == Fresh(items, created, client)
<1>1. /\ Made(s) /\ s.mode = "detecting" /\ s.held = <<>>
      /\ s.thought = <<>> /\ s.visible = <<>>
  BY DEF Fresh, Made
<1> HIDE DEF s
<1>2. Lettered(s) /\ HasRead(s, <<>>)  BY <1>1, NothingRead
<1>3. QED  BY <1>2 DEF s

LEMMA CutStart == TranslatorInit => CutInv
<1> SUFFICES ASSUME TranslatorInit PROVE CutInv
  OBVIOUS
<1>1. t = Fresh(<<>>, FALSE, Unread) /\ said = <<>>  BY DEF TranslatorInit
<1>2. Lettered(t) /\ HasRead(t, <<>>)  BY <1>1, FreshRead
<1>3. <<>> \in Seq(Letter)  OBVIOUS
<1>4. Shown(t, said)  BY <1>1, <1>2, <1>3, HasReadShows
<1>5. CutIndependent  BY <1>4, IndependentIs
<1>6. QED  BY <1>1, <1>2, <1>3, <1>5 DEF CutInv

(* The end of the stream.                                                    *)
LEMMA FinishShows ==
  ASSUME NEW s, Sound(s, 0), Lettered(s), NEW P \in Seq(Letter), HasRead(s, P)
  PROVE  Shown(Finish(s), P)
<1>1. Made(s) /\ Shown(s, P)  BY HasReadShows DEF Lettered
<1>2. CASE s.reason # "stop" \/ Torn(s)
  <2>1. Finish(s) = Emit(s, "incomplete", 0)  BY <1>2 DEF Finish
  <2>2. SameText(s, Emit(s, "incomplete", 0))  BY <1>1, EmitText
  <2>3. QED  BY <1>1, <2>1, <2>2, SameShown
<1>3. CASE s.reason = "stop" /\ ~Torn(s)
  <2> DEFINE a == Flush(s)
             b == EndThink(a)
             f == EndText(b)
             g == EndCalls(f)
             kind == IF OnlyThinking(g) THEN "failed" ELSE "completed"
  <2>1. s.created = TRUE
    BY <1>3 DEF Sound, ShapeOf, ToldOf
  <2>2. Finish(s) = Emit(g, kind, 0)
    BY <1>3 DEF Finish
  <2>3. Sound(a, 0) /\ a.created = TRUE
    BY <2>1, FlushSound DEF Continues
  <2>4. Made(a) /\ Shown(a, P)
    BY FlushShows
  <2> HIDE DEF a
  <2>5. Sound(b, 0) /\ b.created = TRUE
    BY <2>3, EndThinkSound DEF Continues
  <2>6. SameText(a, b) /\ Made(b)
    BY <2>4, EndsText DEF SameText
  <2> HIDE DEF b
  <2>7. Sound(f, 0)
    BY <2>5, EndTextSound DEF Continues
  <2>8. SameText(b, f) /\ Made(f)
    BY <2>6, EndsText DEF SameText
  <2> HIDE DEF f
  <2>9. Len(f.calls) \in Nat
    BY <2>7 DEF Sound, ShapeOf
  <2>10. SameText(f, g) /\ Made(g)
    BY <2>8, <2>9, EndCallsText DEF SameText
  <2> HIDE DEF g, kind
  <2>11. SameText(g, Emit(g, kind, 0))
    BY <2>10, EmitText
  <2>12. Shown(Emit(g, kind, 0), P)
    BY <2>4, <2>6, <2>8, <2>10, <2>11, SameShown
  <2>13. QED  BY <2>2, <2>12
<1>4. QED  BY <1>2, <1>3

(* One call too many: what was held back goes out first.                     *)
LEMMA LimitShows ==
  ASSUME Lettered(t), NEW P \in Seq(Letter), HasRead(t, P), NEW i, NEW tool,
         LimitExceeded(i, tool)
  PROVE  Shown(t', P)
<1> DEFINE a == Flush(Created(t))
           c == CallOf(i, tool)
           s == IF i > MaxToolCalls THEN a ELSE c
           w == See(t.client, "failed", 0)
<1>1. t' = [s EXCEPT !.client = w]  BY DEF LimitExceeded, HandlerFails
<1>2. Lettered(Created(t)) /\ HasRead(Created(t), P)
  <2>1. SameText(t, Created(t))  BY CreatedText DEF Lettered
  <2>2. QED  BY <2>1, SameHasRead
<1>3. Made(a) /\ Shown(a, P)  BY <1>2, FlushShows
<1>4. c = Named(Called(a, i), i, tool)  BY DEF CallOf
<1> HIDE DEF a, w
<1>5. SameText(a, Called(a, i))  BY <1>3, CallsText
<1>6. SameText(Called(a, i), Named(Called(a, i), i, tool))
  <2>1. Made(Called(a, i))  BY <1>5 DEF SameText
  <2>2. QED  BY <2>1, CallsText
<1> HIDE DEF c
<1>7. SameText(Called(a, i), c)  BY <1>4, <1>6
<1>8. Made(c) /\ Shown(c, P)
  <2>1. Shown(Called(a, i), P)  BY <1>3, <1>5, SameShown
  <2>2. Made(c)  BY <1>7 DEF SameText
  <2>3. QED  BY <1>7, <2>1, <2>2, SameShown
<1>9. Made(s) /\ Shown(s, P)  BY <1>3, <1>8
<1> HIDE DEF s
<1>10. SameText(s, [s EXCEPT !.client = w])  BY <1>9, SameTextFields
<1>11. QED  BY <1>1, <1>9, <1>10, SameShown

LEMMA CutStep == StreamInv /\ CutInv /\ [TranslatorNext]_translatorVars => CutInv'
<1> SUFFICES ASSUME StreamInv, CutInv, [TranslatorNext]_translatorVars PROVE CutInv'
  OBVIOUS
<1>1. CASE UNCHANGED translatorVars
  BY <1>1 DEF CutInv, CutIndependent, translatorVars
<1>2. CASE TranslatorNext
  <2>1. stage = "reading" /\ Sound(t, 0)
    BY <1>2 DEF TranslatorNext, StreamInv, EmptyChunk, ReasonChunk, ReasoningChunk,
       ContentChunk, ToolChunk, LimitExceeded, UpstreamFails, HandlerFails, Took, Retry,
       StreamEnds
  <2>2. said \in Seq(Letter) /\ (~cut => Lettered(t) /\ HasRead(t, said))
    BY <2>1 DEF CutInv
  <2>m. Made(t)  BY <2>1 DEF Sound, ShapeOf
  (* What is to be shown of a step that keeps reading, and of one that does not. *)
  <2> DEFINE Reading == said' \in Seq(Letter) /\ (~cut' => Lettered(t') /\ HasRead(t', said'))
             Over == /\ stage' = "over" /\ said' = said /\ cut' = cut
                     /\ ~cut => Shown(t', said)
  <2>3. Reading => CutInv'
    <3> SUFFICES ASSUME Reading PROVE CutInv'
      OBVIOUS
    <3>1. ~cut' => Shown(t', said')  BY HasReadShows
    <3>2. CutIndependent'
      <4>1. CutIndependent' <=> (~cut' => Shown(t', said'))
        BY DEF CutIndependent, Shown, ShownOf, ThoughtShown, TextShown, AfterOpen
      <4>2. QED  BY <3>1, <4>1
    <3>3. QED  BY <3>2 DEF CutInv
  <2>4. Over => CutInv'
    <3> SUFFICES ASSUME Over PROVE CutInv'
      OBVIOUS
    <3>1. ~cut' => Shown(t', said')  OBVIOUS
    <3>2. CutIndependent'
      <4>1. CutIndependent' <=> (~cut' => Shown(t', said'))
        BY DEF CutIndependent, Shown, ShownOf, ThoughtShown, TextShown, AfterOpen
      <4>2. QED  BY <3>1, <4>1
    <3>3. stage' # "reading" /\ said' \in Seq(Letter)  BY <2>2
    <3>4. QED  BY <3>2, <3>3 DEF CutInv
  <2>5. SUFFICES Reading \/ Over
    BY <2>3, <2>4
  <2>6. SameText(t, Created(t)) /\ Made(Created(t))
    BY <2>m, CreatedText DEF SameText
  <2>7. ~cut => Lettered(Created(t)) /\ HasRead(Created(t), said)
    BY <2>2, <2>6, SameHasRead
  <2>8. ASSUME NEW z, SameText(t, z), t' = z, UNCHANGED <<said, cut>>
        PROVE  Reading
    <3>1. ~cut => Lettered(z) /\ HasRead(z, said)  BY <2>2, <2>8, SameHasRead
    <3>2. QED  BY <2>2, <2>8, <3>1
  <2>9. CASE EmptyChunk
    BY <2>6, <2>8, <2>9 DEF EmptyChunk, Took
  <2>10. ASSUME NEW reason, ReasonChunk(reason) PROVE Reading
    <3> DEFINE a == Created(t)
    <3>1. t' = [a EXCEPT !.reason = reason] /\ UNCHANGED <<said, cut>>
      BY <2>10 DEF ReasonChunk, Took
    <3> HIDE DEF a
    <3>2. SameText(a, [a EXCEPT !.reason = reason])
      BY <2>6, SameTextFields DEF a
    <3>3. SameText(t, [a EXCEPT !.reason = reason])
      BY <2>6, <3>2, SameTextSteps DEF a
    <3>4. QED  BY <2>8, <3>1, <3>3
  <2>11. CASE ReasoningChunk
    <3> DEFINE a == Created(t)
               R == Letter \cup {"r"}
    <3>1. t' = Think(a, <<"r">>) /\ said' = said /\ cut' = cut
      BY <2>11 DEF ReasoningChunk, Took
    <3>2. SUFFICES ASSUME ~cut PROVE Lettered(t') /\ HasRead(t', said)
      BY <2>2, <3>1
    <3> HIDE DEF a
    <3>3. Lettered(a) /\ HasRead(a, said)  BY <2>7, <3>2 DEF a
    <3>4. Made(a) /\ a.thought \in Seq(R)  BY <3>3 DEF Lettered
    <3>5. "r" \in R /\ <<"r">> \in Seq(R)  OBVIOUS
    <3> HIDE DEF R
    <3> DEFINE z == Think(a, <<"r">>)
    <3>6. /\ Made(z) /\ z.mode = a.mode /\ z.held = a.held
          /\ z.thought = a.thought \o <<"r">> /\ z.visible = a.visible
      BY <3>4, ThinkText
    <3> HIDE DEF z
    <3>7. FromContent(a.thought \o <<"r">>) = FromContent(a.thought)
      BY ONLY <3>4, <3>5, ContentBesides
    <3>8. a.thought \o <<"r">> \in Seq(R)
      BY ONLY <3>4, <3>5, Glued
    <3>9. Lettered(z)  BY <3>3, <3>6, <3>8 DEF Lettered, R
    <3>10. HasRead(z, said)  BY <3>3, <3>6, <3>7 DEF HasRead
    <3>11. QED  BY <3>1, <3>9, <3>10 DEF z
  <2>12. ASSUME NEW piece \in Pieces, ContentChunk(piece) PROVE Reading
    <3>1. t' = Content(Created(t), piece) /\ said' = said \o piece /\ cut' = cut
      BY <2>12 DEF ContentChunk, Took
    <3>2. piece \in Seq(Letter)  BY Letters
    <3>3. said \o piece \in Seq(Letter)
      BY ONLY <2>2, <3>2, Glued
    <3>4. ~cut => /\ Lettered(Content(Created(t), piece))
                  /\ HasRead(Content(Created(t), piece), said \o piece)
      BY ONLY <2>2, <2>7, <3>2, ContentReads
    <3>5. QED  BY <3>1, <3>3, <3>4
  <2>13. ASSUME NEW i \in 1 .. (Len(t.calls) + 1), NEW name \in Tools \cup {"none"},
                ToolChunk(i, name) \/ LimitExceeded(i, name)
         PROVE  Reading \/ Over
    <3>1. CASE ToolChunk(i, name)
      BY <2>2, <3>1 DEF ToolChunk
    <3>2. CASE LimitExceeded(i, name)
      <4>1. stage' = "over" /\ said' = said /\ cut' = cut
        BY <3>2 DEF LimitExceeded, HandlerFails
      <4>2. ~cut => Shown(t', said)  BY <2>2, <3>2, LimitShows
      <4>3. QED  BY <4>1, <4>2
    <3>3. QED  BY <2>13, <3>1, <3>2
  <2>14. CASE UpstreamFails
    <3> DEFINE w == See(t.client, "failed", 0)
    <3>1. t' = [t EXCEPT !.client = w] /\ stage' = "over" /\ said' = said /\ cut' = cut
      BY <2>14 DEF UpstreamFails, HandlerFails
    <3> HIDE DEF w
    <3>2. SameText(t, [t EXCEPT !.client = w])  BY <2>m, SameTextFields
    <3>3. ~cut => Shown(t, said)  BY <2>2, HasReadShows
    <3>4. ~cut => Shown(t', said)  BY <3>1, <3>2, <3>3, SameShown
    <3>5. QED  BY <3>1, <3>4
  <2>15. CASE Retry
    <3>1. t' = Fresh(t.items, TRUE, t.client) /\ said' = <<>>  BY <2>15 DEF Retry
    <3>2. <<>> \in Seq(Letter)  OBVIOUS
    <3>3. QED  BY <3>1, <3>2, FreshRead
  <2>16. CASE StreamEnds
    <3>1. t' = Finish(t) /\ stage' = "over" /\ said' = said /\ cut' = cut
      BY <2>16 DEF StreamEnds
    <3>2. ~cut => Shown(Finish(t), said)  BY <2>1, <2>2, FinishShows
    <3>3. QED  BY <3>1, <3>2
  <2>17. QED
    BY <1>2, <2>9, <2>10, <2>11, <2>12, <2>13, <2>14, <2>15, <2>16 DEF TranslatorNext
<1>3. QED  BY <1>1, <1>2

(* However a content is cut into chunks: what opens with the think tag is    *)
(* thought up to the closing tag and visible after it, what has no such tag  *)
(* is visible, and only the beginning of a tag is ever held back.            *)
THEOREM CutTheorem == TranslatorSpec => []CutIndependent
<1>1. TranslatorInit => StreamInv /\ CutInv  BY StreamStart, CutStart
<1>2. StreamInv /\ CutInv /\ [TranslatorNext]_translatorVars => StreamInv' /\ CutInv'
  BY StreamStep, CutStep
<1>3. CutInv => CutIndependent  BY DEF CutInv
<1>4. QED  BY <1>1, <1>2, <1>3, PTL DEF TranslatorSpec
==============================================================================
