-------------------------- MODULE MinifilterProofs --------------------------
(***************************************************************************)
(* Proofs about Minifilter, for every number of service threads and        *)
(* openers, every set of paths and every normalization.                    *)
(***************************************************************************)
EXTENDS Minifilter, FiniteSetTheorems, SequenceTheorems, TLAPS

-----------------------------------------------------------------------------
(* The two list operations.                                                *)

LEMMA InsertAtFacts ==
  ASSUME NEW S, NEW s \in Seq(S), NEW i \in 1..(Len(s) + 1), NEW e \in S
  PROVE  /\ InsertAt(s, i, e) \in Seq(S)
         /\ Len(InsertAt(s, i, e)) = Len(s) + 1
         /\ \A j \in 1..(Len(s) + 1) :
              InsertAt(s, i, e)[j] = IF j < i THEN s[j] ELSE IF j = i THEN e ELSE s[j - 1]
<1> DEFINE front == SubSeq(s, 1, i - 1)
           back == SubSeq(s, i, Len(s))
<1>1. /\ front \in Seq(S) /\ Len(front) = i - 1
      /\ \A j \in 1..(i - 1) : front[j] = s[j]
  OBVIOUS
<1>2. /\ back \in Seq(S) /\ Len(back) = Len(s) - i + 1
      /\ \A j \in 1..(Len(s) - i + 1) : back[j] = s[i + j - 1]
  OBVIOUS
<1> HIDE DEF front, back
<1> DEFINE middle == front \o <<e>>
<1>3. /\ middle \in Seq(S) /\ Len(middle) = i
      /\ \A j \in 1..i : middle[j] = IF j = i THEN e ELSE front[j]
  BY <1>1
<1> HIDE DEF middle
<1>4. /\ middle \o back \in Seq(S) /\ Len(middle \o back) = Len(s) + 1
      /\ \A j \in 1..(Len(s) + 1) :
           (middle \o back)[j] = IF j <= i THEN middle[j] ELSE back[j - i]
  <2>1. /\ middle \o back \in Seq(S)
        /\ Len(middle \o back) = Len(middle) + Len(back)
        /\ \A j \in 1..(Len(middle) + Len(back)) :
             (middle \o back)[j]
               = IF j <= Len(middle) THEN middle[j] ELSE back[j - Len(middle)]
    BY <1>2, <1>3, ConcatProperties
  <2>2. Len(s) \in Nat /\ Len(middle) + Len(back) = Len(s) + 1 /\ Len(middle) = i
    BY <1>2, <1>3
  <2>3. QED  BY <2>1, <2>2
<1>5. InsertAt(s, i, e) = middle \o back
  BY DEF InsertAt, middle, front, back
<1>6. ASSUME NEW j \in 1..(Len(s) + 1)
      PROVE  (middle \o back)[j] = IF j < i THEN s[j] ELSE IF j = i THEN e ELSE s[j - 1]
  <2>1. CASE j <= i  BY <1>1, <1>3, <1>4, <2>1
  <2>2. CASE j > i
    <3>1. j - i \in 1..(Len(s) - i + 1) /\ i + (j - i) - 1 = j - 1
      BY <2>2
    <3>2. QED  BY <1>2, <1>4, <2>2, <3>1
  <2>3. j <= i \/ j > i
    OBVIOUS
  <2>4. QED  BY <2>1, <2>2, <2>3
<1>7. QED  BY <1>4, <1>5, <1>6

LEMMA RemoveAtFacts ==
  ASSUME NEW S, NEW s \in Seq(S), NEW i \in 1..Len(s)
  PROVE  /\ RemoveAt(s, i) \in Seq(S)
         /\ Len(RemoveAt(s, i)) = Len(s) - 1
         /\ \A j \in 1..(Len(s) - 1) :
              RemoveAt(s, i)[j] = IF j < i THEN s[j] ELSE s[j + 1]
<1> DEFINE front == SubSeq(s, 1, i - 1)
           back == SubSeq(s, i + 1, Len(s))
<1>1. /\ front \in Seq(S) /\ Len(front) = i - 1
      /\ \A j \in 1..(i - 1) : front[j] = s[j]
  OBVIOUS
<1>2. /\ back \in Seq(S) /\ Len(back) = Len(s) - i
      /\ \A j \in 1..(Len(s) - i) : back[j] = s[i + j]
  OBVIOUS
<1>3. RemoveAt(s, i) = front \o back
  BY DEF RemoveAt
<1> HIDE DEF front, back
<1>4. /\ front \o back \in Seq(S) /\ Len(front \o back) = Len(s) - 1
      /\ \A j \in 1..(Len(s) - 1) :
           (front \o back)[j] = IF j <= i - 1 THEN front[j] ELSE back[j - (i - 1)]
  BY <1>1, <1>2, ConcatProperties
<1>5. ASSUME NEW j \in 1..(Len(s) - 1)
      PROVE  (front \o back)[j] = IF j < i THEN s[j] ELSE s[j + 1]
  <2>1. CASE j < i  BY <1>1, <1>4, <2>1
  <2>2. CASE j >= i
    <3>1. j - (i - 1) \in 1..(Len(s) - i) /\ i + (j - (i - 1)) = j + 1
      BY <2>2
    <3>2. QED  BY <1>2, <1>4, <2>2, <3>1
  <2>3. j < i \/ j >= i
    OBVIOUS
  <2>4. QED  BY <2>1, <2>2, <2>3
<1>6. QED  BY <1>3, <1>4, <1>5

Increasing(s) == \A i, j \in DOMAIN s : i < j => s[i] < s[j]

\* A sorted list has as many entries as elements.
LEMMA SizeOfIncreasing ==
  ASSUME NEW s \in Seq(Nat), Increasing(s)
  PROVE  Cardinality(Range(s)) = Len(s)
<1>1. DOMAIN s = 1..Len(s) /\ Len(s) \in Nat
  OBVIOUS
<1>2. s \in [1..Len(s) -> Range(s)]
  BY <1>1 DEF Range
<1>3. \A i, j \in 1..Len(s) : s[i] = s[j] => i = j
  BY <1>1 DEF Increasing
<1>4. \A x \in Range(s) : \E i \in 1..Len(s) : s[i] = x
  BY <1>1 DEF Range
<1>5. s \in Bijection(1..Len(s), Range(s))
  BY <1>2, <1>3, <1>4, Zenon DEF Bijection, Injection, Surjection, IsInjective
<1>6. ExistsBijection(1..Len(s), Range(s))
  BY <1>5 DEF ExistsBijection
<1>7. QED  BY <1>1, <1>6, FS_CountingElements

\* Inserting e before the first larger entry of a sorted list.
LEMMA InsertKeepsOrder ==
  ASSUME NEW S \in SUBSET Nat, NEW s \in Seq(S), Increasing(s),
         NEW i \in 1..(Len(s) + 1), NEW e \in S,
         \A j \in 1..(i - 1) : s[j] < e,
         i <= Len(s) => s[i] > e
  PROVE  /\ Increasing(InsertAt(s, i, e)) /\ InsertAt(s, i, e) \in Seq(S)
         /\ Len(InsertAt(s, i, e)) = Len(s) + 1
         /\ Range(InsertAt(s, i, e)) = Range(s) \cup {e}
         /\ e \notin Range(s)
<1> DEFINE r == InsertAt(s, i, e)
<1>1. /\ r \in Seq(S) /\ Len(r) = Len(s) + 1
      /\ \A j \in 1..(Len(s) + 1) :
           r[j] = IF j < i THEN s[j] ELSE IF j = i THEN e ELSE s[j - 1]
  BY InsertAtFacts
<1> HIDE DEF r
<1>2. /\ DOMAIN s = 1..Len(s) /\ Len(s) \in Nat /\ DOMAIN r = 1..(Len(s) + 1)
      /\ \A j \in 1..Len(s) : s[j] \in Nat
      /\ \A j, k \in 1..Len(s) : j < k => s[j] < s[k]
  BY <1>1, ElementOfSeq, LenProperties DEF Increasing
<1>3. \A j \in 1..Len(s) : j >= i => s[j] > e
  BY <1>2 DEF Increasing
<1>4. Increasing(r)
  <2>1. SUFFICES ASSUME NEW j \in 1..(Len(s) + 1), NEW k \in 1..(Len(s) + 1), j < k
                 PROVE  r[j] < r[k]
    BY <1>2 DEF Increasing
  <2>2. CASE k < i
    BY <1>1, <1>2, <2>1, <2>2
  <2>3. CASE k = i
    BY <1>1, <1>2, <2>1, <2>3
  <2>4. CASE k > i /\ j < i
    BY <1>1, <1>2, <1>3, <2>1, <2>4 DEF Increasing
  <2>5. CASE k > i /\ j = i
    <3>1. k - 1 \in 1..Len(s) /\ k - 1 >= i /\ r[k] = s[k - 1] /\ r[j] = e
      BY <1>1, <1>2, <2>1, <2>5
    <3>2. QED  BY <1>2, <1>3, <3>1
  <2>6. CASE k > i /\ j > i
    <3>1. k - 1 \in 1..Len(s) /\ j - 1 \in 1..Len(s) /\ r[k] = s[k - 1] /\ r[j] = s[j - 1]
      BY <1>1, <1>2, <2>1, <2>6
    <3>2. QED  BY <1>2, <2>1, <3>1 DEF Increasing
  <2>7. QED  BY <2>2, <2>3, <2>4, <2>5, <2>6
<1>5. Range(r) \subseteq Range(s) \cup {e}
  <2>1. SUFFICES ASSUME NEW j \in 1..(Len(s) + 1)  PROVE  r[j] \in Range(s) \cup {e}
    BY <1>2 DEF Range
  <2>2. j > i => j - 1 \in 1..Len(s)
    OBVIOUS
  <2>3. QED  BY <1>1, <1>2, <2>2 DEF Range
<1>6. ASSUME NEW j \in 1..Len(s)  PROVE  s[j] \in Range(r)
  <2>1. j < i => r[j] = s[j] /\ j \in 1..(Len(s) + 1)
    BY <1>1
  <2>2. j >= i => r[j + 1] = s[j] /\ j + 1 \in 1..(Len(s) + 1)
    BY <1>1
  <2>3. j < i \/ j >= i
    OBVIOUS
  <2>4. \E k \in 1..(Len(s) + 1) : r[k] = s[j]
    BY <2>1, <2>2, <2>3
  <2>5. QED  BY <1>2, <2>4 DEF Range
<1>7. e \in Range(r)
  <2>1. r[i] = e  BY <1>1
  <2>2. QED  BY <1>2, <2>1 DEF Range
<1>8. Range(r) = Range(s) \cup {e}
  BY <1>2, <1>5, <1>6, <1>7 DEF Range
<1>9. \A j \in 1..Len(s) : s[j] # e
  BY <1>2, <1>3
<1>10. e \notin Range(s)
  BY <1>2, <1>9 DEF Range
<1>11. QED  BY <1>1, <1>4, <1>8, <1>10 DEF r

LEMMA RemoveKeepsOrder ==
  ASSUME NEW S \in SUBSET Nat, NEW s \in Seq(S), Increasing(s), NEW i \in 1..Len(s)
  PROVE  /\ Increasing(RemoveAt(s, i)) /\ RemoveAt(s, i) \in Seq(S)
         /\ Len(RemoveAt(s, i)) = Len(s) - 1
         /\ Range(RemoveAt(s, i)) = Range(s) \ {s[i]}
         /\ s[i] \in Range(s)
<1> DEFINE r == RemoveAt(s, i)
<1>1. /\ r \in Seq(S) /\ Len(r) = Len(s) - 1
      /\ \A j \in 1..(Len(s) - 1) : r[j] = IF j < i THEN s[j] ELSE s[j + 1]
  BY RemoveAtFacts
<1> HIDE DEF r
<1>2. /\ DOMAIN s = 1..Len(s) /\ Len(s) \in Nat /\ DOMAIN r = 1..(Len(s) - 1)
      /\ \A j \in 1..Len(s) : s[j] \in Nat
      /\ \A j, k \in 1..Len(s) : j < k => s[j] < s[k]
  BY <1>1, ElementOfSeq, LenProperties DEF Increasing
<1>3. Increasing(r)
  <2>1. SUFFICES ASSUME NEW j \in 1..(Len(s) - 1), NEW k \in 1..(Len(s) - 1), j < k
                 PROVE  r[j] < r[k]
    BY <1>2 DEF Increasing
  <2>2. \E a, b \in 1..Len(s) : a < b /\ r[j] = s[a] /\ r[k] = s[b]
    <3>1. CASE k < i                BY <1>1, <2>1, <3>1
    <3>2. CASE k >= i /\ j < i
      <4>1. r[j] = s[j] /\ r[k] = s[k + 1] /\ k + 1 \in 1..Len(s) /\ j \in 1..Len(s) /\ j < k + 1
        BY <1>1, <1>2, <2>1, <3>2
      <4>2. QED  BY <4>1
    <3>3. CASE j >= i
      <4>1. /\ r[j] = s[j + 1] /\ r[k] = s[k + 1] /\ k + 1 \in 1..Len(s)
            /\ j + 1 \in 1..Len(s) /\ j + 1 < k + 1
        BY <1>1, <1>2, <2>1, <3>3
      <4>2. QED  BY <4>1
    <3>4. QED  BY <3>1, <3>2, <3>3
  <2>3. QED  BY <1>2, <2>2 DEF Increasing
<1>4. ASSUME NEW j \in 1..(Len(s) - 1)  PROVE  r[j] \in Range(s) /\ r[j] # s[i]
  <2>1. CASE j < i
    <3>1. r[j] = s[j] /\ j \in 1..Len(s) /\ s[j] < s[i] /\ s[i] \in Nat /\ s[j] \in Nat
      BY <1>1, <1>2, <2>1 DEF Increasing
    <3>2. QED  BY <1>2, <3>1 DEF Range
  <2>2. CASE j >= i
    <3>1. /\ r[j] = s[j + 1] /\ j + 1 \in 1..Len(s) /\ s[i] < s[j + 1]
          /\ s[i] \in Nat /\ s[j + 1] \in Nat
      BY <1>1, <1>2, <2>2 DEF Increasing
    <3>2. QED  BY <1>2, <3>1 DEF Range
  <2>3. QED  BY <2>1, <2>2
<1>5. ASSUME NEW j \in 1..Len(s), j # i  PROVE  s[j] \in Range(r)
  <2>1. j < i => r[j] = s[j] /\ j \in 1..(Len(s) - 1)
    BY <1>1
  <2>2. j > i => r[j - 1] = s[j] /\ j - 1 \in 1..(Len(s) - 1)
    BY <1>1
  <2>3. QED  BY <1>2, <1>5, <2>1, <2>2 DEF Range
<1>6. Range(r) \subseteq Range(s) \ {s[i]}
  BY <1>2, <1>4 DEF Range
<1>7. Range(s) \ {s[i]} \subseteq Range(r)
  BY <1>2, <1>5 DEF Range
<1>8. QED  BY <1>1, <1>2, <1>3, <1>6, <1>7 DEF r, Range

-----------------------------------------------------------------------------
(* The inductive invariant.                                                *)

Critical == {"walk", "read", "count"}
Searches == {"add", "remove", "execute"}
Requested(t) == IF t \in Clients THEN Abstract!Commands ELSE Abstract!Opens

\* Where a thread is fits its request, its answer and the lock.
StepInv ==
  \A t \in Threads :
    /\ pc[t] = "idle" <=> call[t] = NoCall
    /\ call[t] = NoCall \/ call[t] \in Requested(t)
    /\ pc[t] = "decided" <=> answer[t] # NoAnswer
    /\ pc[t] = "test" => call[t].op \in {"execute", "other"}
    /\ pc[t] = "walk" => call[t].op \in Searches /\ Key(t) \in Keys
    /\ pc[t] = "read" => call[t].op = "status"
    /\ pc[t] = "count" => call[t].op \in {"add", "remove"} /\ Key(t) \in Keys
    /\ pc[t] \in Critical <=> lock = t

LoadInv == loaded = "no" => Drained

\* The count lags behind the list by the entry that is being linked or unlinked.
CountInv ==
  /\ (\A t \in Threads : pc[t] # "count") => count = Len(list)
  /\ \A t \in Threads : pc[t] = "count" =>
       /\ Len(list) = count + Change(t)
       /\ IsCall(t, "add") => Key(t) \in Range(list)
       /\ IsCall(t, "remove") => Key(t) \notin Range(list)

IInv == TypeOK /\ StepInv /\ LoadInv /\ Sorted /\ CursorIsLive /\ CountInv

LEMMA KeysAreNat == Keys \in SUBSET Nat /\ TooLong = 0
BY NormAssumption DEF Keys, TooLong, Abstract!Keys, Abstract!TooLong

LEMMA NoThreadIsNone == NoThread \notin Threads
BY NoThreadAssumption DEF Threads, Abstract!Threads

\* What is known of a request once it is made.
LEMMA RequestFacts ==
  ASSUME NEW t \in Threads, call[t] \in Requested(t)
  PROVE  /\ call[t] # NoCall /\ call[t] \in Abstract!Requests
         /\ call[t].op \in {"add", "remove", "status", "execute", "other"}
         /\ call[t].op \in Searches => call[t].path \in Paths /\ Key(t) = Norm[call[t].path]
         /\ t \in Clients <=> call[t].op \in {"add", "remove", "status"}
<1> USE DEF Requested, Abstract!Requests, Abstract!Commands, Abstract!Opens, NoCall,
            Abstract!NoCall, Searches, Key, Abstract!Key
<1>1. CASE t \in Clients      BY <1>1
<1>2. CASE t \notin Clients   BY <1>2
<1>3. QED  BY <1>1, <1>2

\* A thread in the middle of a call has one, and the words differ.
LEMMA Answered ==
  /\ \A w \in {"ok", "failed", "allow", "deny"} :
       Word(w) # NoAnswer /\ Word(w) \in Abstract!Answers
  /\ \A n \in Nat : Abstract!Number(n) # NoAnswer /\ Abstract!Number(n) \in Abstract!Answers
  /\ NoAnswer \in Abstract!Answers
BY DEF Word, NoAnswer, Abstract!Word, Abstract!NoAnswer, Abstract!Number, Abstract!Answers

LEMMA InitInv == Init => IInv
<1> SUFFICES ASSUME Init  PROVE  IInv
  OBVIOUS
<1> USE DEF Init
<1>1. TypeOK
  <2>1. list \in Seq(Keys) /\ count \in Nat /\ lock \in Threads \cup {NoThread}
    OBVIOUS
  <2>2. /\ pc \in [Threads -> {"idle", "test", "entered", "walk", "read", "count", "decided"}]
        /\ at \in [Threads -> Nat \ {0}]
    OBVIOUS
  <2>3. call \in [Threads -> Abstract!Requests \cup {NoCall}]
    OBVIOUS
  <2>4. answer \in [Threads -> Abstract!Answers]
    BY Answered
  <2>5. QED  BY <2>1, <2>2, <2>3, <2>4 DEF TypeOK
<1>2. StepInv
  BY NoThreadIsNone DEF StepInv, Critical
<1>3. Sorted /\ CursorIsLive /\ CountInv /\ LoadInv
  BY DEF Sorted, CursorIsLive, CountInv, LoadInv, Walking
<1>4. QED  BY <1>1, <1>2, <1>3 DEF IInv

\* The kinds of steps, from what each of them writes.
LEMMA NextCases ==
  ASSUME Next
  PROVE  \/ \E t \in Threads : \E request \in Abstract!Requests : Call(t, request)
         \/ \E t \in Threads : EmptyList(t) \/ LetThrough(t) \/ PathTooLong(t)
         \/ \E t \in Threads : NonEmptyList(t) \/ Lock(t) \/ Walk(t)
         \/ \E t \in Threads : Duplicate(t) \/ NoMemory(t) \/ NotFound(t)
                               \/ Deny(t) \/ Allow(t) \/ ReadCount(t)
         \/ \E t \in Threads : Link(t)
         \/ \E t \in Threads : Unlink(t)
         \/ \E t \in Threads : Count(t)
         \/ \E t \in Threads : Return(t)
         \/ Connect \/ Disconnect \/ Unload
         \/ Destroy
         \/ Load
BY Zenon DEF Next, BeforeLock, Locked, Lifetime

\* A decision before the lock, one under the lock, and what the latter rests on.
Early(t) == EmptyList(t) \/ LetThrough(t) \/ PathTooLong(t)
Late(t)  == Duplicate(t) \/ NoMemory(t) \/ NotFound(t) \/ Deny(t) \/ Allow(t) \/ ReadCount(t)

LEMMA EarlyFacts ==
  ASSUME NEW t \in Threads, Early(t)
  PROVE  /\ pc[t] \in {"test", "entered"}
         /\ \E w \in {"ok", "failed", "allow", "deny"} : Decide(t, Word(w))
         /\ UNCHANGED <<list, count, lock, at, call, connected, loaded>>
<1>1. CASE EmptyList(t)     BY <1>1, Zenon DEF EmptyList, blocklist, driver
<1>2. CASE LetThrough(t)    BY <1>2, Zenon DEF LetThrough, blocklist, driver
<1>3. CASE PathTooLong(t)
  <2>1. call[t].op = "add" \/ call[t].op = "remove" \/ call[t].op = "execute"
    BY <1>3 DEF PathTooLong
  <2>2. (CASE IsCall(t, "add") -> "failed" [] IsCall(t, "remove") -> "ok"
           [] IsCall(t, "execute") -> "allow") \in {"ok", "failed", "allow", "deny"}
    BY <2>1 DEF IsCall
  <2>3. QED  BY <1>3, <2>2, Zenon DEF PathTooLong, blocklist, driver
<1>4. QED  BY <1>1, <1>2, <1>3 DEF Early

LEMMA LateFacts ==
  ASSUME NEW t \in Threads, Late(t)
  PROVE  /\ pc[t] \in {"walk", "read"} /\ lock' = NoThread
         /\ \/ \E w \in {"ok", "failed", "allow", "deny"} : Decide(t, Word(w))
            \/ Decide(t, Abstract!Number(count))
         /\ UNCHANGED <<list, count, at, call, connected, loaded>>
<1> USE DEF blocklist, driver, Unlock, Hit, Miss, Walking
<1>1. CASE Duplicate(t)   BY <1>1, Zenon DEF Duplicate
<1>2. CASE NoMemory(t)    BY <1>2, Zenon DEF NoMemory
<1>3. CASE NotFound(t)    BY <1>3, Zenon DEF NotFound
<1>4. CASE Deny(t)        BY <1>4, Zenon DEF Deny
<1>5. CASE Allow(t)       BY <1>5, Zenon DEF Allow
<1>6. CASE ReadCount(t)   BY <1>6, Zenon DEF ReadCount
<1>7. QED  BY <1>1, <1>2, <1>3, <1>4, <1>5, <1>6 DEF Late

\* The places where the list may be changed.
LEMMA LinkPlace ==
  ASSUME IInv, NEW t \in Threads, Link(t)
  PROVE  /\ at[t] \in 1..(Len(list) + 1) /\ Key(t) \in Keys
         /\ \A j \in 1..(at[t] - 1) : list[j] < Key(t)
         /\ at[t] <= Len(list) => list[at[t]] > Key(t)
<1>1. pc[t] = "walk" /\ (~AtEnd(t) => list[at[t]] > Key(t))
  BY DEF Link, Miss, Walking
<1>2. at[t] \in Nat \ {0} /\ Len(list) \in Nat /\ Key(t) \in Keys
  BY <1>1 DEF IInv, TypeOK, StepInv
<1>3. at[t] <= Len(list) + 1 /\ \A j \in 1..(at[t] - 1) : list[j] < Key(t)
  BY <1>1 DEF IInv, CursorIsLive, Walking
<1>4. QED  BY <1>1, <1>2, <1>3 DEF AtEnd

LEMMA UnlinkPlace ==
  ASSUME IInv, NEW t \in Threads, Unlink(t)
  PROVE  at[t] \in 1..Len(list) /\ list[at[t]] = Key(t)
<1>1. pc[t] = "walk" /\ ~AtEnd(t) /\ list[at[t]] = Key(t)
  BY DEF Unlink, Hit, Walking
<1>2. at[t] \in Nat \ {0} /\ Len(list) \in Nat
  BY DEF IInv, TypeOK
<1>3. QED  BY <1>1, <1>2 DEF AtEnd

\* What the two writes do to the list.
LEMMA LinkEffect ==
  ASSUME IInv, NEW t \in Threads, Link(t)
  PROVE  /\ Sorted' /\ list' \in Seq(Keys) /\ Len(list') = Len(list) + 1
         /\ Range(list') = Range(list) \cup {Key(t)} /\ Key(t) \notin Range(list)
<1>1. list' = InsertAt(list, at[t], Key(t))
  BY DEF Link
<1>2. Increasing(list) /\ list \in Seq(Keys)
  BY DEF IInv, Sorted, TypeOK, Increasing
<1>3. /\ at[t] \in 1..(Len(list) + 1) /\ Key(t) \in Keys /\ Keys \in SUBSET Nat
      /\ \A j \in 1..(at[t] - 1) : list[j] < Key(t)
      /\ at[t] <= Len(list) => list[at[t]] > Key(t)
  BY LinkPlace, KeysAreNat
<1> DEFINE s == list
           i == at[t]
           e == Key(t)
           S == Keys
<1>4. /\ S \in SUBSET Nat /\ s \in Seq(S) /\ Increasing(s)
      /\ i \in 1..(Len(s) + 1) /\ e \in S /\ \A j \in 1..(i - 1) : s[j] < e
      /\ i <= Len(s) => s[i] > e
  BY <1>2, <1>3
<1> HIDE DEF s, i, e, S
<1>5. /\ Increasing(InsertAt(s, i, e)) /\ InsertAt(s, i, e) \in Seq(S)
      /\ Len(InsertAt(s, i, e)) = Len(s) + 1
      /\ Range(InsertAt(s, i, e)) = Range(s) \cup {e} /\ e \notin Range(s)
  BY <1>4, InsertKeepsOrder
<1>6. /\ Increasing(list') /\ list' \in Seq(Keys) /\ Len(list') = Len(list) + 1
      /\ Range(list') = Range(list) \cup {Key(t)} /\ Key(t) \notin Range(list)
  BY <1>1, <1>5 DEF s, i, e, S
<1>7. QED  BY <1>6 DEF Sorted, Increasing

LEMMA UnlinkEffect ==
  ASSUME IInv, NEW t \in Threads, Unlink(t)
  PROVE  /\ Sorted' /\ list' \in Seq(Keys) /\ Len(list') = Len(list) - 1
         /\ Range(list') = Range(list) \ {Key(t)} /\ Key(t) \in Range(list)
<1>1. list' = RemoveAt(list, at[t])
  BY DEF Unlink
<1>2. Increasing(list) /\ list \in Seq(Keys)
  BY DEF IInv, Sorted, TypeOK, Increasing
<1>3. /\ Increasing(list') /\ list' \in Seq(Keys) /\ Len(list') = Len(list) - 1
      /\ Range(list') = Range(list) \ {Key(t)} /\ Key(t) \in Range(list)
  BY <1>1, <1>2, UnlinkPlace, RemoveKeepsOrder, KeysAreNat
<1>4. QED  BY <1>3 DEF Sorted, Increasing

-----------------------------------------------------------------------------
(* Every step keeps the invariant.                                         *)

LEMMA TypeStep ==
  ASSUME IInv, Next
  PROVE  TypeOK'
<1> USE DEF TypeOK, blocklist, driver
<1>0. TypeOK
  BY DEF IInv
<1>1. CASE \E t \in Threads : \E request \in Abstract!Requests : Call(t, request)
  BY <1>0, <1>1 DEF Call
<1>2. ASSUME NEW t \in Threads, Early(t)  PROVE  TypeOK'
  <2>1. /\ \E a \in Abstract!Answers : Decide(t, a)
        /\ UNCHANGED <<list, count, lock, at, call, connected, loaded>>
    BY <1>2, EarlyFacts, Answered
  <2>2. QED  BY <1>0, <2>1 DEF Decide
<1>3. ASSUME NEW t \in Threads, NonEmptyList(t) \/ Lock(t) \/ Walk(t)  PROVE  TypeOK'
  <2>1. CASE NonEmptyList(t)  BY <1>0, <2>1 DEF NonEmptyList
  <2>2. CASE Lock(t)          BY <1>0, <2>2 DEF Lock
  <2>3. CASE Walk(t)
    <3>1. at' = [at EXCEPT ![t] = at[t] + 1] /\ UNCHANGED <<list, count, lock, pc, call, answer, connected, loaded>>
      BY <2>3 DEF Walk
    <3>2. at[t] + 1 \in Nat \ {0}
      BY <1>0
    <3>3. at' \in [Threads -> Nat \ {0}]
      BY <1>0, <3>1, <3>2
    <3>4. QED  BY <1>0, <3>1, <3>3
  <2>4. QED  BY <1>3, <2>1, <2>2, <2>3
<1>4. ASSUME NEW t \in Threads, Late(t)  PROVE  TypeOK'
  <2>1. /\ \E a \in Abstract!Answers : Decide(t, a)
        /\ lock' = NoThread /\ UNCHANGED <<list, count, at, call, connected, loaded>>
    BY <1>0, <1>4, LateFacts, Answered
  <2>2. QED  BY <1>0, <2>1 DEF Decide
<1>5. ASSUME NEW t \in Threads, Link(t)  PROVE  TypeOK'
  BY <1>0, <1>5, LinkEffect DEF Link
<1>6. ASSUME NEW t \in Threads, Unlink(t)  PROVE  TypeOK'
  BY <1>0, <1>6, UnlinkEffect DEF Unlink
<1>7. ASSUME NEW t \in Threads, Count(t)  PROVE  TypeOK'
  <2>1. count + Change(t) = Len(list)
    BY <1>7 DEF Count, IInv, CountInv
  <2>2. count' \in Nat
    BY <1>0, <1>7, <2>1 DEF Count
  <2>3. QED  BY <1>0, <1>7, <2>2, Answered DEF Count, Decide, Unlock
<1>8. ASSUME NEW t \in Threads, Return(t)  PROVE  TypeOK'
  BY <1>0, <1>8, Answered DEF Return
<1>9. CASE Connect \/ Disconnect \/ Unload
  BY <1>0, <1>9 DEF Connect, Disconnect, Unload
<1>10. CASE Destroy
  BY <1>0, <1>10 DEF Destroy
<1>11. CASE Load
  BY <1>0, <1>11 DEF Load
<1>12. QED
  BY <1>1, <1>2, <1>3, <1>4, <1>5, <1>6, <1>7, <1>8, <1>9, <1>10, <1>11, NextCases DEF Early, Late

\* Two threads are never in the critical section.
LEMMA OneHolder ==
  ASSUME IInv, NEW t \in Threads, NEW u \in Threads, pc[t] \in Critical, pc[u] \in Critical
  PROVE  t = u
BY DEF IInv, StepInv

\* StepInv of one thread, with the rest of the state as parameters it reads.
StepOf(t) ==
  /\ pc[t] = "idle" <=> call[t] = NoCall
  /\ call[t] = NoCall \/ call[t] \in Requested(t)
  /\ pc[t] = "decided" <=> answer[t] # NoAnswer
  /\ pc[t] = "test" => call[t].op \in {"execute", "other"}
  /\ pc[t] = "walk" => call[t].op \in Searches /\ Key(t) \in Keys
  /\ pc[t] = "read" => call[t].op = "status"
  /\ pc[t] = "count" => call[t].op \in {"add", "remove"} /\ Key(t) \in Keys
  /\ pc[t] \in Critical <=> lock = t

\* A thread that a step leaves alone.
LEMMA StepOfOther ==
  ASSUME NEW u \in Threads, StepOf(u), pc'[u] = pc[u], call'[u] = call[u],
         answer'[u] = answer[u], lock' = u <=> lock = u
  PROVE  StepOf(u)'
<1>1. Key(u)' = Key(u)
  BY DEF Key, Abstract!Key
<1>2. QED
  BY <1>1 DEF StepOf, Requested, Keys, NoCall, NoAnswer

LEMMA StepStep ==
  ASSUME IInv, Next
  PROVE  StepInv'
<1> USE DEF TypeOK, blocklist, driver
<1>0. TypeOK /\ \A t \in Threads : StepOf(t)
  BY DEF IInv, StepInv, StepOf
<1> SUFFICES \A t \in Threads : StepOf(t)'
  BY Zenon DEF StepInv, StepOf
<1>1. ASSUME NEW t \in Threads, NEW u \in Threads \ {t},
             \/ \E request \in Abstract!Requests : Call(t, request)
             \/ Early(t) \/ NonEmptyList(t) \/ Lock(t) \/ Walk(t) \/ Late(t)
             \/ Link(t) \/ Unlink(t) \/ Count(t) \/ Return(t)
      PROVE  StepOf(u)'
  <2>1. pc'[u] = pc[u] /\ call'[u] = call[u] /\ answer'[u] = answer[u]
    <3>1. CASE \E request \in Abstract!Requests : Call(t, request)
      BY <1>0, <3>1 DEF Call
    <3>2. CASE Early(t)          BY <1>0, <3>2, EarlyFacts DEF Decide
    <3>3. CASE NonEmptyList(t)   BY <1>0, <3>3 DEF NonEmptyList
    <3>4. CASE Lock(t)           BY <1>0, <3>4 DEF Lock
    <3>5. CASE Walk(t)           BY <1>0, <3>5 DEF Walk
    <3>6. CASE Late(t)           BY <1>0, <3>6, LateFacts DEF Decide
    <3>7. CASE Link(t)           BY <1>0, <3>7 DEF Link
    <3>8. CASE Unlink(t)         BY <1>0, <3>8 DEF Unlink
    <3>9. CASE Count(t)          BY <1>0, <3>9 DEF Count, Decide
    <3>10. CASE Return(t)        BY <1>0, <3>10 DEF Return
    <3>11. QED  BY <1>1, <3>1, <3>2, <3>3, <3>4, <3>5, <3>6, <3>7, <3>8, <3>9, <3>10
  <2>2. lock' = u <=> lock = u
    <3>1. CASE Late(t) \/ Count(t)
      <4>1. lock = t /\ lock' = NoThread
        BY <1>0, <3>1, LateFacts DEF StepOf, Critical, Count, Unlock
      <4>2. QED  BY <4>1, NoThreadIsNone
    <3>2. CASE Lock(t)
      BY <3>2, NoThreadIsNone DEF Lock, LockFree
    <3>3. CASE \/ \E request \in Abstract!Requests : Call(t, request)
               \/ NonEmptyList(t) \/ Walk(t) \/ Link(t) \/ Unlink(t) \/ Return(t)
      BY <3>3 DEF Call, NonEmptyList, Walk, Link, Unlink, Return
    <3>4. CASE Early(t)
      BY <3>4, EarlyFacts
    <3>5. QED  BY <1>1, <3>1, <3>2, <3>3, <3>4
  <2>3. QED  BY <1>0, <2>1, <2>2, StepOfOther
<1>2. ASSUME NEW t \in Threads, NEW request \in Abstract!Requests, Call(t, request)
      PROVE  StepOf(t)'
  <2>1. pc[t] = "idle" /\ call[t] = NoCall /\ answer[t] = NoAnswer /\ lock # t
    BY <1>0, <1>2 DEF Call, StepOf, Critical
  <2>2. /\ call'[t] = request /\ request \in Requested(t) /\ lock' = lock
        /\ pc'[t] = (IF t \in Clients THEN "entered" ELSE "test") /\ answer'[t] = answer[t]
    BY <1>0, <1>2 DEF Call, Requested
  <2>3. request # NoCall /\ t \notin Clients => request.op \in {"execute", "other"}
    BY <2>2 DEF Requested, Abstract!Opens, NoCall, Abstract!NoCall
  <2>4. request # NoCall
    BY <2>2 DEF Requested, Abstract!Opens, Abstract!Commands, NoCall, Abstract!NoCall
  <2>5. QED
    BY <2>1, <2>2, <2>3, <2>4 DEF StepOf, Critical, Requested, NoCall, NoAnswer
<1>3. ASSUME NEW t \in Threads, Early(t)  PROVE  StepOf(t)'
  <2>1. /\ pc[t] \in {"test", "entered"} /\ call'[t] = call[t] /\ lock' = lock
        /\ pc'[t] = "decided" /\ answer'[t] # NoAnswer
    BY <1>0, <1>3, EarlyFacts, Answered DEF Decide
  <2>2. QED  BY <1>0, <2>1 DEF StepOf, Critical, Requested, NoCall, NoAnswer
<1>4. ASSUME NEW t \in Threads, NonEmptyList(t) \/ Lock(t) \/ Walk(t)  PROVE  StepOf(t)'
  <2>1. CASE NonEmptyList(t)
    BY <1>0, <2>1 DEF NonEmptyList, StepOf, Critical, Requested, NoCall, NoAnswer
  <2>2. CASE Lock(t)
    <3>1. /\ pc[t] = "entered" /\ Needed(t) /\ lock' = t /\ call' = call /\ answer' = answer
          /\ pc'[t] = IF IsCall(t, "status") THEN "read" ELSE "walk"
      BY <1>0, <2>2 DEF Lock
    <3>2. call[t] \in Requested(t)
      BY <1>0, <3>1 DEF StepOf
    <3>3. pc'[t] = "walk" => call[t].op \in Searches /\ Key(t) \in Keys
      BY <3>1, <3>2, RequestFacts
         DEF Needed, Searches, Keys, Abstract!Keys, TooLong, IsCall
    <3>4. Key(t)' = Key(t)
      BY <3>1 DEF Key, Abstract!Key
    <3>5. QED
      BY <1>0, <3>1, <3>2, <3>3, <3>4
         DEF StepOf, Critical, Requested, NoCall, NoAnswer, Keys, IsCall
  <2>3. CASE Walk(t)
    <3>1. UNCHANGED <<lock, pc, call, answer>>
      BY <2>3 DEF Walk
    <3>2. QED  BY <1>0, <3>1, StepOfOther
  <2>4. QED  BY <1>4, <2>1, <2>2, <2>3
<1>5. ASSUME NEW t \in Threads, Late(t)  PROVE  StepOf(t)'
  <2>1. /\ pc[t] \in Critical /\ call'[t] = call[t] /\ lock' # t
        /\ pc'[t] = "decided" /\ answer'[t] # NoAnswer
    BY <1>0, <1>5, LateFacts, Answered, NoThreadIsNone DEF Decide, Critical
  <2>2. QED  BY <1>0, <2>1 DEF StepOf, Critical, Requested, NoCall, NoAnswer
<1>6. ASSUME NEW t \in Threads, Link(t) \/ Unlink(t)  PROVE  StepOf(t)'
  <2>1. /\ pc[t] = "walk" /\ call[t].op \in {"add", "remove"} /\ pc'[t] = "count"
        /\ UNCHANGED <<call, answer, lock>>
    BY <1>0, <1>6 DEF Link, Unlink, Hit, Miss, Walking, IsCall
  <2>2. Key(t)' = Key(t)
    BY <2>1 DEF Key, Abstract!Key
  <2>3. QED  BY <1>0, <2>1, <2>2 DEF StepOf, Critical, Requested, NoCall, NoAnswer, Keys
<1>7. ASSUME NEW t \in Threads, Count(t)  PROVE  StepOf(t)'
  <2>1. /\ pc[t] = "count" /\ call' = call /\ lock' # t
        /\ pc'[t] = "decided" /\ answer'[t] # NoAnswer
    BY <1>0, <1>7, Answered, NoThreadIsNone DEF Count, Decide, Unlock
  <2>2. QED  BY <1>0, <2>1 DEF StepOf, Critical, Requested, NoCall, NoAnswer
<1>8. ASSUME NEW t \in Threads, Return(t)  PROVE  StepOf(t)'
  <2>1. /\ pc[t] = "decided" /\ call'[t] = NoCall /\ lock' = lock
        /\ pc'[t] = "idle" /\ answer'[t] = NoAnswer
    BY <1>0, <1>8 DEF Return
  <2>2. QED  BY <1>0, <2>1 DEF StepOf, Critical, Requested, NoCall, NoAnswer
<1>9. CASE Connect \/ Disconnect \/ Unload \/ Destroy \/ Load
  <2>1. UNCHANGED <<pc, call, answer>>
    BY <1>9 DEF Connect, Disconnect, Unload, Destroy, Load
  <2>2. lock' = lock
    <3>1. CASE Load
      <4>1. \A t \in Threads : lock # t
        BY <1>0, <3>1 DEF Load, IInv, LoadInv, Drained, StepOf, Critical
      <4>2. QED  BY <1>0, <3>1, <4>1 DEF Load
    <3>2. QED  BY <1>9, <3>1 DEF Connect, Disconnect, Unload, Destroy
  <2>3. QED  BY <1>0, <2>1, <2>2, StepOfOther
<1>10. ASSUME NEW t \in Threads,
              \/ \E request \in Abstract!Requests : Call(t, request)
              \/ Early(t) \/ NonEmptyList(t) \/ Lock(t) \/ Walk(t) \/ Late(t)
              \/ Link(t) \/ Unlink(t) \/ Count(t) \/ Return(t)
       PROVE  \A u \in Threads : StepOf(u)'
  <2>1. StepOf(t)'
    BY <1>2, <1>3, <1>4, <1>5, <1>6, <1>7, <1>8, <1>10
  <2>2. QED  BY <1>1, <1>10, <2>1
<1>11. QED
  BY <1>9, <1>10, NextCases DEF Early, Late

\* An action of one thread, none of which the unloaded driver takes.
Moves(t) ==
  \/ \E request \in Abstract!Requests : Call(t, request)
  \/ Early(t) \/ NonEmptyList(t) \/ Lock(t) \/ Walk(t) \/ Late(t)
  \/ Link(t) \/ Unlink(t) \/ Count(t) \/ Return(t)

LEMMA LoadStep ==
  ASSUME IInv, Next
  PROVE  LoadInv'
<1>0. LoadInv
  BY DEF IInv
<1>1. ASSUME NEW t \in Threads, Moves(t)  PROVE  LoadInv'
  <2>1. loaded' = loaded
    BY <1>1, EarlyFacts, LateFacts
       DEF Moves, Call, NonEmptyList, Lock, Walk, Link, Unlink, Count, Return, driver
  <2>2. pc[t] # "idle" \/ loaded = "yes"
    BY <1>1, EarlyFacts, LateFacts
       DEF Moves, Call, NonEmptyList, Lock, Walk, Link, Unlink, Count, Return,
           Smaller, Hit, Miss, Walking
  <2>3. loaded # "no"
    BY <1>0, <2>2 DEF LoadInv, Drained
  <2>4. QED  BY <2>1, <2>3 DEF LoadInv
<1>2. CASE Connect \/ Disconnect \/ Unload \/ Destroy \/ Load
  BY <1>0, <1>2 DEF Connect, Disconnect, Unload, Destroy, Load, LoadInv, Drained
<1>3. QED
  BY <1>1, <1>2, NextCases DEF Moves, Early, Late

\* The three facts about the list, of one thread.
CursorOf(t) ==
  Walking(t) => /\ at[t] <= Len(list) + 1
                /\ \A i \in 1..(at[t] - 1) : list[i] < Key(t)
CountOf(t) ==
  pc[t] = "count" =>
    /\ Len(list) = count + Change(t)
    /\ IsCall(t, "add") => Key(t) \in Range(list)
    /\ IsCall(t, "remove") => Key(t) \notin Range(list)

\* A thread that a step leaves alone, with the list.
LEMMA SameList ==
  ASSUME NEW u \in Threads, pc'[u] = pc[u], call'[u] = call[u], at'[u] = at[u],
         UNCHANGED <<list, count>>, CursorOf(u), CountOf(u)
  PROVE  CursorOf(u)' /\ CountOf(u)'
<1>1. Key(u)' = Key(u)
  BY DEF Key, Abstract!Key
<1>2. QED
  BY <1>1 DEF CursorOf, CountOf, Walking, Change, IsCall

LEMMA ListStep ==
  ASSUME IInv, Next
  PROVE  Sorted' /\ CursorIsLive' /\ CountInv'
<1> USE DEF TypeOK, blocklist, driver
<1>0. /\ TypeOK /\ Sorted /\ \A t \in Threads : StepOf(t) /\ CursorOf(t) /\ CountOf(t)
      /\ (\A t \in Threads : pc[t] # "count") => count = Len(list)
  BY DEF IInv, StepInv, StepOf, CursorIsLive, CursorOf, CountInv, CountOf
<1> SUFFICES /\ Sorted' /\ \A t \in Threads : CursorOf(t)' /\ CountOf(t)'
             /\ (\A t \in Threads : pc'[t] # "count") => count' = Len(list')
  BY DEF CursorIsLive, CursorOf, CountInv, CountOf
\* Steps that write neither the list nor the count.
<1>1. ASSUME NEW t \in Threads,
             \/ \E request \in Abstract!Requests : Call(t, request)
             \/ Early(t) \/ NonEmptyList(t) \/ Lock(t) \/ Walk(t) \/ Late(t) \/ Return(t)
      PROVE  /\ Sorted' /\ \A u \in Threads : CursorOf(u)' /\ CountOf(u)'
             /\ (\A u \in Threads : pc'[u] # "count") => count' = Len(list')
  <2>1. /\ UNCHANGED <<list, count>> /\ pc[t] # "count" /\ pc'[t] # "count"
        /\ \A u \in Threads \ {t} : pc'[u] = pc[u] /\ call'[u] = call[u] /\ at'[u] = at[u]
    <3>1. CASE \E request \in Abstract!Requests : Call(t, request)
      BY <1>0, <3>1 DEF Call
    <3>2. CASE Early(t)          BY <1>0, <3>2, EarlyFacts DEF Decide
    <3>3. CASE NonEmptyList(t)   BY <1>0, <3>3 DEF NonEmptyList
    <3>4. CASE Lock(t)           BY <1>0, <3>4 DEF Lock
    <3>5. CASE Walk(t)           BY <1>0, <3>5 DEF Walk, Smaller, Walking
    <3>6. CASE Late(t)           BY <1>0, <3>6, LateFacts DEF Decide
    <3>7. CASE Return(t)         BY <1>0, <3>7 DEF Return
    <3>8. QED  BY <1>1, <3>1, <3>2, <3>3, <3>4, <3>5, <3>6, <3>7
  <2>2. Sorted'
    BY <1>0, <2>1 DEF Sorted
  <2>3. \A u \in Threads \ {t} : CursorOf(u)' /\ CountOf(u)'
    BY <1>0, <2>1, SameList
  <2>4. CountOf(t)'
    BY <2>1 DEF CountOf
  <2>5. CursorOf(t)'
    <3>1. CASE Lock(t)
      <4>1. at'[t] = 1 /\ Len(list') \in Nat
        BY <1>0, <3>1 DEF Lock
      <4>2. QED  BY <4>1 DEF CursorOf
    <3>2. CASE Walk(t)
      <4>1. /\ at'[t] = at[t] + 1 /\ at[t] <= Len(list) /\ list[at[t]] < Key(t)
            /\ at[t] \in Nat /\ Len(list) \in Nat /\ pc[t] = "walk" /\ UNCHANGED <<pc, call, list>>
        BY <1>0, <3>2 DEF Walk, Smaller, Walking, AtEnd
      <4>2. Key(t)' = Key(t)
        BY <4>1 DEF Key, Abstract!Key
      <4>3. \A i \in 1..(at[t] - 1) : list[i] < Key(t)
        BY <1>0, <4>1 DEF CursorOf, Walking
      <4>4. \A i \in 1..(at'[t] - 1) : i \in 1..(at[t] - 1) \/ i = at[t]
        BY <4>1
      <4>5. QED  BY <4>1, <4>2, <4>3, <4>4 DEF CursorOf
    <3>3. CASE \/ \E request \in Abstract!Requests : Call(t, request)
               \/ Early(t) \/ NonEmptyList(t) \/ Late(t) \/ Return(t)
      <4>1. pc'[t] # "walk"
        <5>1. CASE \E request \in Abstract!Requests : Call(t, request)
          BY <1>0, <5>1 DEF Call
        <5>2. CASE Early(t)          BY <1>0, <5>2, EarlyFacts DEF Decide
        <5>3. CASE NonEmptyList(t)   BY <1>0, <5>3 DEF NonEmptyList
        <5>4. CASE Late(t)           BY <1>0, <5>4, LateFacts DEF Decide
        <5>5. CASE Return(t)         BY <1>0, <5>5 DEF Return
        <5>6. QED  BY <3>3, <5>1, <5>2, <5>3, <5>4, <5>5
      <4>2. QED  BY <4>1 DEF CursorOf, Walking
    <3>4. QED  BY <1>1, <3>1, <3>2, <3>3
  <2>6. (\A u \in Threads : pc'[u] # "count") => count' = Len(list')
    BY <1>0, <2>1
  <2>7. QED  BY <2>2, <2>3, <2>4, <2>5, <2>6
\* The writes of the list: the holder of the lock is the only thread in the list.
<1>2. ASSUME NEW t \in Threads, Link(t) \/ Unlink(t)
      PROVE  /\ Sorted' /\ \A u \in Threads : CursorOf(u)' /\ CountOf(u)'
             /\ (\A u \in Threads : pc'[u] # "count") => count' = Len(list')
  <2>1. /\ pc[t] = "walk" /\ pc' = [pc EXCEPT ![t] = "count"] /\ pc'[t] = "count"
        /\ UNCHANGED <<call, count>>
    BY <1>0, <1>2 DEF Link, Unlink, Hit, Miss, Walking
  <2>2. \A u \in Threads \ {t} : pc'[u] \notin {"walk", "count"}
    BY <1>0, <2>1, OneHolder DEF Critical
  <2>3. \A u \in Threads : pc[u] # "count"
    BY <1>0, <2>1, OneHolder DEF Critical
  <2>4. count = Len(list) /\ Len(list) \in Nat
    BY <1>0, <2>3
  <2>5. Key(t)' = Key(t)
    BY <2>1 DEF Key, Abstract!Key
  <2>6. CASE Link(t)
    <3>1. IsCall(t, "add")' /\ ~IsCall(t, "remove")'
      BY <2>1, <2>6 DEF Link, IsCall
    <3>2. /\ Sorted' /\ Len(list') = count + 1 /\ Key(t)' \in Range(list')
      BY <2>4, <2>5, <2>6, LinkEffect
    <3>3. CountOf(t)'
      BY <2>1, <3>1, <3>2 DEF CountOf, Change
    <3>4. QED
      BY <2>1, <2>2, <3>2, <3>3 DEF CursorOf, CountOf, Walking
  <2>7. CASE Unlink(t)
    <3>1. ~IsCall(t, "add")' /\ IsCall(t, "remove")'
      BY <2>1, <2>7 DEF Unlink, IsCall
    <3>2. /\ Sorted' /\ Len(list') = count - 1 /\ Key(t)' \notin Range(list')
      BY <2>4, <2>5, <2>7, UnlinkEffect
    <3>3. CountOf(t)'
      BY <2>1, <2>4, <3>1, <3>2 DEF CountOf, Change
    <3>4. QED
      BY <2>1, <2>2, <3>2, <3>3 DEF CursorOf, CountOf, Walking
  <2>8. QED  BY <1>2, <2>6, <2>7
<1>3. ASSUME NEW t \in Threads, Count(t)
      PROVE  /\ Sorted' /\ \A u \in Threads : CursorOf(u)' /\ CountOf(u)'
             /\ (\A u \in Threads : pc'[u] # "count") => count' = Len(list')
  <2>1. /\ pc[t] = "count" /\ pc' = [pc EXCEPT ![t] = "decided"]
        /\ count' = count + Change(t) /\ UNCHANGED <<call, at, list>>
    BY <1>0, <1>3 DEF Count, Decide
  <2>2. \A u \in Threads : pc'[u] \notin {"walk", "count"}
    BY <1>0, <2>1, OneHolder DEF Critical
  <2>3. count' = Len(list')
    BY <1>0, <2>1 DEF CountOf
  <2>4. Sorted'
    BY <1>0, <2>1 DEF Sorted
  <2>5. QED  BY <2>2, <2>3, <2>4 DEF CursorOf, CountOf, Walking
<1>4. CASE Connect \/ Disconnect \/ Unload
  <2>1. UNCHANGED <<pc, call, at, list, count>>
    BY <1>4 DEF Connect, Disconnect, Unload
  <2>2. QED  BY <1>0, <2>1, SameList DEF Sorted
<1>5. CASE Destroy \/ Load
  <2>1. list' = <<>> /\ count' = 0 /\ pc' = pc /\ \A t \in Threads : pc[t] = "idle"
    BY <1>5 DEF Destroy, Load, Drained, IInv, LoadInv
  <2>2. QED  BY <2>1 DEF Sorted, CursorOf, CountOf, Walking
<1>6. QED
  BY <1>1, <1>2, <1>3, <1>4, <1>5, NextCases DEF Early, Late

\* What holds of the list, the count, the cursors and the lock in every state, for any
\* number of threads and of paths.
THEOREM Invariance == Spec => []IInv
<1>1. ASSUME IInv, [Next]_vars  PROVE  IInv'
  <2>1. CASE Next
    BY <1>1, <2>1, TypeStep, StepStep, LoadStep, ListStep DEF IInv
  <2>2. CASE UNCHANGED vars
    <3>1. UNCHANGED <<list, count, lock, pc, at, call, answer, connected, loaded>>
      BY <2>2 DEF vars
    <3>2. \A t : Key(t)' = Key(t)
      BY <3>1 DEF Key, Abstract!Key
    <3>3. QED
      BY <1>1, <3>1, <3>2
         DEF IInv, TypeOK, StepInv, LoadInv, Sorted, CursorIsLive, CountInv, Walking, Drained,
             Change, IsCall, Requested, NoCall, NoAnswer, Keys, Threads
  <2>3. QED  BY <1>1, <2>1, <2>2
<1>2. QED  BY <1>1, InitInv, PTL DEF Spec

-----------------------------------------------------------------------------
\* The types, of every state the driver reaches.
THEOREM TypeCorrect == Spec => []TypeOK
BY Invariance, PTL DEF IInv

\* The unlocked test of SfPreCreate on `count` tests the list for emptiness.
LEMMA CountExact == Spec => []CountIsLength
<1>1. ASSUME IInv  PROVE  CountIsLength
  <2>1. SUFFICES ASSUME lock = NoThread  PROVE  count = Len(list)
    BY DEF CountIsLength
  <2>2. \A t \in Threads : pc[t] # "count"
    BY <1>1, <2>1, NoThreadIsNone DEF IInv, StepInv, Critical
  <2>3. QED  BY <1>1, <2>2 DEF IInv, CountInv
<1>2. QED  BY <1>1, Invariance, PTL

\* The list is sorted and without duplicates (blocklist_add, blocklist_remove), no walk
\* reads past its end or through an entry freed under it, and the unlocked test of
\* SfPreCreate on `count` tests it for emptiness.
THEOREM ListSound == Spec => []ListIsSound
<1>1. IInv /\ CountIsLength => ListIsSound
  BY DEF IInv, ListIsSound
<1>2. QED  BY <1>1, Invariance, CountExact, PTL

-----------------------------------------------------------------------------
(* The driver implements the atomic set.                                   *)

\* Visible, as a function of the three variables it is made from.
Seen(l, p, c) ==
  (Range(l) \ {Norm[c[t].path] : t \in {u \in DOMAIN p : p[u] = "count" /\ c[u].op = "add"}})
    \cup {Norm[c[t].path] : t \in {u \in DOMAIN p : p[u] = "count" /\ c[u].op = "remove"}}

LEMMA VisibleIsSeen ==
  Visible = Seen(list, pc, call) /\ Visible' = Seen(list', pc', call')
<1>1. \A op : {Norm[p] : p \in Counting(op)}
         = {Norm[call[t].path] : t \in {u \in DOMAIN pc : pc[u] = "count" /\ call[u].op = op}}
  BY DEF Counting
<1>2. \A op : {Norm[p] : p \in Counting(op)'}
         = {Norm[call'[t].path] : t \in {u \in DOMAIN pc' : pc'[u] = "count" /\ call'[u].op = op}}
  BY DEF Counting
<1>3. QED  BY <1>1, <1>2 DEF Visible, Seen

LEMMA SeenFree ==
  ASSUME NEW l, NEW p, NEW c, \A u \in DOMAIN p : p[u] # "count"
  PROVE  Seen(l, p, c) = Range(l)
BY DEF Seen

LEMMA SeenCount ==
  ASSUME NEW l, NEW p, NEW c, NEW t \in DOMAIN p, p[t] = "count",
         \A u \in DOMAIN p : p[u] = "count" => u = t
  PROVE  /\ c[t].op = "add" => Seen(l, p, c) = Range(l) \ {Norm[c[t].path]}
         /\ c[t].op = "remove" => Seen(l, p, c) = Range(l) \cup {Norm[c[t].path]}
BY DEF Seen

\* While no thread counts, and while one does.
LEMMA VisibleFree ==
  ASSUME IInv, \A t \in Threads : pc[t] # "count"
  PROVE  Visible = Range(list)
<1>1. DOMAIN pc = Threads
  BY DEF IInv, TypeOK
<1>2. QED  BY <1>1, VisibleIsSeen, SeenFree

LEMMA VisibleCounting ==
  ASSUME IInv, NEW t \in Threads, pc[t] = "count"
  PROVE  /\ IsCall(t, "add") => Visible = Range(list) \ {Key(t)}
         /\ IsCall(t, "remove") => Visible = Range(list) \cup {Key(t)}
<1>1. DOMAIN pc = Threads /\ \A u \in Threads : pc[u] = "count" => u = t
  BY OneHolder DEF IInv, TypeOK, Critical
<1>2. QED  BY <1>1, VisibleIsSeen, SeenCount DEF IsCall, Key, Abstract!Key

\* A holder of the lock that is not counting sees the list as it is.
LEMMA VisibleToHolder ==
  ASSUME IInv, NEW t \in Threads, pc[t] \in {"walk", "read"}
  PROVE  Visible = Range(list)
<1>1. \A u \in Threads : pc[u] # "count"
  BY OneHolder DEF Critical
<1>2. QED  BY <1>1, VisibleFree

LEMMA VisibleAreKeys ==
  ASSUME IInv
  PROVE  Visible \subseteq Keys /\ (count = 0 => Visible = {}) /\ TooLong \notin Visible
<1>0. /\ list \in Seq(Keys) /\ Len(list) \in Nat /\ count \in Nat
      /\ DOMAIN list = 1..Len(list) /\ Range(list) \subseteq Keys
  BY LenProperties, ElementOfSeq DEF IInv, TypeOK, Range
<1>1. CASE \A t \in Threads : pc[t] # "count"
  <2>1. Visible = Range(list) /\ count = Len(list)
    BY <1>1, VisibleFree DEF IInv, CountInv
  <2>2. QED  BY <1>0, <2>1 DEF Keys, Abstract!Keys, TooLong, Range
<1>2. CASE \E t \in Threads : pc[t] = "count"
  <2>1. PICK t \in Threads : pc[t] = "count"
    BY <1>2
  <2>2. /\ Len(list) = count + Change(t) /\ Key(t) \in Keys
        /\ IsCall(t, "add") \/ IsCall(t, "remove")
        /\ IsCall(t, "add") => Key(t) \in Range(list)
    BY <2>1 DEF IInv, CountInv, StepInv, IsCall
  <2>3. CASE IsCall(t, "add")
    <3>1. Visible = Range(list) \ {Key(t)} /\ Len(list) = count + 1
      BY <2>1, <2>2, <2>3, VisibleCounting DEF Change
    <3>2. count = 0 => Range(list) = {Key(t)}
      BY <1>0, <2>2, <2>3, <3>1 DEF Range
    <3>3. QED  BY <1>0, <3>1, <3>2 DEF Keys, Abstract!Keys, TooLong
  <2>4. CASE IsCall(t, "remove")
    <3>1. Visible = Range(list) \cup {Key(t)} /\ Len(list) = count - 1
      BY <2>1, <2>2, <2>4, VisibleCounting DEF Change, IsCall
    <3>2. QED  BY <1>0, <2>2, <3>1 DEF Keys, Abstract!Keys, TooLong
  <2>5. QED  BY <2>2, <2>3, <2>4
<1>3. QED  BY <1>1, <1>2

\* The early break of a walk is right: past a larger entry the key does not come.
LEMMA MissMeansAbsent ==
  ASSUME IInv, NEW t \in Threads, Miss(t)
  PROVE  Key(t) \notin Range(list)
<1>1. /\ pc[t] = "walk" /\ (at[t] <= Len(list) => list[at[t]] > Key(t))
      /\ at[t] \in Nat \ {0} /\ Len(list) \in Nat /\ DOMAIN list = 1..Len(list)
      /\ Key(t) \in Nat
  <2>1. pc[t] = "walk" /\ (~AtEnd(t) => list[at[t]] > Key(t))
    BY DEF Miss, Walking
  <2>2. /\ at[t] \in Nat \ {0} /\ Len(list) \in Nat /\ DOMAIN list = 1..Len(list)
    BY DEF IInv, TypeOK
  <2>3. Key(t) \in Nat
    BY <2>1, KeysAreNat DEF IInv, StepInv
  <2>4. QED  BY <2>1, <2>2, <2>3 DEF AtEnd
<1>2. \A i \in 1..(at[t] - 1) : list[i] < Key(t)
  BY <1>1 DEF IInv, CursorIsLive, Walking
<1>3. \A i, j \in 1..Len(list) : i < j => list[i] < list[j]
  BY <1>1 DEF IInv, Sorted
<1>4. \A i \in 1..Len(list) : list[i] \in Nat
  BY KeysAreNat, ElementOfSeq DEF IInv, TypeOK
<1>5. \A i \in 1..Len(list) : list[i] # Key(t)
  BY <1>1, <1>2, <1>3, <1>4
<1>6. QED  BY <1>1, <1>5 DEF Range

LEMMA InitRefines == Init => Abstract!Init
<1>1. ASSUME Init  PROVE  Visible = {}
  <2>1. Visible = Range(list)
    BY <1>1, InitInv, VisibleFree DEF Init
  <2>2. QED  BY <1>1, <2>1 DEF Init, Range
<1>2. QED
  BY <1>1 DEF Init, Abstract!Init, Threads, NoCall, NoAnswer

\* The steps that decide nothing: the blocked set stays as it was.
LEMMA Stutters ==
  ASSUME IInv, IInv', NEW t \in Threads,
         NonEmptyList(t) \/ Lock(t) \/ Walk(t) \/ Link(t) \/ Unlink(t)
  PROVE  UNCHANGED <<Visible, call, answer>>
<1> USE DEF blocklist, driver
<1>0. pc \in [Threads -> {"idle", "test", "entered", "walk", "read", "count", "decided"}]
  BY DEF IInv, TypeOK
<1>1. UNCHANGED <<call, answer>>
  BY DEF NonEmptyList, Lock, Walk, Link, Unlink
<1>2. CASE NonEmptyList(t) \/ Walk(t) \/ Lock(t)
  <2>1. /\ list' = list /\ pc[t] # "count" /\ pc'[t] # "count" /\ DOMAIN pc' = DOMAIN pc
        /\ \A u \in Threads \ {t} : pc'[u] = pc[u]
    BY <1>0, <1>2 DEF NonEmptyList, Lock, Walk, Smaller, Walking
  <2>2. \A op : {u \in DOMAIN pc' : pc'[u] = "count" /\ call'[u].op = op}
                  = {u \in DOMAIN pc : pc[u] = "count" /\ call[u].op = op}
    BY <1>0, <1>1, <2>1
  <2>3. Seen(list', pc', call') = Seen(list, pc, call)
    BY <1>1, <2>1, <2>2 DEF Seen
  <2>4. QED  BY <1>1, <2>3, VisibleIsSeen
<1>3. CASE Link(t) \/ Unlink(t)
  <2>1. /\ pc[t] = "walk" /\ pc' = [pc EXCEPT ![t] = "count"]
    BY <1>3 DEF Link, Unlink, Hit, Miss, Walking
  <2>2. Visible = Range(list)
    BY <2>1, VisibleToHolder
  <2>3. /\ t \in DOMAIN pc' /\ pc'[t] = "count"
        /\ \A u \in DOMAIN pc' : pc'[u] = "count" => u = t
    BY <1>0, <2>1, OneHolder DEF Critical
  <2>4. Key(t) = Norm[call'[t].path]
    BY <1>1 DEF Key, Abstract!Key
  <2>5. CASE Link(t)
    <3>1. call'[t].op = "add"
      BY <1>1, <2>5 DEF Link, IsCall
    <3>2. Seen(list', pc', call') = Range(list') \ {Key(t)}
      BY <2>3, <2>4, <3>1, SeenCount
    <3>3. QED  BY <1>1, <2>2, <2>5, <3>2, VisibleIsSeen, LinkEffect
  <2>6. CASE Unlink(t)
    <3>1. call'[t].op = "remove"
      BY <1>1, <2>6 DEF Unlink, IsCall
    <3>2. Seen(list', pc', call') = Range(list') \cup {Key(t)}
      BY <2>3, <2>4, <3>1, SeenCount
    <3>3. QED  BY <1>1, <2>2, <2>6, <3>2, VisibleIsSeen, UnlinkEffect
  <2>7. QED  BY <1>3, <2>5, <2>6
<1>4. QED  BY <1>2, <1>3

\* A decision that writes nothing of the list.
LEMMA DecisionKeepsVisible ==
  ASSUME IInv, NEW t \in Threads, NEW a, Decide(t, a), pc[t] # "count", UNCHANGED <<list, call>>
  PROVE  Visible' = Visible
<1>0. pc \in [Threads -> {"idle", "test", "entered", "walk", "read", "count", "decided"}]
  BY DEF IInv, TypeOK
<1>1. /\ pc'[t] # "count" /\ DOMAIN pc' = DOMAIN pc /\ \A u \in Threads \ {t} : pc'[u] = pc[u]
  BY <1>0 DEF Decide
<1>2. \A op : {u \in DOMAIN pc' : pc'[u] = "count" /\ call'[u].op = op}
                = {u \in DOMAIN pc : pc[u] = "count" /\ call[u].op = op}
  BY <1>0, <1>1
<1>3. QED  BY <1>2, VisibleIsSeen DEF Seen

\* The answer of a thread that is in the driver is still open.
LEMMA Undecided ==
  ASSUME IInv, NEW t \in Threads, pc[t] \in {"test", "entered", "walk", "read", "count"}
  PROVE  /\ call[t] # NoCall /\ answer[t] = NoAnswer /\ call[t] \in Requested(t)
         /\ t \in Abstract!Threads
BY DEF IInv, StepInv, Threads

LEMMA EarlyRefines ==
  ASSUME IInv, NEW t \in Threads, Early(t)
  PROVE  Abstract!Next
<1> USE DEF Decide, Abstract!Decides, Abstract!Answer, Word, NoCall, NoAnswer, blocklist, driver
<1>1. /\ call[t] # NoCall /\ answer[t] = NoAnswer /\ t \in Abstract!Threads
      /\ call' = call /\ list' = list /\ pc[t] \in {"test", "entered"}
      /\ \E w \in {"ok", "failed", "allow", "deny"} : Decide(t, Word(w))
  BY EarlyFacts, Undecided
<1>2. Visible' = Visible
  BY <1>1, DecisionKeepsVisible
<1>3. ASSUME call[t].op = "execute", Key(t) \notin Visible, Decide(t, Word("allow"))
      PROVE  Abstract!Execute(t)
  BY <1>1, <1>2, <1>3 DEF Abstract!Execute, Key
<1>4. ASSUME call[t].op = "other", Decide(t, Word("allow"))
      PROVE  Abstract!Other(t)
  BY <1>1, <1>2, <1>4 DEF Abstract!Other
<1>5. CASE EmptyList(t)
  <2>1. call[t].op \in {"execute", "other"} /\ count = 0 /\ Decide(t, Word("allow"))
    BY <1>5 DEF EmptyList, IInv, StepInv
  <2>2. Abstract!Execute(t) \/ Abstract!Other(t)
    BY <1>3, <1>4, <2>1, VisibleAreKeys
  <2>3. QED  BY <1>1, <2>2, Zenon DEF Abstract!Next
<1>6. CASE LetThrough(t)
  <2>1. Abstract!Other(t)
    BY <1>4, <1>6 DEF LetThrough, IsCall
  <2>2. QED  BY <1>1, <2>1, Zenon DEF Abstract!Next
<1>7. CASE PathTooLong(t)
  <2>1. Key(t) \notin Visible
    BY <1>7, VisibleAreKeys DEF PathTooLong
  <2>2. CASE call[t].op = "add"
    <3>1. Abstract!AddFails(t)
      BY <1>1, <1>2, <1>7, <2>2 DEF PathTooLong, IsCall, Abstract!AddFails
    <3>2. QED  BY <1>1, <3>1, Zenon DEF Abstract!Next
  <2>3. CASE call[t].op = "remove"
    <3>1. Decide(t, Word("ok"))
      BY <1>7, <2>3 DEF PathTooLong, IsCall
    <3>2. Abstract!Remove(t)
      BY <1>1, <1>2, <2>1, <2>3, <3>1 DEF Abstract!Remove, Key
    <3>3. QED  BY <1>1, <3>2, Zenon DEF Abstract!Next
  <2>4. CASE call[t].op = "execute"
    <3>1. Decide(t, Word("allow"))
      BY <1>7, <2>4 DEF PathTooLong, IsCall
    <3>2. Abstract!Execute(t)
      BY <1>3, <2>1, <2>4, <3>1
    <3>3. QED  BY <1>1, <3>2, Zenon DEF Abstract!Next
  <2>5. QED  BY <1>7, <2>2, <2>3, <2>4 DEF PathTooLong
<1>8. QED  BY <1>5, <1>6, <1>7 DEF Early

LEMMA LateRefines ==
  ASSUME IInv, NEW t \in Threads, Late(t)
  PROVE  Abstract!Next
<1> USE DEF Decide, Abstract!Decides, Abstract!Answer, Word, NoCall, NoAnswer, blocklist, driver
<1>1. /\ call[t] # NoCall /\ answer[t] = NoAnswer /\ t \in Abstract!Threads
      /\ call' = call /\ list' = list /\ pc[t] \in {"walk", "read"}
      /\ \/ \E w \in {"ok", "failed", "allow", "deny"} : Decide(t, Word(w))
         \/ Decide(t, Abstract!Number(count))
  BY LateFacts, Undecided
<1>2. Visible' = Visible
  BY <1>1, DecisionKeepsVisible
<1>3. Visible = Range(list)
  BY <1>1, VisibleToHolder
<1>4. Hit(t) => Key(t) \in Visible
  <2>1. ASSUME Hit(t)  PROVE  at[t] \in DOMAIN list /\ list[at[t]] = Key(t)
    BY <2>1 DEF Hit, AtEnd, IInv, TypeOK
  <2>2. QED  BY <1>3, <2>1 DEF Range
<1>5. Miss(t) => Key(t) \notin Visible
  BY <1>3, MissMeansAbsent
<1>6. pc[t] = "walk" => Key(t) # TooLong
  BY DEF IInv, StepInv, Keys, Abstract!Keys, TooLong
<1>7. CASE Duplicate(t)
  <2>1. Abstract!Add(t)
    <3>1. /\ call[t].op = "add" /\ Decide(t, Word("ok")) /\ Key(t) \in Visible
          /\ Key(t) # TooLong
      BY <1>4, <1>6, <1>7 DEF Duplicate, IsCall, Hit, Walking
    <3>2. QED  BY <1>1, <1>2, <3>1 DEF Abstract!Add, Key, TooLong
  <2>2. QED  BY <1>1, <2>1, Zenon DEF Abstract!Next
<1>8. CASE NoMemory(t)
  <2>1. Abstract!AddFails(t)
    BY <1>1, <1>2, <1>8 DEF NoMemory, IsCall, Abstract!AddFails
  <2>2. QED  BY <1>1, <2>1, Zenon DEF Abstract!Next
<1>9. CASE NotFound(t)
  <2>1. Abstract!Remove(t)
    <3>1. call[t].op = "remove" /\ Decide(t, Word("ok")) /\ Key(t) \notin Visible
      BY <1>5, <1>9 DEF NotFound, IsCall
    <3>2. QED  BY <1>1, <1>2, <3>1 DEF Abstract!Remove, Key
  <2>2. QED  BY <1>1, <2>1, Zenon DEF Abstract!Next
<1>10. CASE Deny(t)
  <2>1. Abstract!Execute(t)
    <3>1. call[t].op = "execute" /\ Decide(t, Word("deny")) /\ Key(t) \in Visible
      BY <1>4, <1>10 DEF Deny, IsCall
    <3>2. QED  BY <1>1, <1>2, <3>1 DEF Abstract!Execute, Key
  <2>2. QED  BY <1>1, <2>1, Zenon DEF Abstract!Next
<1>11. CASE Allow(t)
  <2>1. Abstract!Execute(t)
    <3>1. call[t].op = "execute" /\ Decide(t, Word("allow")) /\ Key(t) \notin Visible
      BY <1>5, <1>11 DEF Allow, IsCall
    <3>2. QED  BY <1>1, <1>2, <3>1 DEF Abstract!Execute, Key
  <2>2. QED  BY <1>1, <2>1, Zenon DEF Abstract!Next
<1>12. CASE ReadCount(t)
  <2>1. pc[t] = "read" /\ call[t].op = "status" /\ Decide(t, Abstract!Number(count))
    BY <1>12 DEF ReadCount, IInv, StepInv
  <2>2. count = Len(list)
    <3>1. \A u \in Threads : pc[u] # "count"
      BY <2>1, OneHolder DEF Critical
    <3>2. QED  BY <3>1 DEF IInv, CountInv
  <2>3. Cardinality(Visible) = count
    <3>1. list \in Seq(Nat) /\ Increasing(list)
      BY KeysAreNat, SeqMonotonic DEF IInv, TypeOK, Sorted, Increasing
    <3>2. QED  BY <1>3, <2>2, <3>1, SizeOfIncreasing
  <2>4. Abstract!Status(t)
    <3>1. Abstract!Cardinality(Visible) = Cardinality(Visible)
      BY Zenon DEF Abstract!Cardinality, Cardinality
    <3>2. answer' = [answer EXCEPT ![t] = Abstract!Number(Abstract!Cardinality(Visible))]
      BY <2>1, <2>3, <3>1
    <3>3. QED  BY <1>1, <1>2, <2>1, <3>2 DEF Abstract!Status
  <2>5. QED  BY <1>1, <2>4, Zenon DEF Abstract!Next
<1>13. QED  BY <1>7, <1>8, <1>9, <1>10, <1>11, <1>12 DEF Late

LEMMA CountRefines ==
  ASSUME IInv, NEW t \in Threads, Count(t)
  PROVE  Abstract!Next
<1> USE DEF Decide, Abstract!Decides, Abstract!Answer, Word, NoCall, NoAnswer, blocklist, driver
<1>1. /\ pc[t] = "count" /\ pc' = [pc EXCEPT ![t] = "decided"]
      /\ call' = call /\ list' = list /\ Decide(t, Word("ok"))
  BY DEF Count
<1>2. /\ call[t] # NoCall /\ answer[t] = NoAnswer /\ t \in Abstract!Threads
  BY <1>1, Undecided
<1>3. pc \in [Threads -> {"idle", "test", "entered", "walk", "read", "count", "decided"}]
  BY DEF IInv, TypeOK
<1>4. \A u \in DOMAIN pc' : pc'[u] # "count"
  BY <1>1, <1>3, OneHolder DEF Critical
<1>5. Visible' = Range(list)
  BY <1>1, <1>4, VisibleIsSeen, SeenFree
<1>6. call[t].op \in {"add", "remove"} /\ Key(t) \in Keys
  BY <1>1 DEF IInv, StepInv
<1>7. CASE call[t].op = "add"
  <2>1. Visible = Range(list) \ {Key(t)} /\ Key(t) \in Range(list)
    BY <1>1, <1>7, VisibleCounting DEF IsCall, IInv, CountInv
  <2>2. Abstract!Add(t)
    BY <1>1, <1>2, <1>5, <1>6, <1>7, <2>1 DEF Abstract!Add, Key, Keys, Abstract!Keys
  <2>3. QED  BY <1>2, <2>2, Zenon DEF Abstract!Next
<1>8. CASE call[t].op = "remove"
  <2>1. Visible = Range(list) \cup {Key(t)} /\ Key(t) \notin Range(list)
    BY <1>1, <1>8, VisibleCounting DEF IsCall, IInv, CountInv
  <2>2. Abstract!Remove(t)
    BY <1>1, <1>2, <1>5, <1>8, <2>1 DEF Abstract!Remove, Key
  <2>3. QED  BY <1>2, <2>2, Zenon DEF Abstract!Next
<1>9. QED  BY <1>6, <1>7, <1>8

LEMMA StepRefines ==
  ASSUME IInv, IInv', Next
  PROVE  Abstract!Next \/ UNCHANGED <<Visible, call, answer>>
<1> USE DEF blocklist, driver
<1>0. pc \in [Threads -> {"idle", "test", "entered", "walk", "read", "count", "decided"}]
  BY DEF IInv, TypeOK
<1>1. ASSUME NEW t \in Threads, pc[t] # "count", pc'[t] # "count", DOMAIN pc' = DOMAIN pc,
             list' = list,
             \A u \in Threads \ {t} : pc'[u] = pc[u] /\ call'[u] = call[u]
      PROVE  Visible' = Visible
  <2>1. \A op : {u \in DOMAIN pc' : pc'[u] = "count" /\ call'[u].op = op}
                  = {u \in DOMAIN pc : pc[u] = "count" /\ call[u].op = op}
    BY <1>0, <1>1
  <2>2. \A op : \A u \in {v \in DOMAIN pc : pc[v] = "count" /\ call[v].op = op} :
          call'[u] = call[u]
    BY <1>0, <1>1
  <2>3. ASSUME NEW op
        PROVE  {Norm[call'[u].path] : u \in {v \in DOMAIN pc' : pc'[v] = "count" /\ call'[v].op = op}}
                 = {Norm[call[u].path] : u \in {v \in DOMAIN pc : pc[v] = "count" /\ call[v].op = op}}
    <3> DEFINE U == {v \in DOMAIN pc : pc[v] = "count" /\ call[v].op = op}
    <3>1. {v \in DOMAIN pc' : pc'[v] = "count" /\ call'[v].op = op} = U
      BY <2>1
    <3>2. \A u \in U : call'[u] = call[u]
      BY <2>2
    <3> HIDE DEF U
    <3>3. {Norm[call'[u].path] : u \in U} = {Norm[call[u].path] : u \in U}
      BY <3>2
    <3>4. QED  BY <3>1, <3>3 DEF U
  <2>4. QED  BY <1>1, <2>3, VisibleIsSeen DEF Seen
<1>2. ASSUME NEW t \in Threads, NEW request \in Abstract!Requests, Call(t, request)
      PROVE  Abstract!Next
  <2>1. Visible' = Visible
    BY <1>0, <1>1, <1>2 DEF Call, IInv, TypeOK
  <2>2. call[t] = NoCall
    BY <1>2 DEF Call, IInv, StepInv
  <2>3. Abstract!Ask(t, request)
    BY <1>2, <2>1, <2>2 DEF Call, Abstract!Ask, NoCall
  <2>4. QED  BY <2>3, Zenon DEF Abstract!Next, Threads
<1>3. ASSUME NEW t \in Threads, Return(t)  PROVE  Abstract!Next
  <2>1. Visible' = Visible
    BY <1>0, <1>1, <1>3 DEF Return, IInv, TypeOK
  <2>2. call[t] # NoCall /\ answer[t] # NoAnswer
    BY <1>3 DEF Return, IInv, StepInv
  <2>3. Abstract!Return(t)
    BY <1>3, <2>1, <2>2 DEF Return, Abstract!Return, Abstract!Answer, NoCall, NoAnswer
  <2>4. QED  BY <2>3, Zenon DEF Abstract!Next, Threads
<1>4. CASE Connect \/ Disconnect \/ Unload
  <2>1. UNCHANGED <<list, pc, call, answer>>
    BY <1>4 DEF Connect, Disconnect, Unload
  <2>2. QED  BY <2>1, VisibleIsSeen
<1>5. CASE Destroy \/ Load
  <2>1. list' = <<>> /\ UNCHANGED <<pc, call, answer>> /\ \A t \in Threads : pc[t] = "idle"
    BY <1>5 DEF Destroy, Load, Drained, IInv, LoadInv
  <2>2. \A t \in Threads : call[t] = NoCall
    BY <2>1 DEF IInv, StepInv
  <2>3. Range(list') = {}
    BY <2>1 DEF Range
  <2>4. Visible' = {}
    BY <1>0, <2>1, <2>3, VisibleIsSeen, SeenFree
  <2>5. Abstract!Clear
    BY <2>1, <2>2, <2>4 DEF Abstract!Clear, Threads, NoCall
  <2>6. QED  BY <2>5, Zenon DEF Abstract!Next
<1>6. QED
  BY <1>2, <1>3, <1>4, <1>5, NextCases, EarlyRefines, LateRefines, CountRefines, Stutters
     DEF Early, Late

\* Commands, opens and status queries are linearizable: SentinelFilter.sys
\* implements one atomic set of blocked paths, with the unlocked test included.
THEOREM Linearizable == Spec => ImplementsBlockedPaths
<1>1. ASSUME IInv, IInv', [Next]_vars  PROVE  [Abstract!Next]_<<Visible, call, answer>>
  <2>1. CASE Next
    BY <1>1, <2>1, StepRefines
  <2>2. CASE UNCHANGED vars
    <3>1. UNCHANGED <<list, pc, call, answer>>
      BY <2>2 DEF vars
    <3>2. QED  BY <3>1, VisibleIsSeen
  <2>3. QED  BY <1>1, <2>1, <2>2
<1>2. Abstract!Init /\ [][Abstract!Next]_<<Visible, call, answer>> <=> ImplementsBlockedPaths
  BY PTL DEF ImplementsBlockedPaths, Abstract!Spec, Abstract!abstractVars
<1>3. QED  BY <1>1, <1>2, Invariance, InitRefines, PTL DEF Spec
=============================================================================
