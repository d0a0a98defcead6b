-------------------------- MODULE OrderBookTyping --------------------------
(***************************************************************************)
(* Proofs about OrderBook for any sets of ids, clients and orders: what    *)
(* the operators on price levels and on sequences of ids return, for any   *)
(* levels, and the types.                                                  *)
(***************************************************************************)
EXTENDS OrderBookProperties, SequenceTheorems, TLAPS

\* Price levels with ids from S, none of them empty.
IsLevels(levels, S) ==
  /\ DOMAIN levels \subseteq Int
  /\ levels \in [DOMAIN levels -> Seq(S)]
  /\ \A p \in DOMAIN levels : levels[p] # <<>>

(***************************************************************************)
(* RemoveAt drops exactly one element and keeps the others in their order. *)
(***************************************************************************)
LEMMA RemoveAtProperties ==
  ASSUME NEW S, NEW s \in Seq(S), NEW i \in 1..Len(s)
  PROVE  /\ RemoveAt(s, i) \in Seq(S)
         /\ Len(RemoveAt(s, i)) = Len(s) - 1
         /\ \A j \in 1..(Len(s) - 1) :
              RemoveAt(s, i)[j] = IF j < i THEN s[j] ELSE s[j + 1]
<1> DEFINE a == SubSeq(s, 1, i - 1)
           b == SubSeq(s, i + 1, Len(s))
<1>1. /\ a \in Seq(S) /\ Len(a) = i - 1
      /\ \A j \in 1..(i - 1) : a[j] = s[j]
  <2>1. \A j \in 1..(i - 1) : s[j] \in S
    BY ElementOfSeq, LenProperties
  <2>2. Len(s) \in Nat /\ i \in Int /\ 1 \in Int /\ i - 1 \in Int
    BY LenProperties
  <2>3. /\ SubSeq(s, 1, i - 1) \in Seq(S)
        /\ Len(SubSeq(s, 1, i - 1)) = IF 1 <= i - 1 THEN i - 1 - 1 + 1 ELSE 0
        /\ \A j \in 1..(i - 1 - 1 + 1) : SubSeq(s, 1, i - 1)[j] = s[1 + j - 1]
    BY <2>1, <2>2, SubSeqProperties
  <2> QED BY <2>2, <2>3
<1>2. /\ b \in Seq(S) /\ Len(b) = Len(s) - i
      /\ \A j \in 1..(Len(s) - i) : b[j] = s[i + j]
  <2>1. \A j \in (i + 1)..Len(s) : s[j] \in S
    BY ElementOfSeq, LenProperties
  <2>2. Len(s) \in Nat /\ i \in Int /\ i + 1 \in Int /\ Len(s) \in Int
    BY LenProperties
  <2>3. /\ SubSeq(s, i + 1, Len(s)) \in Seq(S)
        /\ Len(SubSeq(s, i + 1, Len(s))) =
             IF i + 1 <= Len(s) THEN Len(s) - (i + 1) + 1 ELSE 0
        /\ \A j \in 1..(Len(s) - (i + 1) + 1) :
             SubSeq(s, i + 1, Len(s))[j] = s[i + 1 + j - 1]
    BY <2>1, <2>2, SubSeqProperties
  <2> QED BY <2>2, <2>3
<1>3. /\ a \o b \in Seq(S)
      /\ Len(a \o b) = Len(a) + Len(b)
      /\ \A j \in 1..(Len(a) + Len(b)) :
           (a \o b)[j] = IF j <= Len(a) THEN a[j] ELSE b[j - Len(a)]
  BY <1>1, <1>2, ConcatProperties
<1>4. Len(s) \in Nat /\ i \in Nat
  BY LenProperties
<1>5. RemoveAt(s, i) = a \o b
  BY DEF RemoveAt
<1> HIDE DEF a, b
<1>6. ASSUME NEW j \in 1..(Len(s) - 1)
      PROVE  (a \o b)[j] = IF j < i THEN s[j] ELSE s[j + 1]
  <2>1. CASE j < i
    BY <2>1, <1>1, <1>2, <1>3, <1>4
  <2>2. CASE ~(j < i)
    <3>1. j - (i - 1) \in 1..(Len(s) - i)
      BY <2>2, <1>4
    <3>2. b[j - (i - 1)] = s[i + (j - (i - 1))]
      BY <3>1, <1>2
    <3> QED BY <3>1, <3>2, <2>2, <1>1, <1>2, <1>3, <1>4
  <2> QED BY <2>1, <2>2
<1>7. Len(a) + Len(b) = Len(s) - 1
  BY <1>1, <1>2, <1>4
<1> QED BY <1>3, <1>5, <1>6, <1>7

(***************************************************************************)
(* Removing from a sequence without repetition leaves one, in which the    *)
(* removed element no longer occurs.                                       *)
(***************************************************************************)
LEMMA RemoveAtElements ==
  ASSUME NEW S, NEW s \in Seq(S), NEW i \in DOMAIN s
  PROVE  /\ \A j \in DOMAIN RemoveAt(s, i) : \E k \in DOMAIN s :
              k # i /\ RemoveAt(s, i)[j] = s[k]
         /\ \A k \in DOMAIN s \ {i} : \E j \in DOMAIN RemoveAt(s, i) :
              RemoveAt(s, i)[j] = s[k]
         /\ IsInjectiveSeq(s) => IsInjectiveSeq(RemoveAt(s, i))
<1> DEFINE r == RemoveAt(s, i)
<1>1. Len(s) \in Nat /\ DOMAIN s = 1..Len(s) /\ i \in 1..Len(s)
  BY LenProperties
<1>2. /\ r \in Seq(S) /\ Len(r) = Len(s) - 1
      /\ \A j \in 1..(Len(s) - 1) : r[j] = IF j < i THEN s[j] ELSE s[j + 1]
  BY <1>1, RemoveAtProperties
<1>3. DOMAIN r = 1..(Len(s) - 1)
  BY <1>2, LenProperties
<1> HIDE DEF r
<1>4. \A j \in DOMAIN r : \E k \in DOMAIN s : k # i /\ r[j] = s[k]
  <2> TAKE j \in DOMAIN r
  <2>1. CASE j < i
    BY <2>1, <1>1, <1>2, <1>3
  <2>2. CASE ~(j < i)
    <3>1. j + 1 \in DOMAIN s /\ j + 1 # i /\ r[j] = s[j + 1]
      BY <2>2, <1>1, <1>2, <1>3
    <3> QED BY <3>1
  <2> QED BY <2>1, <2>2
<1>5. \A k \in DOMAIN s \ {i} : \E j \in DOMAIN r : r[j] = s[k]
  <2> TAKE k \in DOMAIN s \ {i}
  <2>1. CASE k < i
    <3>1. k \in DOMAIN r /\ r[k] = s[k]
      BY <2>1, <1>1, <1>2, <1>3
    <3> QED BY <3>1
  <2>2. CASE ~(k < i)
    <3>1. k - 1 \in DOMAIN r /\ r[k - 1] = s[k]
      BY <2>2, <1>1, <1>2, <1>3
    <3> QED BY <3>1
  <2> QED BY <2>1, <2>2
<1>6. ASSUME IsInjectiveSeq(s) PROVE IsInjectiveSeq(r)
  <2> SUFFICES ASSUME NEW j \in DOMAIN r, NEW k \in DOMAIN r, r[j] = r[k]
               PROVE  j = k
    BY DEF IsInjectiveSeq
  <2> DEFINE at(n) == IF n < i THEN n ELSE n + 1
  <2>1. /\ at(j) \in DOMAIN s /\ at(k) \in DOMAIN s
        /\ r[j] = s[at(j)] /\ r[k] = s[at(k)]
    BY <1>1, <1>2, <1>3
  <2>2. at(j) = at(k)
    BY <2>1, <1>6 DEF IsInjectiveSeq
  <2> QED BY <2>2, <1>1, <1>3
<1> QED BY <1>4, <1>5, <1>6 DEF r

(***************************************************************************)
(* Levels of some ids are levels of more ids.                              *)
(***************************************************************************)
LEMMA LevelsMonotonic ==
  ASSUME NEW S, NEW T, S \subseteq T, NEW levels, IsLevels(levels, S)
  PROVE  IsLevels(levels, T)
<1>1. \A q \in Seq(S) : q \in Seq(T)
  BY SeqMonotonic
<1> QED BY <1>1 DEF IsLevels

NoRepeats(levels) == \A p \in DOMAIN levels : IsInjectiveSeq(levels[p])

Occurs(levels, id) ==
  \E p \in DOMAIN levels : \E i \in DOMAIN levels[p] : levels[p][i] = id

(***************************************************************************)
(* PushBack adds the id behind the others of its price and moves nothing.  *)
(***************************************************************************)
LEMMA PushBackProperties ==
  ASSUME NEW S, NEW levels, IsLevels(levels, S), NEW price \in Int, NEW id \in S,
         NEW new, new = PushBack(levels, price, id)
  PROVE  /\ IsLevels(new, S)
         /\ \A p \in DOMAIN new : \A j \in DOMAIN new[p] :
              \/ p = price /\ new[p][j] = id
              \/ /\ p \in DOMAIN levels /\ j \in DOMAIN levels[p]
                 /\ new[p][j] = levels[p][j]
         /\ NoRepeats(levels) /\ ~Occurs(levels, id) => NoRepeats(new)
<1>1. DOMAIN new = DOMAIN levels \cup {price}
  BY DEF PushBack
<1>2. \A p \in DOMAIN levels : /\ levels[p] \in Seq(S) /\ levels[p] # <<>>
                              /\ Len(levels[p]) \in Nat
                              /\ DOMAIN levels[p] = 1..Len(levels[p])
  BY LenProperties DEF IsLevels
<1>3. \A p \in DOMAIN levels \ {price} : new[p] = levels[p]
  BY DEF PushBack
<1>4. CASE price \in DOMAIN levels
  <2>1. new[price] = Append(levels[price], id)
    BY <1>4 DEF PushBack
  <2>2. /\ new[price] \in Seq(S)
        /\ DOMAIN new[price] = 1..(Len(levels[price]) + 1)
        /\ \A j \in DOMAIN levels[price] : new[price][j] = levels[price][j]
        /\ new[price][Len(levels[price]) + 1] = id
    BY <2>1, <1>2, <1>4, AppendProperties, LenProperties
  <2>3. IsLevels(new, S)
    <3>1. new[price] # <<>>
      BY <2>2, <1>2, <1>4
    <3>2. \A p \in DOMAIN new : new[p] \in Seq(S) /\ new[p] # <<>>
      BY <1>1, <1>2, <1>3, <2>2, <3>1
    <3>3. new = [p \in DOMAIN new |-> new[p]]
      BY DEF PushBack
    <3> QED BY <1>1, <3>2, <3>3 DEF IsLevels
  <2>4. ASSUME NEW p \in DOMAIN new, NEW j \in DOMAIN new[p]
        PROVE  \/ p = price /\ new[p][j] = id
               \/ /\ p \in DOMAIN levels /\ j \in DOMAIN levels[p]
                  /\ new[p][j] = levels[p][j]
    BY <1>1, <1>2, <1>3, <1>4, <2>2
  <2>5. ASSUME NoRepeats(levels), ~Occurs(levels, id) PROVE NoRepeats(new)
    <3>1. IsInjectiveSeq(new[price])
      <4> SUFFICES ASSUME NEW j \in DOMAIN new[price], NEW k \in DOMAIN new[price],
                          new[price][j] = new[price][k]
                   PROVE  j = k
        BY DEF IsInjectiveSeq
      <4>1. \A n \in DOMAIN levels[price] : levels[price][n] # id
        BY <2>5, <1>4 DEF Occurs
      <4>2. IsInjectiveSeq(levels[price])
        BY <2>5, <1>4 DEF NoRepeats
      <4> QED BY <4>1, <4>2, <2>2, <1>2, <1>4 DEF IsInjectiveSeq
    <3> QED BY <3>1, <1>1, <1>3, <2>5 DEF NoRepeats
  <2> QED BY <2>3, <2>4, <2>5
<1>5. CASE price \notin DOMAIN levels
  <2>1. new[price] = <<id>>
    BY <1>5 DEF PushBack
  <2>2. /\ new[price] \in Seq(S) /\ new[price] # <<>>
        /\ DOMAIN new[price] = {1} /\ new[price][1] = id
    BY <2>1
  <2>3. IsLevels(new, S)
    <3>2. \A p \in DOMAIN new : new[p] \in Seq(S) /\ new[p] # <<>>
      BY <1>1, <1>2, <1>3, <2>2
    <3>3. new = [p \in DOMAIN new |-> new[p]]
      BY DEF PushBack
    <3> QED BY <1>1, <3>2, <3>3 DEF IsLevels
  <2>4. ASSUME NEW p \in DOMAIN new, NEW j \in DOMAIN new[p]
        PROVE  \/ p = price /\ new[p][j] = id
               \/ /\ p \in DOMAIN levels /\ j \in DOMAIN levels[p]
                  /\ new[p][j] = levels[p][j]
    BY <1>1, <1>2, <1>3, <1>5, <2>2
  <2>5. ASSUME NoRepeats(levels) PROVE NoRepeats(new)
    <3>1. IsInjectiveSeq(new[price])
      BY <2>2 DEF IsInjectiveSeq
    <3> QED BY <3>1, <1>1, <1>3, <2>5 DEF NoRepeats
  <2> QED BY <2>3, <2>4, <2>5
<1> QED BY <1>4, <1>5

(***************************************************************************)
(* Erase leaves no empty level, takes away the one position, and moves     *)
(* nothing to another level.                                               *)
(***************************************************************************)
LEMMA EraseProperties ==
  ASSUME NEW S, NEW levels, IsLevels(levels, S),
         NEW price \in DOMAIN levels, NEW i \in DOMAIN levels[price],
         NEW new, new = Erase(levels, price, i)
  PROVE  /\ IsLevels(new, S)
         /\ DOMAIN new \subseteq DOMAIN levels
         /\ \A p \in DOMAIN new : \A j \in DOMAIN new[p] : \E k \in DOMAIN levels[p] :
              (p = price => k # i) /\ new[p][j] = levels[p][k]
         /\ NoRepeats(levels) => NoRepeats(new)
<1> DEFINE q == levels[price]
<1>1. q \in Seq(S) /\ Len(q) \in Nat /\ DOMAIN q = 1..Len(q) /\ i \in 1..Len(q)
  BY LenProperties DEF IsLevels
<1>2. CASE Len(q) = 1
  <2>1. new = [p \in DOMAIN levels \ {price} |-> levels[p]]
    BY <1>2 DEF Erase
  <2> QED BY <2>1 DEF IsLevels, NoRepeats
<1>3. CASE Len(q) # 1
  <2>1. new = [levels EXCEPT ![price] = RemoveAt(q, i)]
    BY <1>3 DEF Erase
  <2>2. /\ DOMAIN new = DOMAIN levels
        /\ new[price] = RemoveAt(q, i)
        /\ \A p \in DOMAIN levels \ {price} : new[p] = levels[p]
    BY <2>1 DEF IsLevels
  <2>3. RemoveAt(q, i) \in Seq(S) /\ Len(RemoveAt(q, i)) = Len(q) - 1
    BY <1>1, RemoveAtProperties
  <2>4. RemoveAt(q, i) # <<>>
    BY <2>3, <1>1, <1>3, EmptySeq
  <2>5. IsLevels(new, S)
    BY <2>1, <2>2, <2>3, <2>4 DEF IsLevels
  <2>6. /\ \A j \in DOMAIN RemoveAt(q, i) : \E k \in DOMAIN q :
             k # i /\ RemoveAt(q, i)[j] = q[k]
        /\ IsInjectiveSeq(q) => IsInjectiveSeq(RemoveAt(q, i))
    BY <1>1, RemoveAtElements
  <2> HIDE DEF q
  <2>7. ASSUME NEW p \in DOMAIN new, NEW j \in DOMAIN new[p]
        PROVE  \E k \in DOMAIN levels[p] :
                 (p = price => k # i) /\ new[p][j] = levels[p][k]
    <3>1. CASE p = price
      BY <3>1, <2>2, <2>6 DEF q
    <3>2. CASE p # price
      BY <3>2, <2>2
    <3> QED BY <3>1, <3>2
  <2>8. NoRepeats(levels) => NoRepeats(new)
    BY <2>2, <2>6 DEF NoRepeats, q
  <2> QED BY <2>2, <2>5, <2>7, <2>8
<1> QED BY <1>2, <1>3

(***************************************************************************)
(* Whatever was there before stays at its price, with the same ones before *)
(* and behind it, and nothing new comes before it at its price.            *)
(***************************************************************************)
SameOrder(new, old) ==
  \A p \in DOMAIN new :
    /\ \A k \in DOMAIN new[p] : Occurs(old, new[p][k]) =>
         p \in DOMAIN old /\ \E n \in DOMAIN old[p] : old[p][n] = new[p][k]
    /\ \A j, k \in DOMAIN new[p] : j < k /\ Occurs(old, new[p][k]) =>
         /\ p \in DOMAIN old
         /\ \E m, n \in DOMAIN old[p] : m < n /\ old[p][m] = new[p][j] /\ old[p][n] = new[p][k]

LEMMA PushBackKeepsOrder ==
  ASSUME NEW S, NEW levels, IsLevels(levels, S), NEW price \in Int, NEW id,
         ~Occurs(levels, id), NEW new, new = PushBack(levels, price, id)
  PROVE  /\ SameOrder(new, levels) /\ Occurs(new, id)
         /\ \A p \in DOMAIN levels : p \in DOMAIN new /\ \A k \in DOMAIN levels[p] :
              k \in DOMAIN new[p] /\ new[p][k] = levels[p][k]
<1>1. \A q \in Seq(S) : q \in Seq(S \cup {id})
  BY SeqMonotonic
<1>2. \A p \in DOMAIN levels : /\ levels[p] \in Seq(S \cup {id})
                              /\ Len(levels[p]) \in Nat
                              /\ DOMAIN levels[p] = 1..Len(levels[p])
  BY <1>1, LenProperties DEF IsLevels
<1>3. /\ DOMAIN new = DOMAIN levels \cup {price}
      /\ \A p \in DOMAIN levels \ {price} : new[p] = levels[p]
  BY DEF PushBack
<1>4. CASE price \in DOMAIN levels
  <2>1. new[price] = Append(levels[price], id)
    BY <1>4 DEF PushBack
  <2>2. /\ DOMAIN new[price] = 1..(Len(levels[price]) + 1)
        /\ \A j \in DOMAIN levels[price] : new[price][j] = levels[price][j]
        /\ new[price][Len(levels[price]) + 1] = id
    BY <2>1, <1>2, <1>4, AppendProperties, LenProperties
  <2>3. ASSUME NEW p \in DOMAIN levels, NEW k \in DOMAIN levels[p]
        PROVE  k \in DOMAIN new[p] /\ new[p][k] = levels[p][k]
    BY <1>2, <1>3, <1>4, <2>2, <2>3
  <2>4. ASSUME NEW p \in DOMAIN new, NEW k \in DOMAIN new[p], Occurs(levels, new[p][k])
        PROVE  /\ p \in DOMAIN levels /\ k \in DOMAIN levels[p]
               /\ \A j \in DOMAIN new[p] : j <= k => j \in DOMAIN levels[p]
    <3>1. new[p][k] # id
      BY <2>4
    <3> QED BY <1>2, <1>3, <1>4, <2>2, <2>4, <3>1
  <2>5. SameOrder(new, levels)
    <3>1. ASSUME NEW p \in DOMAIN new, NEW j \in DOMAIN new[p], NEW k \in DOMAIN new[p],
                 j <= k, Occurs(levels, new[p][k])
          PROVE  /\ p \in DOMAIN levels /\ j \in DOMAIN levels[p] /\ k \in DOMAIN levels[p]
                 /\ levels[p][j] = new[p][j] /\ levels[p][k] = new[p][k]
      BY <2>3, <2>4, <3>1
    <3>2. ASSUME NEW p \in DOMAIN new, NEW k \in DOMAIN new[p], Occurs(levels, new[p][k])
          PROVE  p \in DOMAIN levels /\ k \in DOMAIN levels[p] /\ levels[p][k] = new[p][k]
      BY <2>3, <2>4, <3>2
    <3>3. \A p \in DOMAIN new : \A j, k \in DOMAIN new[p] : j < k => j <= k
      BY <1>2, <1>3, <2>2, <1>4
    <3> QED BY <3>1, <3>2, <3>3 DEF SameOrder
  <2>6. Len(levels[price]) + 1 \in DOMAIN new[price]
    BY <1>2, <1>4, <2>2
  <2>7. Occurs(new, id)
    BY <1>3, <2>2, <2>6 DEF Occurs
  <2> QED BY <1>3, <2>3, <2>5, <2>7
<1>5. CASE price \notin DOMAIN levels
  <2>1. new[price] = <<id>>
    BY <1>5 DEF PushBack
  <2>2. DOMAIN new[price] = {1} /\ new[price][1] = id
    BY <2>1
  <2>3. SameOrder(new, levels)
    BY <1>3, <1>5, <2>2 DEF SameOrder
  <2>4. Occurs(new, id)
    BY <1>3, <2>2 DEF Occurs
  <2> QED BY <1>3, <1>5, <2>3, <2>4
<1> QED BY <1>4, <1>5

LEMMA RemoveAtKeepsOrder ==
  ASSUME NEW S, NEW s \in Seq(S), NEW i \in DOMAIN s
  PROVE  \A j, k \in DOMAIN RemoveAt(s, i) : j < k => \E m, n \in DOMAIN s :
           m < n /\ s[m] = RemoveAt(s, i)[j] /\ s[n] = RemoveAt(s, i)[k]
<1> DEFINE r == RemoveAt(s, i)
<1>1. Len(s) \in Nat /\ DOMAIN s = 1..Len(s) /\ i \in 1..Len(s)
  BY LenProperties
<1>2. /\ r \in Seq(S) /\ Len(r) = Len(s) - 1
      /\ \A j \in 1..(Len(s) - 1) : r[j] = IF j < i THEN s[j] ELSE s[j + 1]
  BY <1>1, RemoveAtProperties
<1>3. DOMAIN r = 1..(Len(s) - 1)
  BY <1>2, LenProperties
<1> HIDE DEF r
<1>4. ASSUME NEW j \in DOMAIN r, NEW k \in DOMAIN r, j < k
      PROVE  \E m, n \in DOMAIN s : m < n /\ s[m] = r[j] /\ s[n] = r[k]
  <2>1. CASE j < i
    <3>1. CASE k < i
      BY <1>1, <1>2, <1>3, <1>4, <2>1, <3>1
    <3>2. CASE ~(k < i)
      <4>1. j \in DOMAIN s /\ k + 1 \in DOMAIN s /\ j < k + 1
        BY <1>1, <1>3, <1>4
      <4> QED BY <1>2, <1>3, <2>1, <3>2, <4>1
    <3> QED BY <3>1, <3>2
  <2>2. CASE ~(j < i)
    <3>1. /\ j + 1 \in DOMAIN s /\ k + 1 \in DOMAIN s /\ j + 1 < k + 1 /\ ~(k < i)
      BY <1>1, <1>3, <1>4, <2>2
    <3> QED BY <1>2, <1>3, <2>2, <3>1
  <2> QED BY <2>1, <2>2
<1> QED BY <1>4 DEF r

LEMMA EraseKeepsOrder ==
  ASSUME NEW S, NEW levels, IsLevels(levels, S),
         NEW price \in DOMAIN levels, NEW i \in DOMAIN levels[price],
         NEW new, new = Erase(levels, price, i)
  PROVE  /\ SameOrder(new, levels)
         /\ \A p \in DOMAIN levels : \A k \in DOMAIN levels[p] :
              \/ p = price /\ k = i
              \/ p \in DOMAIN new /\ \E j \in DOMAIN new[p] : new[p][j] = levels[p][k]
<1> DEFINE q == levels[price]
<1>1. q \in Seq(S) /\ Len(q) \in Nat /\ DOMAIN q = 1..Len(q) /\ i \in 1..Len(q)
  BY LenProperties DEF IsLevels
<1>2. CASE Len(q) = 1
  <2>1. new = [p \in DOMAIN levels \ {price} |-> levels[p]]
    BY <1>2 DEF Erase
  <2>2. /\ DOMAIN new = DOMAIN levels \ {price}
        /\ \A p \in DOMAIN new : new[p] = levels[p]
    BY <2>1
  <2>3. SameOrder(new, levels)
    BY <2>2 DEF SameOrder
  <2>4. \A k \in DOMAIN q : k = i
    BY <1>1, <1>2
  <2> QED BY <2>2, <2>3, <2>4
<1>3. CASE Len(q) # 1
  <2>1. new = [levels EXCEPT ![price] = RemoveAt(q, i)]
    BY <1>3 DEF Erase
  <2>2. /\ DOMAIN new = DOMAIN levels
        /\ new[price] = RemoveAt(q, i)
        /\ \A p \in DOMAIN levels \ {price} : new[p] = levels[p]
    BY <2>1 DEF IsLevels
  <2>3. /\ \A j \in DOMAIN RemoveAt(q, i) : \E k \in DOMAIN q : RemoveAt(q, i)[j] = q[k]
        /\ \A k \in DOMAIN q \ {i} : \E j \in DOMAIN RemoveAt(q, i) : RemoveAt(q, i)[j] = q[k]
        /\ \A j, k \in DOMAIN RemoveAt(q, i) : j < k => \E m, n \in DOMAIN q :
             m < n /\ q[m] = RemoveAt(q, i)[j] /\ q[n] = RemoveAt(q, i)[k]
    <3> HIDE DEF q
    <3>1. i \in DOMAIN q
      BY <1>1
    <3>2. /\ \A j \in DOMAIN RemoveAt(q, i) : \E k \in DOMAIN q : RemoveAt(q, i)[j] = q[k]
          /\ \A k \in DOMAIN q \ {i} : \E j \in DOMAIN RemoveAt(q, i) : RemoveAt(q, i)[j] = q[k]
      BY <1>1, <3>1, RemoveAtElements
    <3>3. \A j, k \in DOMAIN RemoveAt(q, i) : j < k => \E m, n \in DOMAIN q :
            m < n /\ q[m] = RemoveAt(q, i)[j] /\ q[n] = RemoveAt(q, i)[k]
      BY <1>1, <3>1, RemoveAtKeepsOrder
    <3> QED BY <3>2, <3>3
  <2> HIDE DEF q
  <2>4. ASSUME NEW p \in DOMAIN new
        PROVE  /\ p \in DOMAIN levels
               /\ \A k \in DOMAIN new[p] : \E n \in DOMAIN levels[p] : levels[p][n] = new[p][k]
               /\ \A j, k \in DOMAIN new[p] : j < k =>
                    \E m, n \in DOMAIN levels[p] :
                      m < n /\ levels[p][m] = new[p][j] /\ levels[p][n] = new[p][k]
    <3>1. CASE p = price
      BY <3>1, <2>2, <2>3 DEF q
    <3>2. CASE p # price
      <4>1. p \in DOMAIN levels /\ new[p] = levels[p]
        BY <3>2, <2>2, <2>4
      <4> QED BY <4>1
    <3> QED BY <3>1, <3>2
  <2>5. SameOrder(new, levels)
    BY <2>4 DEF SameOrder
  <2>6. \A p \in DOMAIN levels : \A k \in DOMAIN levels[p] :
          \/ p = price /\ k = i
          \/ p \in DOMAIN new /\ \E j \in DOMAIN new[p] : new[p][j] = levels[p][k]
    BY <2>2, <2>3 DEF q
  <2> QED BY <2>5, <2>6
<1> QED BY <1>2, <1>3
-----------------------------------------------------------------------------
(***************************************************************************)
(* Types.  An empty price level would let Foremost return nothing, so that *)
(* there is none is part of the invariant that types need.                 *)
(***************************************************************************)
LevelsTyped == \A side \in OrderSide : IsLevels(book[side], Seen)

TypeInv ==
  /\ Seen \subseteq Id
  /\ order \in [Seen -> Order]
  /\ DOMAIN book = OrderSide
  /\ LevelsTyped
  /\ stop_loss_orders \in Seq(Seen)
  /\ last_trade_price \in Int
  /\ clock \in Nat
  /\ pc \in {"idle", "match", "market", "check"}
  /\ it \in Nat
  /\ pc \in {"idle", "match"} => it = 0
  /\ pc = "market" => it \in {0} \cup DOMAIN stop_loss_orders
  /\ pc = "check" => it > 0
  /\ market_order \in IF pc = "market" THEN Seen ELSE {NoId}
  /\ total_executed \in Int
  /\ matched_orders \in Seq(Seen)

LEMMA TypeInvMeans == TypeInv <=> TypeOK /\ NoEmptyLevel
BY DEF TypeInv, TypeOK, NoEmptyLevel, LevelsTyped, IsLevels

(***************************************************************************)
(* What the updates of a record keep.                                      *)
(***************************************************************************)
LEMMA OrderUpdates ==
  ASSUME NEW o \in Order
  PROVE  /\ \A q \in Int : Filled(o, q) \in Order
         /\ \A st \in OrderStatus : [o EXCEPT !.status = st] \in Order
         /\ \A t \in Nat : [o EXCEPT !.timestamp = t] \in Order
         /\ AsLimit(o) \in Order /\ AsMarket(o) \in Order
         /\ last_trade_price \in Int => UpdateTrailingStop(o) \in Order
<1>1. ASSUME NEW q \in Int PROVE Filled(o, q) \in Order
  <2>1. \A f \in Int, st \in OrderStatus :
          [o EXCEPT !.filled_quantity = f, !.status = st] \in Order
    BY DEF Order
  <2>2. o.filled_quantity + q \in Int /\ o.status \in OrderStatus /\ "FILLED" \in OrderStatus
    BY <1>1 DEF Order, OrderStatus
  <2>3. CASE o.filled_quantity + q >= o.quantity
    BY <2>1, <2>2, <2>3 DEF Filled
  <2>4. CASE ~(o.filled_quantity + q >= o.quantity)
    BY <2>1, <2>2, <2>4 DEF Filled
  <2> QED BY <2>3, <2>4
<1>2. ASSUME NEW st \in OrderStatus PROVE [o EXCEPT !.status = st] \in Order
  BY DEF Order
<1>3. ASSUME NEW t \in Nat PROVE [o EXCEPT !.timestamp = t] \in Order
  BY DEF Order
<1>4. AsLimit(o) \in Order /\ AsMarket(o) \in Order
  BY DEF Order, AsLimit, AsMarket, OrderType
<1>5. ASSUME last_trade_price \in Int PROVE UpdateTrailingStop(o) \in Order
  <2> DEFINE p == last_trade_price
  <2>1. \A a \in Int : /\ [o EXCEPT !.highest_price = p, !.price = a] \in Order
                       /\ [o EXCEPT !.lowest_price = p, !.price = a] \in Order
    BY <1>5 DEF Order
  <2>2. p - o.trailing_amount \in Int /\ p + o.trailing_amount \in Int
    BY <1>5 DEF Order
  <2> QED BY <2>1, <2>2 DEF UpdateTrailingStop
<1> QED BY <1>1, <1>2, <1>3, <1>4, <1>5

LEMMA AdmissibleIsOrder == \A o \in Incoming : o \in Order
BY IncomingAssumption DEF IsAdmissible, IsFresh

(***************************************************************************)
(* The primed parts of the type invariant that the shared sub-actions      *)
(* determine.                                                              *)
(***************************************************************************)
LEMMA WithOrderTyped ==
  ASSUME TypeInv, NEW id \in Id, NEW o \in Order, order' = WithOrder(id, o)
  PROVE  /\ Seen' = Seen \cup {id} /\ Seen' \subseteq Id
         /\ order' \in [Seen' -> Order]
         /\ stop_loss_orders \in Seq(Seen')
         /\ matched_orders \in Seq(Seen')
         /\ \A side \in OrderSide : IsLevels(book[side], Seen')
<1>1. /\ Seen' = Seen \cup {id} /\ Seen' \subseteq Id
      /\ order' \in [Seen' -> Order]
  BY DEF TypeInv, WithOrder, Seen
<1>2. /\ stop_loss_orders \in Seq(Seen') /\ matched_orders \in Seq(Seen')
  BY <1>1, SeqMonotonic DEF TypeInv
<1>3. \A side \in OrderSide : IsLevels(book[side], Seen')
  BY <1>1, LevelsMonotonic DEF TypeInv, LevelsTyped
<1> QED BY <1>1, <1>2, <1>3

LEMMA RestTyped ==
  ASSUME TypeInv, NEW id \in Id, NEW o \in Order, Rest(id, o)
  PROVE  DOMAIN book' = OrderSide /\ LevelsTyped'
<1>1. /\ Seen' = Seen \cup {id}
      /\ \A side \in OrderSide : IsLevels(book[side], Seen')
  BY WithOrderTyped DEF Rest
<1>2. o.side \in OrderSide /\ o.price \in Int
  BY DEF Order
<1>3. /\ DOMAIN book' = OrderSide
      /\ book'[o.side] = PushBack(book[o.side], o.price, id)
      /\ \A side \in OrderSide \ {o.side} : book'[side] = book[side]
  BY <1>2 DEF TypeInv, Rest
<1>4. IsLevels(book'[o.side], Seen')
  <2>1. IsLevels(book[o.side], Seen') /\ id \in Seen'
    BY <1>1, <1>2
  <2>2. IsLevels(PushBack(book[o.side], o.price, id), Seen')
    BY <2>1, <1>2, PushBackProperties
  <2> QED BY <2>2, <1>3
<1> QED BY <1>1, <1>3, <1>4 DEF LevelsTyped

LEMMA EraseTyped ==
  ASSUME TypeInv, NEW side \in OrderSide, NEW p \in DOMAIN book[side],
         NEW i \in DOMAIN book[side][p]
  PROVE  /\ IsLevels(Erase(book[side], p, i), Seen)
         /\ DOMAIN Erase(book[side], p, i) \subseteq DOMAIN book[side]
         /\ book[side][p][i] \in Seen
<1>1. IsLevels(book[side], Seen)
  BY DEF TypeInv, LevelsTyped
<1>2. book[side][p] \in Seq(Seen) /\ i \in 1..Len(book[side][p])
  BY <1>1, LenProperties DEF IsLevels
<1> QED BY <1>1, <1>2, EraseProperties, ElementOfSeq

LEMMA ForemostTyped ==
  ASSUME TypeInv, NEW side \in OrderSide, NEW p \in DOMAIN book[side]
  PROVE  1 \in DOMAIN book[side][p] /\ Foremost(side, p) \in Seen
<1>1. book[side][p] \in Seq(Seen) /\ book[side][p] # <<>>
  BY DEF TypeInv, LevelsTyped, IsLevels
<1>2. 1 \in 1..Len(book[side][p]) /\ DOMAIN book[side][p] = 1..Len(book[side][p])
  BY <1>1, EmptySeq, LenProperties
<1> QED BY <1>1, <1>2, ElementOfSeq DEF Foremost

LEMMA TradeTyped ==
  ASSUME TypeInv, NEW b \in Seen, NEW s \in Seen, ExecuteTrade(b, s)
  PROVE  /\ Seen' = Seen /\ order' \in [Seen -> Order]
         /\ last_trade_price' \in Int
         /\ TradeQuantity(b, s) \in Int
<1>1. order[b] \in Order /\ order[s] \in Order /\ order \in [Seen -> Order]
  BY DEF TypeInv
<1>2. TradeQuantity(b, s) \in Int
  BY <1>1 DEF TradeQuantity, Remaining, Order
<1>3. TradePrice(b, s) \in Int
  BY <1>1 DEF TradePrice, Order
<1>4. \A o \in Order : Filled(o, TradeQuantity(b, s)) \in Order
  BY <1>2, OrderUpdates
<1> QED BY <1>1, <1>2, <1>3, <1>4 DEF ExecuteTrade, Seen
-----------------------------------------------------------------------------
LEMMA TypeInit == Init => TypeInv
<1> SUFFICES ASSUME Init PROVE TypeInv
  OBVIOUS
<1>1. LevelsTyped
  BY DEF Init, LevelsTyped, IsLevels, Seen
<1>2. /\ Seen \subseteq Id
      /\ order \in [Seen -> Order]
      /\ stop_loss_orders \in Seq(Seen)
      /\ matched_orders \in Seq(Seen)
  BY DEF Init, Seen
<1> QED BY <1>1, <1>2 DEF TypeInv, Init

(***************************************************************************)
(* A new order: each of the five ways it is taken in.                      *)
(***************************************************************************)
LEMMA ArrivalTyped ==
  ASSUME TypeInv, NEW id \in Id, NEW o \in Incoming,
         \/ AddLimitOrder(id, o)
         \/ AddStopOrder(id, o)
         \/ AddTriggeredStopLimit(id, o)
         \/ AddTriggeredStop(id, o)
         \/ ExecuteMarketOrder(id, o)
  PROVE  TypeInv'
<1> DEFINE stamped == [o EXCEPT !.timestamp = clock']
<1>1. clock' \in Nat
  BY TickAssumption DEF TypeInv, AddLimitOrder, AddStopOrder, AddTriggeredStopLimit,
       AddTriggeredStop, ExecuteMarketOrder, Arrives
<1>2. stamped \in Order /\ AsLimit(stamped) \in Order /\ AsMarket(stamped) \in Order
  BY <1>1, AdmissibleIsOrder, OrderUpdates
<1>3. pc = "idle" /\ market_order = NoId /\ it = 0
  BY DEF TypeInv, AddLimitOrder, AddStopOrder, AddTriggeredStopLimit, AddTriggeredStop,
       ExecuteMarketOrder, Arrives
<1> HIDE DEF stamped
<1>4. CASE AddLimitOrder(id, o)
  <2>1. Rest(id, stamped) /\ order' = WithOrder(id, stamped)
    BY <1>4 DEF AddLimitOrder, Rest, stamped
  <2> QED BY <2>1, <1>1, <1>2, <1>3, <1>4, RestTyped, WithOrderTyped DEF TypeInv,
               AddLimitOrder
<1>5. CASE AddTriggeredStopLimit(id, o)
  <2>1. Rest(id, AsLimit(stamped)) /\ order' = WithOrder(id, AsLimit(stamped))
    BY <1>5 DEF AddTriggeredStopLimit, Rest, stamped
  <2> QED BY <2>1, <1>1, <1>2, <1>3, <1>5, RestTyped, WithOrderTyped DEF TypeInv,
               AddTriggeredStopLimit
<1>6. CASE AddStopOrder(id, o)
  <2>1. order' = WithOrder(id, stamped) /\ UNCHANGED book
    BY <1>6 DEF AddStopOrder, stamped
  <2>2. /\ Seen' = Seen \cup {id} /\ Seen' \subseteq Id
        /\ order' \in [Seen' -> Order]
        /\ stop_loss_orders \in Seq(Seen') /\ matched_orders \in Seq(Seen')
        /\ LevelsTyped'
    BY <2>1, <1>2, WithOrderTyped DEF LevelsTyped
  <2>3. stop_loss_orders' \in Seq(Seen')
    BY <2>2, <1>6, AppendProperties DEF AddStopOrder
  <2> QED BY <2>1, <2>2, <2>3, <1>1, <1>3, <1>6 DEF TypeInv, AddStopOrder
<1>7. CASE AddTriggeredStop(id, o) \/ ExecuteMarketOrder(id, o)
  <2>1. PICK m \in {stamped, AsMarket(stamped)} : StartMarket(id, m)
    BY <1>7 DEF AddTriggeredStop, ExecuteMarketOrder, stamped
  <2>2. order' = WithOrder(id, m) /\ m \in Order /\ UNCHANGED book
    BY <2>1, <1>2, <1>7 DEF StartMarket, AddTriggeredStop, ExecuteMarketOrder
  <2>3. /\ Seen' = Seen \cup {id} /\ Seen' \subseteq Id
        /\ order' \in [Seen' -> Order]
        /\ stop_loss_orders \in Seq(Seen') /\ matched_orders \in Seq(Seen')
        /\ LevelsTyped'
    BY <2>2, WithOrderTyped DEF LevelsTyped
  <2>4. market_order' \in Seen' /\ pc' = "market" /\ total_executed' = 0
    BY <2>1, <2>3 DEF StartMarket
  <2>5. UNCHANGED <<stop_loss_orders, last_trade_price, it, matched_orders>>
    BY <1>7 DEF AddTriggeredStop, ExecuteMarketOrder
  <2> QED BY <2>2, <2>3, <2>4, <2>5, <1>1, <1>3 DEF TypeInv
<1> QED BY <1>4, <1>5, <1>6, <1>7

(***************************************************************************)
(* A cancelled order leaves its level or the stop orders.                  *)
(***************************************************************************)
LEMMA CancelTyped ==
  ASSUME TypeInv, NEW id \in Seen, CancelOrder(id)
  PROVE  TypeInv'
<1>1. ASSUME order' = [order EXCEPT ![id].status = "CANCELLED"]
      PROVE  Seen' = Seen /\ order' \in [Seen -> Order]
  <2>1. order \in [Seen -> Order] /\ "CANCELLED" \in OrderStatus
    BY DEF TypeInv, OrderStatus
  <2>2. [order[id] EXCEPT !.status = "CANCELLED"] \in Order
    BY <2>1, OrderUpdates
  <2>3. order' = [order EXCEPT ![id] = [order[id] EXCEPT !.status = "CANCELLED"]]
    BY <1>1
  <2> QED BY <2>1, <2>2, <2>3 DEF Seen
<1>2. ASSUME NEW side \in OrderSide, NEW p \in DOMAIN book[side],
             NEW i \in DOMAIN book[side][p], CancelResting(id, side, p, i)
      PROVE  TypeInv'
  <2>1. Seen' = Seen /\ order' \in [Seen -> Order]
    BY <1>1, <1>2 DEF CancelResting
  <2>2. book' = [book EXCEPT ![side] = Erase(book[side], p, i)]
    BY <1>2 DEF CancelResting
  <2>3. DOMAIN book' = OrderSide /\ LevelsTyped'
    BY <2>1, <2>2, EraseTyped DEF TypeInv, LevelsTyped
  <2> QED BY <2>1, <2>3, <1>2 DEF TypeInv, CancelResting
<1>3. ASSUME NEW i \in DOMAIN stop_loss_orders, CancelStop(id, i)
      PROVE  TypeInv'
  <2>1. Seen' = Seen /\ order' \in [Seen -> Order]
    BY <1>1, <1>3 DEF CancelStop
  <2>2. i \in 1..Len(stop_loss_orders) /\ stop_loss_orders \in Seq(Seen)
    BY LenProperties DEF TypeInv
  <2>3. stop_loss_orders' \in Seq(Seen)
    BY <2>2, <1>3, RemoveAtProperties DEF CancelStop
  <2>4. LevelsTyped' /\ UNCHANGED book
    BY <2>1, <1>3 DEF TypeInv, LevelsTyped, CancelStop
  <2> QED BY <2>1, <2>3, <2>4, <1>3 DEF TypeInv, CancelStop
<1> QED BY <1>2, <1>3 DEF CancelOrder

(***************************************************************************)
(* An iteration of match_orders.                                           *)
(***************************************************************************)
LEMMA LevelsAfterTradeTyped ==
  ASSUME TypeInv, NEW side \in OrderSide, NEW p \in DOMAIN book[side],
         NEW o, NEW q
  PROVE  IsLevels(LevelsAfterTrade(side, p, o, q), Seen)
<1>1. 1 \in DOMAIN book[side][p]
  BY ForemostTyped
<1>2. IsLevels(Erase(book[side], p, 1), Seen)
  BY <1>1, EraseTyped
<1>3. IsLevels(book[side], Seen)
  BY DEF TypeInv, LevelsTyped
<1> QED BY <1>2, <1>3 DEF LevelsAfterTrade

LEMMA MatchTyped ==
  ASSUME TypeInv, NEW bp \in DOMAIN book["BUY"], NEW sp \in DOMAIN book["SELL"],
         MatchSelfTrade(bp, sp) \/ MatchTrade(bp, sp)
  PROVE  TypeInv'
<1> DEFINE b == Foremost("BUY", bp)
           s == Foremost("SELL", sp)
<1>1. "BUY" \in OrderSide /\ "SELL" \in OrderSide
  BY DEF OrderSide
<1>2. /\ b \in Seen /\ 1 \in DOMAIN book["BUY"][bp]
      /\ s \in Seen /\ 1 \in DOMAIN book["SELL"][sp]
  BY <1>1, ForemostTyped
<1>3. CASE MatchSelfTrade(bp, sp)
  <2>1. /\ IsLevels(Erase(book["BUY"], bp, 1), Seen)
        /\ IsLevels(Erase(book["SELL"], sp, 1), Seen)
    BY <1>1, <1>2, EraseTyped
  <2>2. \/ book' = [book EXCEPT !["BUY"] = Erase(book["BUY"], bp, 1)]
        \/ book' = [book EXCEPT !["SELL"] = Erase(book["SELL"], sp, 1)]
    BY <1>3 DEF MatchSelfTrade
  <2>3. UNCHANGED order /\ Seen' = Seen
    BY <1>3 DEF MatchSelfTrade, Seen
  <2>4. DOMAIN book' = OrderSide /\ LevelsTyped'
    BY <2>1, <2>2, <2>3 DEF TypeInv, LevelsTyped
  <2> QED BY <2>3, <2>4, <1>3 DEF TypeInv, MatchSelfTrade
<1>4. CASE MatchTrade(bp, sp)
  <2> DEFINE q == TradeQuantity(b, s)
  <2>1. ExecuteTrade(b, s) /\ matched_orders' = matched_orders \o <<b, s>>
    BY <1>4 DEF MatchTrade
  <2>2. /\ Seen' = Seen /\ order' \in [Seen -> Order]
        /\ last_trade_price' \in Int
    BY <2>1, <1>2, TradeTyped
  <2>3. matched_orders' \in Seq(Seen)
    <3>1. <<b, s>> \in Seq(Seen)
      BY <1>2
    <3> QED BY <3>1, <2>1, ConcatProperties DEF TypeInv
  <2>4. /\ IsLevels(LevelsAfterTrade("BUY", bp, order[b], q), Seen)
        /\ IsLevels(LevelsAfterTrade("SELL", sp, order[s], q), Seen)
    BY <1>1, LevelsAfterTradeTyped
  <2>5. /\ DOMAIN book' = OrderSide
        /\ book'["BUY"] = LevelsAfterTrade("BUY", bp, order[b], q)
        /\ book'["SELL"] = LevelsAfterTrade("SELL", sp, order[s], q)
    BY <1>4 DEF MatchTrade, OrderSide
  <2>6. LevelsTyped'
    BY <2>2, <2>4, <2>5 DEF LevelsTyped, OrderSide
  <2> QED BY <2>2, <2>3, <2>5, <2>6, <1>4 DEF TypeInv, MatchTrade
<1> QED BY <1>3, <1>4

(***************************************************************************)
(* An iteration and the end of execute_market_order_internal.              *)
(***************************************************************************)
LEMMA OppositeTyped ==
  ASSUME TypeInv, pc = "market"
  PROVE  /\ market_order \in Seen /\ order[market_order] \in Order
         /\ Opposite \in OrderSide /\ MarketRemaining \in Int
<1>1. market_order \in Seen /\ order[market_order] \in Order /\ total_executed \in Int
  BY DEF TypeInv
<1> QED BY <1>1 DEF Opposite, OppositeSide, MarketRemaining, Order, OrderSide

LEMMA MarketTyped ==
  ASSUME TypeInv, pc = "market", NEW p \in DOMAIN book[Opposite],
         MarketSelfTrade(p) \/ MarketTrade(p)
  PROVE  TypeInv'
<1>1. /\ market_order \in Seen /\ order[market_order] \in Order
      /\ Opposite \in OrderSide /\ MarketRemaining \in Int
  BY OppositeTyped
<1>2. Foremost(Opposite, p) \in Seen /\ 1 \in DOMAIN book[Opposite][p]
  BY <1>1, ForemostTyped
<1>3. CASE MarketSelfTrade(p)
  <2>1. IsLevels(Erase(book[Opposite], p, 1), Seen)
    BY <1>1, <1>2, EraseTyped
  <2>2. book' = [book EXCEPT ![Opposite] = Erase(book[Opposite], p, 1)]
    BY <1>3 DEF MarketSelfTrade
  <2>3. UNCHANGED order /\ Seen' = Seen
    BY <1>3 DEF MarketSelfTrade, Seen
  <2>4. DOMAIN book' = OrderSide /\ LevelsTyped'
    BY <2>1, <2>2, <2>3, <1>1 DEF TypeInv, LevelsTyped
  <2> QED BY <2>3, <2>4, <1>3 DEF TypeInv, MarketSelfTrade
<1>4. CASE MarketTrade(p)
  <2> DEFINE o == Foremost(Opposite, p)
             b == IF Opposite = "BUY" THEN o ELSE market_order
             s == IF Opposite = "BUY" THEN market_order ELSE o
             levels == LevelsAfterTrade(Opposite, p, order[o], TradeQuantity(b, s))
  <2>1. ExecuteTrade(b, s) /\ book' = [book EXCEPT ![Opposite] = levels]
    BY <1>4 DEF MarketTrade
  <2>2. b \in Seen /\ s \in Seen
    BY <1>1, <1>2
  <2>3. IsLevels(levels, Seen)
    BY <1>1, LevelsAfterTradeTyped
  <2>4. total_executed' \in Int
    <3>1. order[o] \in Order /\ total_executed \in Int
      BY <1>2 DEF TypeInv
    <3>2. Remaining(order[o]) \in Int
      BY <3>1 DEF Remaining, Order
    <3> QED BY <3>1, <3>2, <1>1, <1>4 DEF MarketTrade
  <2> HIDE DEF o, b, s, levels
  <2>5. /\ Seen' = Seen /\ order' \in [Seen -> Order]
        /\ last_trade_price' \in Int
    BY <2>1, <2>2, TradeTyped
  <2>6. DOMAIN book' = OrderSide /\ LevelsTyped'
    BY <2>1, <2>3, <2>5, <1>1 DEF TypeInv, LevelsTyped
  <2> QED BY <2>4, <2>5, <2>6, <1>4 DEF TypeInv, MarketTrade
<1> QED BY <1>3, <1>4

LEMMA MarketDoneTyped ==
  ASSUME TypeInv, MarketDone
  PROVE  TypeInv'
<1>1. /\ pc = "market" /\ market_order \in Seen /\ order[market_order] \in Order
  BY OppositeTyped DEF MarketDone
<1> DEFINE st == FinalStatus(order[market_order], total_executed)
<1>2. st \in OrderStatus
  BY DEF FinalStatus, OrderStatus
<1>3. order' = [order EXCEPT ![market_order] = [order[market_order] EXCEPT !.status = st]]
  BY DEF MarketDone
<1>4. [order[market_order] EXCEPT !.status = st] \in Order
  BY <1>1, <1>2, OrderUpdates
<1> HIDE DEF st
<1>5. Seen' = Seen /\ order' \in [Seen -> Order]
  BY <1>1, <1>3, <1>4 DEF TypeInv, Seen
<1>6. stop_loss_orders' \in Seq(Seen)
  <2>1. CASE it = 0
    BY <2>1 DEF MarketDone, TypeInv
  <2>2. CASE it > 0
    <3>1. it \in 1..Len(stop_loss_orders) /\ stop_loss_orders \in Seq(Seen)
      BY <1>1, <2>2, LenProperties DEF TypeInv
    <3> QED BY <3>1, <2>2, RemoveAtProperties DEF MarketDone
  <2> QED BY <2>1, <2>2 DEF TypeInv
<1>7. LevelsTyped' /\ DOMAIN book' = OrderSide
  BY <1>5 DEF TypeInv, LevelsTyped, MarketDone
<1> QED BY <1>5, <1>6, <1>7 DEF TypeInv, MarketDone

(***************************************************************************)
(* An iteration and the end of check_stop_loss_orders.                     *)
(***************************************************************************)
LEMMA CurrentTyped ==
  ASSUME TypeInv, pc = "check", it <= Len(stop_loss_orders)
  PROVE  /\ it \in 1..Len(stop_loss_orders) /\ stop_loss_orders \in Seq(Seen)
         /\ stop_loss_orders[it] \in Seen
         /\ Current \in Order
         /\ AsLimit(Current) \in Order /\ AsMarket(Current) \in Order
<1>1. it \in 1..Len(stop_loss_orders) /\ stop_loss_orders \in Seq(Seen)
  BY LenProperties DEF TypeInv
<1>2. stop_loss_orders[it] \in Seen
  BY <1>1, ElementOfSeq
<1>3. order[stop_loss_orders[it]] \in Order
  BY <1>2 DEF TypeInv
<1>4. Current \in Order
  BY <1>3, OrderUpdates DEF Current, TypeInv
<1> QED BY <1>1, <1>2, <1>4, OrderUpdates

LEMMA CheckTyped ==
  ASSUME TypeInv,
         CheckNotReached \/ CheckTriggersStopLimit \/ CheckTriggersStop
  PROVE  TypeInv'
<1> DEFINE id == stop_loss_orders[it]
<1>1. pc = "check" /\ it <= Len(stop_loss_orders)
  BY DEF CheckNotReached, CheckTriggersStopLimit, CheckTriggersStop
<1>2. /\ it \in 1..Len(stop_loss_orders) /\ stop_loss_orders \in Seq(Seen)
      /\ id \in Seen /\ id \in Id
      /\ Current \in Order
      /\ AsLimit(Current) \in Order /\ AsMarket(Current) \in Order
  BY <1>1, CurrentTyped DEF TypeInv
<1> HIDE DEF id
<1>3. ASSUME NEW o \in Order, order' = WithOrder(id, o)
      PROVE  /\ Seen' = Seen /\ order' \in [Seen -> Order]
             /\ \A side \in OrderSide : IsLevels(book[side], Seen)
  <2>1. Seen \cup {id} = Seen
    BY <1>2
  <2> QED BY <2>1, <1>2, <1>3, WithOrderTyped
<1>4. CASE CheckNotReached
  <2>1. order' = WithOrder(id, Current) /\ UNCHANGED book
    BY <1>4 DEF CheckNotReached, id
  <2>2. Seen' = Seen /\ order' \in [Seen -> Order] /\ LevelsTyped'
    BY <1>2, <1>3, <2>1 DEF LevelsTyped
  <2> QED BY <2>1, <2>2, <1>1, <1>4 DEF TypeInv, CheckNotReached
<1>5. CASE CheckTriggersStopLimit
  <2>1. Rest(id, AsLimit(Current)) /\ order' = WithOrder(id, AsLimit(Current))
    BY <1>5 DEF CheckTriggersStopLimit, Rest, id
  <2>2. Seen' = Seen /\ order' \in [Seen -> Order]
    BY <1>2, <1>3, <2>1
  <2>3. DOMAIN book' = OrderSide /\ LevelsTyped'
    BY <1>2, <2>1, RestTyped
  <2>4. stop_loss_orders' \in Seq(Seen)
    BY <1>2, <1>5, RemoveAtProperties DEF CheckTriggersStopLimit
  <2> QED BY <2>2, <2>3, <2>4, <1>1, <1>5 DEF TypeInv, CheckTriggersStopLimit
<1>6. CASE CheckTriggersStop
  <2>1. /\ order' = WithOrder(id, AsMarket(Current)) /\ UNCHANGED book
        /\ market_order' = id /\ pc' = "market" /\ total_executed' = 0
    BY <1>6 DEF CheckTriggersStop, StartMarket, id
  <2>2. Seen' = Seen /\ order' \in [Seen -> Order] /\ LevelsTyped'
    BY <1>2, <1>3, <2>1 DEF LevelsTyped
  <2>3. it \in DOMAIN stop_loss_orders
    BY <1>2, LenProperties
  <2> QED BY <2>1, <2>2, <2>3, <1>2, <1>6 DEF TypeInv, CheckTriggersStop
<1> QED BY <1>4, <1>5, <1>6

LEMMA ReturnTyped ==
  ASSUME TypeInv, MatchOrders \/ MatchDone \/ CheckStopLossOrders \/ CheckDone
  PROVE  TypeInv'
<1>1. UNCHANGED <<order, book, stop_loss_orders, last_trade_price, clock>>
  BY DEF MatchOrders, MatchDone, CheckStopLossOrders, CheckDone
<1>2. Seen' = Seen /\ LevelsTyped'
  BY <1>1 DEF TypeInv, LevelsTyped, Seen
<1>3. matched_orders' = matched_orders \/ matched_orders' = <<>>
  BY DEF MatchOrders, MatchDone, CheckStopLossOrders, CheckDone
<1>4. matched_orders' \in Seq(Seen)
  BY <1>3, EmptySeq DEF TypeInv
<1> QED BY <1>1, <1>2, <1>4
       DEF TypeInv, MatchOrders, MatchDone, CheckStopLossOrders, CheckDone

LEMMA TypeStep == TypeInv /\ [Next]_vars => TypeInv'
<1> SUFFICES ASSUME TypeInv, [Next]_vars PROVE TypeInv'
  OBVIOUS
<1>1. CASE Call
  <2>1. ASSUME NEW id \in Id, NEW o \in Incoming,
               \/ AddLimitOrder(id, o) \/ AddStopOrder(id, o)
               \/ AddTriggeredStopLimit(id, o) \/ AddTriggeredStop(id, o)
               \/ ExecuteMarketOrder(id, o)
        PROVE  TypeInv'
    BY <2>1, ArrivalTyped
  <2>2. ASSUME NEW id \in Seen, CancelOrder(id) PROVE TypeInv'
    BY <2>2, CancelTyped
  <2> QED BY <1>1, <2>1, <2>2, ReturnTyped DEF Call
<1>2. CASE Step
  <2>1. ASSUME NEW b \in DOMAIN book["BUY"], NEW s \in DOMAIN book["SELL"],
               MatchSelfTrade(b, s) \/ MatchTrade(b, s)
        PROVE  TypeInv'
    BY <2>1, MatchTyped
  <2>2. ASSUME pc = "market", NEW p \in DOMAIN book[Opposite],
               MarketSelfTrade(p) \/ MarketTrade(p)
        PROVE  TypeInv'
    BY <2>2, MarketTyped
  <2> QED BY <1>2, <2>1, <2>2, MarketDoneTyped, CheckTyped, ReturnTyped DEF Step
<1>3. CASE UNCHANGED vars
  BY <1>3 DEF TypeInv, LevelsTyped, Seen, vars
<1> QED BY <1>1, <1>2, <1>3 DEF Next

(***************************************************************************)
(* The variables keep their types, and no price level is ever left empty.  *)
(***************************************************************************)
THEOREM TypeCorrect == Spec => []TypeOK
<1>1. Init => TypeInv
  BY TypeInit
<1>2. TypeInv /\ [Next]_vars => TypeInv'
  BY TypeStep
<1>3. TypeInv => TypeOK
  BY TypeInvMeans
<1> QED BY <1>1, <1>2, <1>3, PTL DEF Spec
=============================================================================
