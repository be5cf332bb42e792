--------------------------- MODULE EntriesProofs ----------------------------
(***************************************************************************)
(* Theorems about the entries that Matchmaking queues, for any users and   *)
(* number of requests: where each entry is, and how many failures cost.    *)
(* The argument: an entry is in one place, the list or what one handler    *)
(* holds, and every step moves entries between the two, adds one that is   *)
(* new, or drops some.                                                     *)
(***************************************************************************)
EXTENDS MatchmakingProofs

-----------------------------------------------------------------------------
(* Where entries are *)

(* What a handler holds: the entries it popped, then the match it made.    *)
Held == [r \in Requests |-> IF match[r] = << >> THEN popped[r] ELSE match[r]]

At(e, l, i) == i \in DOMAIN l /\ l[i] = e

InList(e, l) == \E i \in DOMAIN l : At(e, l, i)

InHands(e, h) == \E r \in Requests : InList(e, h[r])

(* The list l and the handlers' entries h have no entry twice. *)
Apart(l, h) ==
  /\ \A i, j \in DOMAIN l : l[i] = l[j] => i = j
  /\ \A r, s \in Requests : \A i \in DOMAIN h[r], j \in DOMAIN h[s] :
       h[r][i] = h[s][j] => r = s /\ i = j
  /\ \A i \in DOMAIN l, r \in Requests : \A j \in DOMAIN h[r] : l[i] # h[r][j]

All(l, h, a) == \A e \in Entries : e \in a <=> InList(e, l) \/ InHands(e, h)

(* An entry, or a copy numbered by the next lost answer, arrives once.     *)
Recorded ==
  /\ \A r \in Requests : pc[r] \in {"new", "pushing"} => <<r, 0>> \notin arrived
  /\ \A e \in arrived : e[2] <= unheard
  /\ dropped \subseteq arrived

EntriesInv == Recorded /\ Apart(queue, Held) /\ All(queue, Held, arrived \ dropped)

LEMMA ApartPlaces ==
  ASSUME NEW l, NEW h
  PROVE  Apart(l, h) <=>
           /\ \A q, i, j : At(q, l, i) /\ At(q, l, j) => i = j
           /\ \A q, i, j : \A r, s \in Requests :
                At(q, h[r], i) /\ At(q, h[s], j) => r = s /\ i = j
           /\ \A q, i, j : \A r \in Requests : ~(At(q, l, i) /\ At(q, h[r], j))
<1>1. (\A i, j \in DOMAIN l : l[i] = l[j] => i = j)
        <=> \A q, i, j : At(q, l, i) /\ At(q, l, j) => i = j
  BY Zenon DEF At
<1>2. (\A r, s \in Requests : \A i \in DOMAIN h[r], j \in DOMAIN h[s] :
         h[r][i] = h[s][j] => r = s /\ i = j)
        <=> \A q, i, j : \A r, s \in Requests :
              At(q, h[r], i) /\ At(q, h[s], j) => r = s /\ i = j
  <2>1. ASSUME \A r, s \in Requests : \A i \in DOMAIN h[r], j \in DOMAIN h[s] :
                 h[r][i] = h[s][j] => r = s /\ i = j,
               NEW q, NEW i, NEW j, NEW r \in Requests, NEW s \in Requests,
               At(q, h[r], i), At(q, h[s], j)
        PROVE  r = s /\ i = j
    <3>1. i \in DOMAIN h[r] /\ j \in DOMAIN h[s] /\ h[r][i] = h[s][j]
      BY <2>1, Zenon DEF At
    <3> QED
      BY <2>1, <3>1, Zenon
  <2>2. ASSUME \A q, i, j : \A r, s \in Requests :
                 At(q, h[r], i) /\ At(q, h[s], j) => r = s /\ i = j,
               NEW r \in Requests, NEW s \in Requests,
               NEW i \in DOMAIN h[r], NEW j \in DOMAIN h[s], h[r][i] = h[s][j]
        PROVE  r = s /\ i = j
    <3>1. At(h[r][i], h[r], i) /\ At(h[r][i], h[s], j)
      BY <2>2, Zenon DEF At
    <3> QED
      BY <2>2, <3>1, Zenon
  <2> QED
    BY <2>1, <2>2, Zenon
<1>3. (\A i \in DOMAIN l, r \in Requests : \A j \in DOMAIN h[r] : l[i] # h[r][j])
        <=> \A q, i, j : \A r \in Requests : ~(At(q, l, i) /\ At(q, h[r], j))
  BY Zenon DEF At
<1> QED
  BY <1>1, <1>2, <1>3 DEF Apart

LEMMA ListPlaces ==
  ASSUME NEW l, NEW q
  PROVE  InList(q, l) <=> \E i : At(q, l, i)
  BY DEF InList, At

LEMMA ConcatPlaces ==
  ASSUME NEW t \in Seq(Entries), NEW l \in Seq(Entries)
  PROVE  /\ Len(t) \in Nat
         /\ \A q, i : At(q, t, i) => At(q, t \o l, i) /\ i \in 1 .. Len(t)
         /\ \A q, i : At(q, l, i) => At(q, t \o l, i + Len(t)) /\ i \in Nat \ {0}
         /\ \A q, i : At(q, t \o l, i) =>
              At(q, t, i) \/ (At(q, l, i - Len(t)) /\ i \in Nat)
<1> DEFINE whole == t \o l
<1>1. /\ Len(whole) = Len(t) + Len(l) /\ Len(t) \in Nat /\ Len(l) \in Nat
      /\ DOMAIN whole = 1 .. Len(whole) /\ DOMAIN t = 1 .. Len(t) /\ DOMAIN l = 1 .. Len(l)
      /\ \A i \in 1 .. Len(t) + Len(l) :
           whole[i] = IF i <= Len(t) THEN t[i] ELSE l[i - Len(t)]
  BY ConcatProperties, LenProperties
<1> DEFINE m == Len(t)
           n == Len(l)
<1>2. /\ m \in Nat /\ n \in Nat
      /\ DOMAIN whole = 1 .. (m + n) /\ DOMAIN t = 1 .. m /\ DOMAIN l = 1 .. n
      /\ \A i \in 1 .. (m + n) : whole[i] = IF i <= m THEN t[i] ELSE l[i - m]
  BY <1>1
<1> HIDE DEF whole, m, n
<1>3. ASSUME NEW q, NEW i, At(q, t, i)
      PROVE  At(q, whole, i) /\ i \in 1 .. m
  <2>1. i \in 1 .. m /\ t[i] = q
    BY <1>2, <1>3 DEF At
  <2>2. i \in 1 .. (m + n) /\ i <= m
    BY <1>2, <2>1
  <2> QED
    BY <1>2, <2>1, <2>2 DEF At
<1>4. ASSUME NEW q, NEW i, At(q, l, i)
      PROVE  At(q, whole, i + m) /\ i \in Nat \ {0}
  <2>1. i \in 1 .. n /\ l[i] = q
    BY <1>2, <1>4 DEF At
  <2>2. i + m \in 1 .. (m + n) /\ ~(i + m <= m) /\ (i + m) - m = i /\ i \in Nat \ {0}
    BY <1>2, <2>1
  <2>3. whole[i + m] = l[(i + m) - m]
    BY <1>2, <2>2
  <2> QED
    BY <1>2, <2>1, <2>2, <2>3 DEF At
<1>5. ASSUME NEW q, NEW i, At(q, whole, i)
      PROVE  At(q, t, i) \/ (At(q, l, i - m) /\ i \in Nat)
  <2>1. i \in 1 .. (m + n) /\ whole[i] = q
    BY <1>2, <1>5 DEF At
  <2>2. CASE i <= m
    <3>1. i \in 1 .. m
      BY <1>2, <2>1, <2>2
    <3> QED
      BY <1>2, <2>1, <2>2, <3>1 DEF At
  <2>3. CASE ~(i <= m)
    <3>1. i - m \in 1 .. n /\ i \in Nat
      BY <1>2, <2>1, <2>3
    <3>2. whole[i] = l[i - m]
      BY <1>2, <2>1, <2>3
    <3> QED
      BY <1>2, <2>1, <3>1, <3>2 DEF At
  <2> QED
    BY <2>2, <2>3
<1>6. m \in Nat
  BY <1>2
<1> QED
  BY <1>3, <1>4, <1>5, <1>6 DEF whole, m

(* Taking the entries t off the front of the list into the empty hands of  *)
(* q, or putting them back, moves each entry and nothing else.             *)
LEMMA MoveEntries ==
  ASSUME NEW t \in Seq(Entries), NEW l \in Seq(Entries),
         NEW h \in [Requests -> Seq(Entries)], NEW q \in Requests, h[q] = << >>,
         NEW a
  PROVE  LET g == [h EXCEPT ![q] = t] IN
         /\ Apart(t \o l, h) <=> Apart(l, g)
         /\ All(t \o l, h, a) <=> All(l, g, a)
<1> DEFINE g == [h EXCEPT ![q] = t]
           whole == t \o l
           n == Len(t)
<1>1. /\ n \in Nat
      /\ \A x, i : At(x, t, i) => At(x, whole, i) /\ i \in 1 .. n
      /\ \A x, i : At(x, l, i) => At(x, whole, i + n) /\ i \in Nat \ {0}
      /\ \A x, i : At(x, whole, i) => At(x, t, i) \/ (At(x, l, i - n) /\ i \in Nat)
  BY ConcatPlaces
<1>2. g[q] = t /\ \A r \in Requests \ {q} : g[r] = h[r]
  OBVIOUS
<1>3. \A x, i : ~At(x, h[q], i)
  BY DEF At
<1> HIDE DEF whole, g, n
<1>4. ASSUME Apart(whole, h) PROVE Apart(l, g)
  <2>0. /\ \A x, i, j : At(x, whole, i) /\ At(x, whole, j) => i = j
        /\ \A x, i, j : \A r, s \in Requests :
             At(x, h[r], i) /\ At(x, h[s], j) => r = s /\ i = j
        /\ \A x, i, j : \A r \in Requests : ~(At(x, whole, i) /\ At(x, h[r], j))
    BY <1>4, ApartPlaces
  <2>1. ASSUME NEW x, NEW i, NEW j, At(x, l, i), At(x, l, j)
        PROVE  i = j
    <3>1. i + n = j + n /\ i \in Nat /\ j \in Nat
      BY <1>1, <2>0, <2>1
    <3> QED
      BY <1>1, <3>1
  <2>2. \A x, i, j : ~(At(x, l, i) /\ At(x, t, j))
    <3>1. SUFFICES ASSUME NEW x, NEW i, NEW j, At(x, l, i), At(x, t, j)
                   PROVE  FALSE
      OBVIOUS
    <3>2. i + n = j /\ i \in Nat \ {0} /\ j \in 1 .. n
      BY <1>1, <2>0, <3>1
    <3> QED
      BY <1>1, <3>2
  <2>3. \A x, i, j : \A r \in Requests : ~(At(x, l, i) /\ At(x, h[r], j))
    BY <1>1, <2>0
  <2>4. \A x, i, j : \A r \in Requests : ~(At(x, t, i) /\ At(x, h[r], j))
    BY <1>1, <2>0
  <2>5. \A x, i, j : At(x, t, i) /\ At(x, t, j) => i = j
    BY <1>1, <2>0
  <2>6. ASSUME NEW x, NEW i, NEW j, NEW r \in Requests, NEW s \in Requests,
               At(x, g[r], i), At(x, g[s], j)
        PROVE  r = s /\ i = j
    <3>1. CASE r = q /\ s = q
      BY <1>2, <2>5, <2>6, <3>1
    <3>2. CASE r = q /\ s # q
      BY <1>2, <2>4, <2>6, <3>2
    <3>3. CASE r # q /\ s = q
      BY <1>2, <2>4, <2>6, <3>3
    <3>4. CASE r # q /\ s # q
      BY <1>2, <2>0, <2>6, <3>4
    <3> QED
      BY <3>1, <3>2, <3>3, <3>4
  <2>7. ASSUME NEW x, NEW i, NEW j, NEW r \in Requests, At(x, l, i), At(x, g[r], j)
        PROVE  FALSE
    BY <1>2, <2>2, <2>3, <2>7
  <2> QED
    BY <2>1, <2>6, <2>7, ApartPlaces
<1>5. ASSUME Apart(l, g) PROVE Apart(whole, h)
  <2>0. /\ \A x, i, j : At(x, l, i) /\ At(x, l, j) => i = j
        /\ \A x, i, j : \A r, s \in Requests :
             At(x, g[r], i) /\ At(x, g[s], j) => r = s /\ i = j
        /\ \A x, i, j : \A r \in Requests : ~(At(x, l, i) /\ At(x, g[r], j))
    BY <1>5, ApartPlaces
  <2>1. /\ \A x, i, j : ~(At(x, l, i) /\ At(x, t, j))
        /\ \A x, i, j : At(x, t, i) /\ At(x, t, j) => i = j
    BY <1>2, <2>0
  <2>2. \A r \in Requests \ {q} : \A x, i, j :
          ~(At(x, l, i) /\ At(x, h[r], j)) /\ ~(At(x, t, i) /\ At(x, h[r], j))
    BY <1>2, <2>0
  <2>3. ASSUME NEW x, NEW i, NEW j, At(x, whole, i), At(x, whole, j)
        PROVE  i = j
    <3>1. CASE At(x, t, i)
      BY <1>1, <2>1, <2>3, <3>1
    <3>2. CASE At(x, l, i - n) /\ i \in Nat
      <4>1. At(x, l, j - n) /\ j \in Nat
        BY <1>1, <2>1, <2>3, <3>2
      <4>2. i - n = j - n
        BY <2>0, <3>2, <4>1
      <4> QED
        BY <1>1, <3>2, <4>1, <4>2
    <3> QED
      BY <1>1, <2>3, <3>1, <3>2
  <2>4. ASSUME NEW x, NEW i, NEW j, NEW r \in Requests, NEW s \in Requests,
               At(x, h[r], i), At(x, h[s], j)
        PROVE  r = s /\ i = j
    BY <1>2, <1>3, <2>0, <2>4
  <2>5. ASSUME NEW x, NEW i, NEW j, NEW r \in Requests, At(x, whole, i), At(x, h[r], j)
        PROVE  FALSE
    BY <1>1, <1>3, <2>2, <2>5
  <2> QED
    BY <2>3, <2>4, <2>5, ApartPlaces
<1>6. ASSUME NEW e
      PROVE  InList(e, whole) \/ InHands(e, h) <=> InList(e, l) \/ InHands(e, g)
  <2>1. InList(e, whole) <=> InList(e, t) \/ InList(e, l)
    BY <1>1, ListPlaces
  <2>2. InHands(e, g) <=> InList(e, t) \/ InHands(e, h)
    <3>1. ~InList(e, h[q])
      BY <1>3, ListPlaces
    <3> QED
      BY <1>2, <3>1 DEF InHands
  <2> QED
    BY <2>1, <2>2
<1>7. All(whole, h, a) <=> All(l, g, a)
  BY <1>6 DEF All
<1> QED
  BY <1>4, <1>5, <1>7 DEF whole, g

(* Dropping the entries t off the front of the list.                       *)
LEMMA DropEntries ==
  ASSUME NEW t \in Seq(Entries), NEW l \in Seq(Entries), NEW h, NEW a,
         Apart(t \o l, h), All(t \o l, h, a)
  PROVE  /\ EntriesOf(t) \subseteq a
         /\ Apart(l, h) /\ All(l, h, a \ EntriesOf(t))
<1> DEFINE whole == t \o l
           n == Len(t)
<1>1. /\ n \in Nat
      /\ \A x, i : At(x, t, i) => At(x, whole, i) /\ i \in 1 .. n
      /\ \A x, i : At(x, l, i) => At(x, whole, i + n) /\ i \in Nat \ {0}
      /\ \A x, i : At(x, whole, i) => At(x, t, i) \/ (At(x, l, i - n) /\ i \in Nat)
  BY ConcatPlaces
<1>2. \A x : x \in EntriesOf(t) <=> \E i : At(x, t, i)
  BY DEF EntriesOf, At
<1>3. EntriesOf(t) \subseteq Entries
  BY EntriesOfList
<1>4. Apart(whole, h) /\ All(whole, h, a)
  OBVIOUS
<1> HIDE DEF whole, n
<1>5. /\ \A x, i, j : At(x, whole, i) /\ At(x, whole, j) => i = j
      /\ \A x, i, j : \A r, s \in Requests :
           At(x, h[r], i) /\ At(x, h[s], j) => r = s /\ i = j
      /\ \A x, i, j : \A r \in Requests : ~(At(x, whole, i) /\ At(x, h[r], j))
  BY <1>4, ApartPlaces
<1>6. \A x, i, j : ~(At(x, l, i) /\ At(x, t, j))
  <2>1. SUFFICES ASSUME NEW x, NEW i, NEW j, At(x, l, i), At(x, t, j)
                 PROVE  FALSE
    OBVIOUS
  <2>2. i + n = j /\ i \in Nat \ {0} /\ j \in 1 .. n
    BY <1>1, <1>5, <2>1
  <2> QED
    BY <1>1, <2>2
<1>7. Apart(l, h)
  <2>1. ASSUME NEW x, NEW i, NEW j, At(x, l, i), At(x, l, j)
        PROVE  i = j
    <3>1. i + n = j + n /\ i \in Nat /\ j \in Nat
      BY <1>1, <1>5, <2>1
    <3> QED
      BY <1>1, <3>1
  <2>2. ASSUME NEW x, NEW i, NEW j, NEW r \in Requests, At(x, l, i), At(x, h[r], j)
        PROVE  FALSE
    <3>1. At(x, whole, i + n)
      BY <1>1, <2>2
    <3> QED
      BY <1>5, <2>2, <3>1
  <2> QED
    BY <1>5, <2>1, <2>2, ApartPlaces
<1>8. \A x : InList(x, whole) <=> x \in EntriesOf(t) \/ InList(x, l)
  BY <1>1, <1>2, ListPlaces
<1>9. \A x : x \in EntriesOf(t) => ~InList(x, l) /\ ~InHands(x, h)
  BY <1>1, <1>2, <1>5, <1>6, ListPlaces DEF InHands
<1>10. EntriesOf(t) \subseteq a
  BY <1>3, <1>4, <1>8 DEF All
<1>11. All(l, h, a \ EntriesOf(t))
  BY <1>4, <1>8, <1>9 DEF All
<1> QED
  BY <1>7, <1>10, <1>11

(* A new entry at the end of the list. *)
LEMMA AppendEntry ==
  ASSUME NEW l \in Seq(Entries), NEW h \in [Requests -> Seq(Entries)], NEW a,
         NEW e \in Entries, e \notin a, Apart(l, h), All(l, h, a)
  PROVE  Apart(Append(l, e), h) /\ All(Append(l, e), h, a \cup {e})
<1> DEFINE m == Append(l, e)
           n == Len(l) + 1
<1>1. /\ DOMAIN m = 1 .. n /\ DOMAIN l = 1 .. Len(l) /\ Len(l) \in Nat
      /\ m[n] = e /\ \A i \in 1 .. Len(l) : m[i] = l[i]
  BY AppendProperties, LenProperties
<1>2. /\ \A i \in DOMAIN m : i = n \/ (i \in DOMAIN l /\ m[i] = l[i])
      /\ \A i \in DOMAIN l : i \in DOMAIN m /\ m[i] = l[i]
      /\ n \in DOMAIN m /\ m[n] = e
  <2> HIDE DEF m
  <2> QED
    BY <1>1
<1> HIDE DEF m, n
<1>3. \A x, i : At(x, m, i) <=> At(x, l, i) \/ (i = n /\ x = e)
  <2>1. ASSUME NEW x, NEW i
        PROVE  At(x, m, i) => At(x, l, i) \/ (i = n /\ x = e)
    BY <1>2 DEF At
  <2>2. ASSUME NEW x, NEW i
        PROVE  At(x, l, i) \/ (i = n /\ x = e) => At(x, m, i)
    BY <1>2 DEF At
  <2> QED
    BY <2>1, <2>2
<1>4. ~InList(e, l) /\ ~InHands(e, h)
  BY DEF All
<1>5. /\ \A i : ~At(e, l, i)
      /\ \A r \in Requests : \A i : ~At(e, h[r], i)
  BY <1>4, ListPlaces DEF InHands
<1>6. Apart(m, h)
  <2>1. /\ \A x, i, j : At(x, l, i) /\ At(x, l, j) => i = j
        /\ \A x, i, j : \A r, s \in Requests :
             At(x, h[r], i) /\ At(x, h[s], j) => r = s /\ i = j
        /\ \A x, i, j : \A r \in Requests : ~(At(x, l, i) /\ At(x, h[r], j))
    BY ApartPlaces
  <2>2. ASSUME NEW x, NEW i, NEW j, At(x, m, i), At(x, m, j)
        PROVE  i = j
    <3>1. CASE x = e
      <4>1. ~At(x, l, i) /\ ~At(x, l, j)
        BY <1>5, <3>1
      <4> QED
        BY <1>3, <2>2, <4>1
    <3>2. CASE x # e
      BY <1>3, <2>1, <2>2, <3>2
    <3> QED
      BY <3>1, <3>2
  <2>3. ASSUME NEW x, NEW i, NEW j, NEW r \in Requests, At(x, m, i), At(x, h[r], j)
        PROVE  FALSE
    <3>1. At(x, l, i) \/ x = e
      BY <1>3, <2>3
    <3>2. ~At(x, l, i)
      BY <2>1, <2>3
    <3>3. x # e
      BY <1>5, <2>3
    <3> QED
      BY <3>1, <3>2, <3>3
  <2> QED
    BY <2>1, <2>2, <2>3, ApartPlaces
<1>7. \A x : InList(x, m) <=> InList(x, l) \/ x = e
  BY <1>3, ListPlaces
<1>8. All(m, h, a \cup {e})
  BY <1>7 DEF All
<1> QED
  BY <1>6, <1>8 DEF m
(* A new entry in front of the list. *)
LEMMA PrependEntry ==
  ASSUME NEW l \in Seq(Entries), NEW h \in [Requests -> Seq(Entries)], NEW a,
         NEW e \in Entries, e \notin a, Apart(l, h), All(l, h, a)
  PROVE  Apart(<<e>> \o l, h) /\ All(<<e>> \o l, h, a \cup {e})
<1> DEFINE t == <<e>>
           whole == t \o l
<1>1. t \in Seq(Entries) /\ Len(t) = 1 /\ \A x, i : At(x, t, i) <=> i = 1 /\ x = e
  BY DEF At
<1> HIDE DEF t
<1>2. /\ \A x, i : At(x, t, i) => At(x, whole, i)
      /\ \A x, i : At(x, l, i) => At(x, whole, i + 1) /\ i \in Nat \ {0}
      /\ \A x, i : At(x, whole, i) => At(x, t, i) \/ (At(x, l, i - 1) /\ i \in Nat)
  BY <1>1, ConcatPlaces
<1> HIDE DEF whole
<1>3. ~InList(e, l) /\ ~InHands(e, h)
  BY DEF All
<1>4. /\ \A i : ~At(e, l, i)
      /\ \A r \in Requests : \A i : ~At(e, h[r], i)
  BY <1>3, ListPlaces DEF InHands
<1>5. /\ \A x, i, j : At(x, l, i) /\ At(x, l, j) => i = j
      /\ \A x, i, j : \A r, s \in Requests :
           At(x, h[r], i) /\ At(x, h[s], j) => r = s /\ i = j
      /\ \A x, i, j : \A r \in Requests : ~(At(x, l, i) /\ At(x, h[r], j))
  BY ApartPlaces
<1>6. ASSUME NEW x, NEW i, NEW j, At(x, whole, i), At(x, whole, j)
      PROVE  i = j
  <2>1. CASE x = e
    BY <1>1, <1>2, <1>4, <1>6, <2>1
  <2>2. CASE x # e
    <3>1. At(x, l, i - 1) /\ At(x, l, j - 1) /\ i \in Nat /\ j \in Nat
      BY <1>1, <1>2, <1>6, <2>2
    <3>2. i - 1 = j - 1
      BY <1>5, <3>1
    <3> QED
      BY <3>1, <3>2
  <2> QED
    BY <2>1, <2>2
<1>7. \A x, i, j : \A r \in Requests : ~(At(x, whole, i) /\ At(x, h[r], j))
  BY <1>1, <1>2, <1>4, <1>5
<1>8. Apart(whole, h)
  BY <1>5, <1>6, <1>7, ApartPlaces
<1>9. \A x : InList(x, whole) <=> InList(x, l) \/ x = e
  BY <1>1, <1>2, ListPlaces
<1>10. All(whole, h, a \cup {e})
  BY <1>9 DEF All
<1> QED
  BY <1>8, <1>10 DEF whole, t

(* LPOP 2 splits the list. *)
LEMMA TakenLeft ==
  ASSUME queue \in Seq(Entries)
  PROVE  queue = Taken \o Left
<1>1. /\ Taken \in Seq(Entries) /\ Left \in Seq(Entries) /\ Len(queue) \in Nat
      /\ \A i \in 1 .. Len(queue) : queue[i] \in Entries
  BY EntryTypes, LenProperties, ElementOfSeq
<1>2. CASE Len(queue) < 2
  <2>1. /\ Taken = SubSeq(queue, 1, Len(queue)) /\ Left = SubSeq(queue, 3, Len(queue))
    BY <1>2 DEF Taken, Left
  <2>2. /\ Len(SubSeq(queue, 1, Len(queue))) =
             IF 1 <= Len(queue) THEN Len(queue) - 1 + 1 ELSE 0
        /\ \A i \in 1 .. Len(queue) - 1 + 1 :
             SubSeq(queue, 1, Len(queue))[i] = queue[1 + i - 1]
        /\ Len(SubSeq(queue, 3, Len(queue))) =
             IF 3 <= Len(queue) THEN Len(queue) - 3 + 1 ELSE 0
    BY <1>1, SubSeqProperties
  <2>3. Len(Taken) = Len(queue) /\ Len(Left) = 0 /\ \A i \in 1 .. Len(queue) : Taken[i] = queue[i]
    BY <1>1, <1>2, <2>1, <2>2
  <2> QED
    BY <1>1, <2>3, ConcatProperties, SeqEqual
<1>3. CASE Len(queue) >= 2
  <2>1. /\ Taken = SubSeq(queue, 1, 2) /\ Left = SubSeq(queue, 3, Len(queue))
    BY <1>1, <1>3 DEF Taken, Left
  <2>2. /\ Len(SubSeq(queue, 1, 2)) = 2
        /\ \A i \in 1 .. 2 - 1 + 1 : SubSeq(queue, 1, 2)[i] = queue[1 + i - 1]
    <3>1. \A i \in 1 .. 2 : queue[i] \in Entries
      BY <1>1, <1>3
    <3>2. /\ Len(SubSeq(queue, 1, 2)) = IF 1 <= 2 THEN 2 - 1 + 1 ELSE 0
          /\ \A i \in 1 .. 2 - 1 + 1 : SubSeq(queue, 1, 2)[i] = queue[1 + i - 1]
      BY <3>1, SubSeqProperties
    <3> QED
      BY <3>2
  <2>3. /\ Len(SubSeq(queue, 3, Len(queue))) =
             IF 3 <= Len(queue) THEN Len(queue) - 3 + 1 ELSE 0
        /\ \A i \in 1 .. Len(queue) - 3 + 1 :
             SubSeq(queue, 3, Len(queue))[i] = queue[3 + i - 1]
    <3>1. \A i \in 3 .. Len(queue) : queue[i] \in Entries
      BY <1>1
    <3> QED
      BY <1>1, <3>1, SubSeqProperties
  <2>4. /\ Len(Taken) = 2 /\ Len(Left) = Len(queue) - 2
        /\ \A i \in 1 .. 2 : Taken[i] = queue[i]
        /\ \A i \in 1 .. Len(queue) - 2 : Left[i] = queue[i + 2]
    BY <1>1, <1>3, <2>1, <2>2, <2>3
  <2>5. /\ Taken \o Left \in Seq(Entries)
        /\ Len(Taken \o Left) = Len(Taken) + Len(Left)
        /\ \A i \in 1 .. Len(Taken) + Len(Left) :
             (Taken \o Left)[i] = IF i <= Len(Taken) THEN Taken[i] ELSE Left[i - Len(Taken)]
    BY <1>1, ConcatProperties
  <2> DEFINE n == Len(queue)
             whole == Taken \o Left
  <2>6. n \in Nat /\ n >= 2 /\ Len(whole) = n /\ whole \in Seq(Entries)
        /\ Len(Taken) + Len(Left) = n
    BY <1>1, <1>3, <2>4, <2>5
  <2>7. ASSUME NEW i \in 1 .. n
        PROVE  whole[i] = queue[i]
    <3>1. i \in Int /\ 1 <= i /\ i <= n
      BY <2>6, <2>7
    <3>2. whole[i] = IF i <= 2 THEN Taken[i] ELSE Left[i - 2]
      BY <2>4, <2>5, <2>6, <2>7
    <3>3. CASE i <= 2
      BY <2>4, <3>1, <3>2, <3>3
    <3>4. CASE ~(i <= 2)
      <4>1. i - 2 \in 1 .. n - 2 /\ (i - 2) + 2 = i
        BY <2>6, <3>1, <3>4
      <4>2. Left[i - 2] = queue[(i - 2) + 2]
        BY <2>4, <4>1
      <4> QED
        BY <3>2, <3>4, <4>1, <4>2
    <3> QED
      BY <3>3, <3>4
  <2> QED
    BY <2>6, <2>7, SeqEqual
<1> QED
  BY <1>1, <1>2, <1>3

-----------------------------------------------------------------------------
(* The entries of every step *)

LEMMA HeldTypes ==
  ASSUME TypeOK
  PROVE  /\ Held \in [Requests -> Seq(Entries)]
         /\ \A r \in Requests : Held[r] = IF match[r] = << >> THEN popped[r] ELSE match[r]
  BY DEF TypeOK, Held

(* A step that moves no entry. *)
LEMMA EntriesStay ==
  ASSUME TypeOK, EntriesInv, UNCHANGED <<queue, popped, match, arrived, dropped>>,
         unheard' \in {unheard, unheard + 1},
         \A r \in Requests : pc'[r] \in {"new", "pushing"} => pc'[r] = pc[r]
  PROVE  EntriesInv'
<1>1. Held' = Held
  BY DEF Held
<1>2. Recorded'
  <2>1. ASSUME NEW e \in arrived
        PROVE  e[2] <= unheard'
    <3>1. e \in Entries /\ e[2] <= unheard /\ unheard \in Nat
      BY DEF TypeOK, EntriesInv, Recorded
    <3>2. e[2] \in Nat
      BY <3>1 DEF Entries
    <3> QED
      BY <3>1, <3>2
  <2>2. \A r \in Requests : pc'[r] \in {"new", "pushing"} => <<r, 0>> \notin arrived
    BY DEF EntriesInv, Recorded
  <2> QED
    BY <2>1, <2>2 DEF EntriesInv, Recorded
<1> QED
  BY <1>1, <1>2 DEF EntriesInv, Apart, All, InList, InHands, At

(* A step that leaves what handlers hold to h, and the list and the        *)
(* history to what fits it.                                                *)
LEMMA EntriesFrom ==
  ASSUME NEW h, Held' = h, Apart(queue', h), All(queue', h, arrived' \ dropped'),
         Recorded'
  PROVE  EntriesInv'
<1>1. Apart(queue', Held') /\ All(queue', Held', arrived' \ dropped')
  OBVIOUS
<1>2. Apart(queue, Held)'
  BY <1>1 DEF Apart
<1>3. All(queue, Held, arrived \ dropped)'
  BY <1>1 DEF All, InList, InHands, At
<1> QED
  BY <1>2, <1>3 DEF EntriesInv

(* RPUSH: the entry that is answered, or one more copy of it.              *)
LEMMA EntriesPush ==
  ASSUME TicketInv, EntriesInv, NEW q \in Requests, Push(q) \/ PushUnheard(q)
  PROVE  EntriesInv'
<1>1. /\ TypeOK /\ Recorded /\ Apart(queue, Held) /\ All(queue, Held, arrived \ dropped)
      /\ queue \in Seq(Entries) /\ unheard \in Nat /\ arrived \subseteq Entries
  BY DEF TicketInv, EntriesInv, TypeOK
<1>2. PICK n \in Nat :
        /\ queue' = Append(queue, <<q, n>>) /\ arrived' = arrived \cup {<<q, n>>}
        /\ popped' = popped /\ match' = match /\ dropped' = dropped
        /\ \/ n = 0 /\ pc'[q] = "pushed" /\ unheard' = unheard
           \/ n = unheard + 1 /\ unheard' = unheard + 1 /\ pc'[q] = "pushing"
        /\ pc[q] \in {"new", "pushing"} /\ \A r \in Requests \ {q} : pc'[r] = pc[r]
  <2>1. CASE Push(q)
    BY <1>1, <2>1 DEF Push, Goto, TypeOK
  <2>2. CASE PushUnheard(q)
    <3>1. unheard' = unheard + 1 /\ unheard' \in Nat
      BY <1>1, <2>2 DEF PushUnheard, Unheard
    <3> QED
      BY <1>1, <2>2, <3>1 DEF PushUnheard, Goto, TypeOK
  <2> QED
    BY <2>1, <2>2
<1> DEFINE e == <<q, n>>
<1>3. e \in Entries /\ e[2] = n /\ e[1] = q
  BY DEF Entries
<1>4. e \notin arrived
  <2>1. CASE n = 0
    BY <1>1, <1>2, <2>1 DEF Recorded
  <2>2. CASE n = unheard + 1
    <3>1. ~(n <= unheard)
      BY <1>1, <2>2
    <3> QED
      BY <1>1, <1>3, <3>1 DEF Recorded
  <2> QED
    BY <1>2, <2>1, <2>2
<1>5. Recorded'
  <2>1. ASSUME NEW r \in Requests, pc'[r] \in {"new", "pushing"}
        PROVE  <<r, 0>> \notin arrived'
    <3>1. CASE r # q
      BY <1>1, <1>2, <2>1, <3>1 DEF Recorded
    <3>2. CASE r = q
      <4>1. n = unheard + 1
        BY <1>2, <2>1, <3>2
      <4>2. n # 0
        BY <1>1, <4>1
      <4> QED
        BY <1>1, <1>2, <3>2, <4>2 DEF Recorded
    <3> QED
      BY <3>1, <3>2
  <2>2. ASSUME NEW x \in arrived'
        PROVE  x[2] <= unheard'
    <3>1. CASE x \in arrived
      <4>1. x[2] \in Nat /\ x[2] <= unheard
        BY <1>1, <3>1 DEF Recorded, Entries
      <4> QED
        BY <1>1, <1>2, <4>1
    <3>2. CASE x = e
      BY <1>1, <1>2, <1>3, <3>2
    <3> QED
      BY <1>2, <2>2, <3>1, <3>2
  <2>3. dropped' \subseteq arrived'
    BY <1>1, <1>2 DEF Recorded
  <2> QED
    BY <2>1, <2>2, <2>3 DEF Recorded
<1> HIDE DEF e
<1>6. Apart(Append(queue, e), Held) /\ All(Append(queue, e), Held, (arrived \ dropped) \cup {e})
  BY <1>1, <1>3, <1>4, HeldTypes, AppendEntry
<1>7. /\ queue' = Append(queue, e) /\ Held' = Held
      /\ (arrived \ dropped) \cup {e} = arrived' \ dropped'
  <2>1. arrived' = arrived \cup {e} /\ e \notin dropped
    BY <1>1, <1>2, <1>4 DEF e, Recorded
  <2> QED
    BY <1>2, <2>1 DEF e, Held
<1> QED
  BY <1>5, <1>6, <1>7, EntriesFrom

(* LPOP: the handler takes the first two in its hands. *)
LEMMA EntriesPop ==
  ASSUME TicketInv, EntriesInv, NEW q \in Requests, Pop(q)
  PROVE  EntriesInv'
<1>1. /\ TypeOK /\ OneMatchEach /\ Recorded
      /\ Apart(queue, Held) /\ All(queue, Held, arrived \ dropped)
      /\ Taken \in Seq(Entries) /\ Left \in Seq(Entries) /\ queue = Taken \o Left
  BY EntryTypes, TakenLeft DEF TicketInv, EntriesInv, TypeOK
<1>2. /\ pc[q] = "popping" /\ popped[q] = << >> /\ match[q] = << >>
      /\ queue' = Left /\ popped' = [popped EXCEPT ![q] = Taken]
      /\ match' = match /\ arrived' = arrived /\ dropped' = dropped /\ unheard' = unheard
      /\ pc'[q] \in {"matching", "requeueing", "queued", "failed"}
      /\ \A r \in Requests \ {q} : pc'[r] = pc[r]
  BY <1>1 DEF Pop, Answer, Goto, TypeOK, OneMatchEach, Early
<1>3. Held[q] = << >> /\ Held' = [Held EXCEPT ![q] = Taken]
  BY <1>1, <1>2, HeldTypes DEF Held, TypeOK
<1>4. /\ Apart(Left, [Held EXCEPT ![q] = Taken])
      /\ All(Left, [Held EXCEPT ![q] = Taken], arrived \ dropped)
  BY <1>1, <1>3, HeldTypes, MoveEntries
<1>5. Recorded'
  BY <1>1, <1>2 DEF Recorded
<1> QED
  BY <1>2, <1>3, <1>4, <1>5, EntriesFrom

(* LPOP without an answer: nobody has the first two. *)
LEMMA EntriesPopUnheard ==
  ASSUME TicketInv, EntriesInv, NEW q \in Requests, PopUnheard(q)
  PROVE  EntriesInv'
<1>1. /\ TypeOK /\ Recorded /\ Apart(queue, Held) /\ All(queue, Held, arrived \ dropped)
      /\ Taken \in Seq(Entries) /\ Left \in Seq(Entries) /\ queue = Taken \o Left
      /\ unheard \in Nat /\ arrived \subseteq Entries
  BY EntryTypes, TakenLeft DEF TicketInv, EntriesInv, TypeOK
<1>2. /\ queue' = Left /\ dropped' = dropped \cup EntriesOf(Taken) /\ unheard' = unheard + 1
      /\ UNCHANGED <<pc, popped, match, arrived>>
  BY DEF PopUnheard, Unheard
<1>3. /\ EntriesOf(Taken) \subseteq arrived \ dropped
      /\ Apart(Left, Held) /\ All(Left, Held, (arrived \ dropped) \ EntriesOf(Taken))
  BY <1>1, DropEntries
<1>4. (arrived \ dropped) \ EntriesOf(Taken) = arrived' \ dropped' /\ Held' = Held
  BY <1>2 DEF Held
<1>5. Recorded'
  <2>1. ASSUME NEW e \in arrived
        PROVE  e[2] <= unheard'
    <3>1. e[2] \in Nat /\ e[2] <= unheard
      BY <1>1 DEF Recorded, Entries
    <3> QED
      BY <1>1, <1>2, <3>1
  <2> QED
    BY <1>1, <1>2, <1>3, <2>1 DEF Recorded
<1> QED
  BY <1>2, <1>3, <1>4, <1>5, EntriesFrom

(* LPUSH: what the handler holds is in front of the list again. *)
LEMMA EntriesRequeue ==
  ASSUME TicketInv, EntriesInv, NEW q \in Requests, Requeue(q)
  PROVE  EntriesInv'
<1>1. /\ TypeOK /\ OneMatchEach /\ Recorded
      /\ Apart(queue, Held) /\ All(queue, Held, arrived \ dropped)
      /\ queue \in Seq(Entries) /\ popped[q] \in Seq(Entries)
  BY DEF TicketInv, EntriesInv, TypeOK
<1>2. /\ pc[q] = "requeueing" /\ match[q] = << >>
      /\ queue' = popped[q] \o queue /\ popped' = [popped EXCEPT ![q] = << >>]
      /\ match' = match /\ arrived' = arrived /\ dropped' = dropped /\ unheard' = unheard
      /\ pc'[q] \in {"queued", "failed"} /\ \A r \in Requests \ {q} : pc'[r] = pc[r]
  BY <1>1 DEF Requeue, Answer, Goto, TypeOK, OneMatchEach, Early
<1> DEFINE h == [Held EXCEPT ![q] = << >>]
<1>3. /\ Held[q] = popped[q] /\ Held' = h /\ h[q] = << >>
      /\ h \in [Requests -> Seq(Entries)] /\ [h EXCEPT ![q] = popped[q]] = Held
  BY <1>1, <1>2, HeldTypes DEF Held, TypeOK
<1> HIDE DEF h
<1>4. Apart(popped[q] \o queue, h) /\ All(popped[q] \o queue, h, arrived \ dropped)
  BY <1>1, <1>3, MoveEntries
<1>5. Recorded'
  BY <1>1, <1>2 DEF Recorded
<1> QED
  BY <1>2, <1>3, <1>4, <1>5, EntriesFrom

(* LPUSH without an answer: a copy is in front of the list.                *)
LEMMA EntriesRequeueUnheard ==
  ASSUME TicketInv, EntriesInv, NEW q \in Requests, RequeueUnheard(q)
  PROVE  EntriesInv'
<1>1. /\ TypeOK /\ OneMatchEach /\ Recorded
      /\ Apart(queue, Held) /\ All(queue, Held, arrived \ dropped)
      /\ queue \in Seq(Entries) /\ unheard \in Nat /\ arrived \subseteq Entries
  BY DEF TicketInv, EntriesInv, TypeOK
<1> DEFINE copy == <<popped[q][1][1], unheard'>>
<1>2. /\ queue' = <<copy>> \o queue /\ arrived' = arrived \cup {copy}
      /\ unheard' = unheard + 1 /\ UNCHANGED <<pc, popped, match, dropped>>
      /\ pc[q] = "requeueing"
  BY DEF RequeueUnheard, Unheard
<1>3. copy \in Entries /\ copy[2] = unheard' /\ unheard' \in Nat
  BY <1>1, <1>2, HeldEntry DEF Entries
<1> HIDE DEF copy
<1>4. copy \notin arrived
  <2>1. ~(copy[2] <= unheard)
    BY <1>1, <1>2, <1>3
  <2> QED
    BY <1>1, <2>1 DEF Recorded
<1>5. Recorded'
  <2>1. ASSUME NEW e \in arrived'
        PROVE  e[2] <= unheard'
    <3>1. CASE e \in arrived
      <4>1. e[2] \in Nat /\ e[2] <= unheard
        BY <1>1, <3>1 DEF Recorded, Entries
      <4> QED
        BY <1>1, <1>2, <4>1
    <3>2. CASE e = copy
      BY <1>3, <3>2
    <3> QED
      BY <1>2, <2>1, <3>1, <3>2
  <2>2. ASSUME NEW r \in Requests, pc'[r] \in {"new", "pushing"}
        PROVE  <<r, 0>> \notin arrived'
    <3>1. <<r, 0>> # copy
      <4>1. copy[2] # 0
        BY <1>1, <1>2, <1>3
      <4>2. <<r, 0>>[2] = 0
        OBVIOUS
      <4> QED
        BY <4>1, <4>2
    <3> QED
      BY <1>1, <1>2, <2>2, <3>1 DEF Recorded
  <2>3. dropped' \subseteq arrived'
    BY <1>1, <1>2 DEF Recorded
  <2> QED
    BY <2>1, <2>2, <2>3 DEF Recorded
<1>6. /\ Apart(<<copy>> \o queue, Held)
      /\ All(<<copy>> \o queue, Held, (arrived \ dropped) \cup {copy})
  BY <1>1, <1>3, <1>4, HeldTypes, PrependEntry
<1>7. (arrived \ dropped) \cup {copy} = arrived' \ dropped' /\ Held' = Held
  <2>1. copy \notin dropped
    BY <1>1, <1>4 DEF Recorded
  <2> QED
    BY <1>2, <2>1 DEF Held
<1> QED
  BY <1>2, <1>5, <1>6, <1>7, EntriesFrom

(* The pair a handler popped becomes its match.                            *)
LEMMA EntriesMatched ==
  ASSUME TicketInv, EntriesInv, NEW q \in Requests, CreateMatch(q)
  PROVE  EntriesInv'
<1>1. /\ TypeOK /\ OneMatchEach /\ Recorded
      /\ Apart(queue, Held) /\ All(queue, Held, arrived \ dropped)
      /\ popped[q] \in Seq(Entries)
  BY DEF TicketInv, EntriesInv, TypeOK
<1>2. /\ pc[q] = "matching" /\ match[q] = << >> /\ Len(popped[q]) = 2
      /\ match' = [match EXCEPT ![q] = popped[q]] /\ popped' = [popped EXCEPT ![q] = << >>]
      /\ queue' = queue /\ arrived' = arrived /\ dropped' = dropped /\ unheard' = unheard
      /\ pc'[q] = "storing" /\ \A r \in Requests \ {q} : pc'[r] = pc[r]
  BY <1>1 DEF CreateMatch, Goto, TypeOK, OneMatchEach, Early
<1>3. Len(<< >>) = 0 /\ popped[q] # << >>
  BY <1>2, EmptySeq
<1>4. /\ match'[q] = popped[q] /\ popped'[q] = << >>
      /\ \A r \in Requests \ {q} : match'[r] = match[r] /\ popped'[r] = popped[r]
  BY <1>1, <1>2 DEF TypeOK
<1>5. Held' = Held
  BY <1>2, <1>3, <1>4 DEF Held
<1>6. Recorded'
  BY <1>1, <1>2 DEF Recorded
<1> QED
  BY <1>1, <1>2, <1>5, <1>6, EntriesFrom

(* A handler ends with an error: what it popped is dropped. *)
LEMMA EntriesEnd ==
  ASSUME TicketInv, EntriesInv, NEW q \in Requests, Ends(q)
  PROVE  EntriesInv'
<1>1. /\ TypeOK /\ OneMatchEach /\ Recorded
      /\ Apart(queue, Held) /\ All(queue, Held, arrived \ dropped)
      /\ queue \in Seq(Entries) /\ popped[q] \in Seq(Entries)
      /\ << >> \in Seq(Entries) /\ EntriesOf(<< >>) = {}
  BY DEF TicketInv, EntriesInv, TypeOK, EntriesOf
<1>2. /\ popped' = [popped EXCEPT ![q] = << >>]
      /\ dropped' = dropped \cup EntriesOf(popped[q])
      /\ UNCHANGED <<queue, match, arrived, unheard>>
      /\ pc'[q] = "failed" /\ \A r \in Requests \ {q} : pc'[r] = pc[r]
  BY <1>1 DEF Ends, RefuseSelfMatch, Fail, Drop, Goto, TypeOK
<1>3. CASE popped[q] = << >>
  <2>1. popped' = popped /\ dropped' = dropped
    BY <1>1, <1>2, <1>3 DEF TypeOK
  <2> QED
    BY <1>2, <2>1, EntriesStay, <1>1
<1>4. CASE popped[q] # << >>
  <2>1. match[q] = << >>
    BY <1>1, <1>4 DEF OneMatchEach, Early
  <2> DEFINE h == [Held EXCEPT ![q] = << >>]
  <2>2. /\ Held[q] = popped[q] /\ Held' = h /\ h[q] = << >>
        /\ h \in [Requests -> Seq(Entries)] /\ [h EXCEPT ![q] = popped[q]] = Held
    BY <1>1, <1>2, <2>1, HeldTypes DEF Held, TypeOK
  <2> HIDE DEF h
  <2>3. Apart(popped[q] \o queue, h) /\ All(popped[q] \o queue, h, arrived \ dropped)
    BY <1>1, <2>2, MoveEntries
  <2>4. /\ EntriesOf(popped[q]) \subseteq arrived \ dropped
        /\ Apart(queue, h) /\ All(queue, h, (arrived \ dropped) \ EntriesOf(popped[q]))
    BY <1>1, <2>3, DropEntries
  <2>5. (arrived \ dropped) \ EntriesOf(popped[q]) = arrived' \ dropped'
    BY <1>2
  <2>6. Recorded'
    BY <1>1, <1>2, <2>4 DEF Recorded
  <2> QED
    BY <1>2, <2>2, <2>4, <2>5, <2>6, EntriesFrom
<1> QED
  BY <1>3, <1>4

LEMMA EntriesInit == Init => EntriesInv
<1> SUFFICES ASSUME Init PROVE EntriesInv
  OBVIOUS
<1>1. /\ queue = << >> /\ arrived = {} /\ dropped = {} /\ DOMAIN << >> = {}
      /\ \A r \in Requests : popped[r] = << >> /\ match[r] = << >>
  BY EmptySeq DEF Init
<1>2. \A r \in Requests : Held[r] = << >>
  BY <1>1 DEF Held
<1>3. Apart(queue, Held) /\ All(queue, Held, arrived \ dropped)
  BY <1>1, <1>2 DEF Apart, All, InList, InHands
<1>4. Recorded
  BY <1>1 DEF Recorded
<1> QED
  BY <1>3, <1>4 DEF EntriesInv

LEMMA EntriesStep ==
  ASSUME TicketInv, EntriesInv, [Next]_vars
  PROVE  EntriesInv'
<1>1. TypeOK /\ pc \in [Requests -> Places \cup Answers]
  BY DEF TicketInv, TypeOK
<1>2. ASSUME NEW q \in Requests,
             Count(q) \/ StoreTicket(q) \/ StoreUnheard(q) \/ GrowOld(q)
      PROVE  EntriesInv'
  <2>1. /\ UNCHANGED <<queue, popped, match, arrived, dropped>>
        /\ unheard' \in {unheard, unheard + 1}
    BY <1>2 DEF Count, StoreTicket, StoreUnheard, Unheard, GrowOld, requestVars
  <2>2. \/ pc' = pc
        \/ \E p \in {"queued", "popping", "matched"} : pc' = [pc EXCEPT ![q] = p]
    BY <1>2 DEF Count, StoreTicket, StoreUnheard, GrowOld, requestVars, Goto
  <2>3. \A r \in Requests : pc'[r] \in {"new", "pushing"} => pc'[r] = pc[r]
    BY <1>1, <2>2
  <2> QED
    BY <1>1, <2>1, <2>3, EntriesStay
<1>3. ASSUME NEW u \in Users,
             \/ ReadTicket(u) \/ DeleteTicket(u) \/ DeleteUnheard(u) \/ FailRead(u)
             \/ ExpireTicket(u)
      PROVE  EntriesInv'
  <2>1. /\ UNCHANGED <<queue, pc, popped, match, arrived, dropped>>
        /\ unheard' \in {unheard, unheard + 1}
    BY <1>3 DEF ReadTicket, DeleteTicket, DeleteUnheard, Unheard, FailRead, ExpireTicket,
                requestVars
  <2> QED
    BY <1>1, <2>1, EntriesStay
<1>4. CASE UNCHANGED vars
  <2>1. UNCHANGED <<queue, pc, popped, match, arrived, dropped, unheard>>
    BY <1>4 DEF vars, requestVars
  <2> QED
    BY <1>1, <2>1, EntriesStay
<1> QED
  BY <1>2, <1>3, <1>4, EntriesPush, EntriesPop, EntriesPopUnheard, EntriesRequeue,
     EntriesRequeueUnheard, EntriesMatched, EntriesEnd DEF Next, Ends

-----------------------------------------------------------------------------
(* The theorems *)

(* Through every interleaving of POST /request handlers, commands that     *)
(* fail and commands that are sent again: an entry of the list that no     *)
(* failure dropped is in the list, with one handler that has yet to use    *)
(* it, or in one match, and in one position there.                         *)
THEOREM EntriesKept == Spec => []EntriesConserved
<1>1. TicketInv /\ EntriesInv /\ [Next]_vars => EntriesInv'
  BY EntriesStep
<1>2. ASSUME TicketInv, EntriesInv
      PROVE  EntriesConserved
  <2>1. /\ TypeOK /\ OneMatchEach /\ arrived \subseteq Entries
        /\ Apart(queue, Held) /\ All(queue, Held, arrived \ dropped)
    BY <1>2 DEF TicketInv, EntriesInv, TypeOK
  <2>2. /\ \A x, i, j : At(x, queue, i) /\ At(x, queue, j) => i = j
        /\ \A x, i, j : \A r, s \in Requests :
             At(x, Held[r], i) /\ At(x, Held[s], j) => r = s /\ i = j
        /\ \A x, i, j : \A r \in Requests : ~(At(x, queue, i) /\ At(x, Held[r], j))
    BY <2>1, ApartPlaces
  <2>3. ASSUME NEW r \in Requests
        PROVE  /\ \A x, i : At(x, Held[r], i) <=> At(x, popped[r], i) \/ At(x, match[r], i)
               /\ \A x, i : At(x, Held[r], i) => i \in {1, 2}
    <3>1. \A x, i : ~At(x, << >>, i)
      BY DEF At
    <3>2. /\ Held[r] = IF match[r] = << >> THEN popped[r] ELSE match[r]
          /\ match[r] # << >> => popped[r] = << >>
      BY <2>1, HeldTypes DEF OneMatchEach, Early
    <3>3. /\ DOMAIN Held[r] = 1 .. Len(Held[r]) /\ Len(Held[r]) \in Nat
          /\ Len(Held[r]) <= 2
      <4>1. Held[r] \in Seq(Entries)
        BY <2>1, HeldTypes
      <4>2. Len(popped[r]) \in {0, 1, 2} /\ (match[r] # << >> => Len(match[r]) = 2)
        <5>1. Len(<< >>) = 0
          BY EmptySeq
        <5> QED
          BY <2>1, <5>1 DEF OneMatchEach
      <4>3. Len(Held[r]) <= 2
        <5>1. CASE match[r] = << >>
          <6>1. Len(Held[r]) = Len(popped[r])
            BY <3>2, <5>1, Zenon
          <6>2. \A n \in {0, 1, 2} : n <= 2
            OBVIOUS
          <6> QED
            BY <4>2, <6>1, <6>2, Zenon
        <5>2. CASE match[r] # << >>
          <6>1. Held[r] = match[r] /\ Len(match[r]) = 2
            BY <3>2, <4>2, <5>2, Zenon
          <6>2. Len(Held[r]) = 2
            BY <6>1, Zenon
          <6> QED
            BY <6>2
        <5> QED
          BY <5>1, <5>2
      <4> QED
        BY <4>1, <4>3, LenProperties
    <3>4. \A x, i : At(x, Held[r], i) <=> At(x, popped[r], i) \/ At(x, match[r], i)
      BY <3>1, <3>2
    <3>5. \A x, i : At(x, Held[r], i) => i \in {1, 2}
      BY <3>3 DEF At
    <3> QED
      BY <3>4, <3>5
  <2>4. ASSUME NEW e \in arrived
        PROVE  LET spots == {<<"queue", i>> : i \in {j \in DOMAIN queue : queue[j] = e}}
                     \cup {spot \in Requests \X {1, 2} :
                             \E entries \in {popped[spot[1]], match[spot[1]]} :
                               spot[2] \in DOMAIN entries /\ entries[spot[2]] = e}
               IN Cardinality(spots) = IF e \in dropped THEN 0 ELSE 1
    <3> DEFINE inList == {<<"queue", i>> : i \in {j \in DOMAIN queue : queue[j] = e}}
               inHands == {spot \in Requests \X {1, 2} :
                             \E entries \in {popped[spot[1]], match[spot[1]]} :
                               spot[2] \in DOMAIN entries /\ entries[spot[2]] = e}
    <3>1. \A spot : spot \in inList <=> \E i : At(e, queue, i) /\ spot = <<"queue", i>>
      BY DEF At
    <3>2. \A spot : spot \in inHands <=>
            \E r \in Requests, i \in {1, 2} : At(e, Held[r], i) /\ spot = <<r, i>>
      <4>1. \A r \in Requests, i \in {1, 2} : <<r, i>> \in inHands <=> At(e, Held[r], i)
        BY <2>3 DEF At
      <4>2. \A spot \in inHands : \E r \in Requests, i \in {1, 2} : spot = <<r, i>>
        OBVIOUS
      <4> HIDE DEF inHands
      <4> QED
        BY <4>1, <4>2
    <3>3. e \notin dropped <=> \/ \E i : At(e, queue, i)
                               \/ \E r \in Requests : \E i : At(e, Held[r], i)
      BY <2>1, <2>4, ListPlaces DEF All, InHands
    <3> HIDE DEF inList, inHands
    <3>4. CASE e \in dropped
      <4>1. inList \cup inHands = {}
        BY <3>1, <3>2, <3>3, <3>4
      <4> QED
        BY <3>4, <4>1, FS_EmptySet DEF inList, inHands
    <3>5. CASE e \notin dropped /\ \E i : At(e, queue, i)
      <4>1. PICK i : At(e, queue, i)
        BY <3>5
      <4>2. \A spot : spot \in inList <=> spot = <<"queue", i>>
        BY <2>2, <3>1, <4>1
      <4>3. \A spot : spot \notin inHands
        BY <2>2, <3>2, <4>1
      <4>4. inList \cup inHands = {<<"queue", i>>}
        BY <4>2, <4>3
      <4> QED
        BY <3>5, <4>4, FS_Singleton DEF inList, inHands
    <3>6. CASE e \notin dropped /\ \E r \in Requests : \E i : At(e, Held[r], i)
      <4>1. PICK r \in Requests : \E i : At(e, Held[r], i)
        BY <3>6
      <4>2. PICK i : At(e, Held[r], i)
        BY <4>1
      <4>3. i \in {1, 2}
        BY <2>3, <4>2
      <4>4. inList = {}
        BY <2>2, <3>1, <4>2
      <4>5. ASSUME NEW spot
            PROVE  spot \in inHands <=> spot = <<r, i>>
        <5>1. <<r, i>> \in inHands
          BY <3>2, <4>2, <4>3
        <5>2. ASSUME spot \in inHands
              PROVE  spot = <<r, i>>
          <6>1. PICK s \in Requests, j \in {1, 2} : At(e, Held[s], j) /\ spot = <<s, j>>
            BY <3>2, <5>2
          <6>2. s = r /\ j = i
            BY <2>2, <4>2, <6>1
          <6> QED
            BY <6>1, <6>2
        <5> QED
          BY <5>1, <5>2
      <4>6. inList \cup inHands = {<<r, i>>}
        BY <4>4, <4>5
      <4> QED
        BY <3>6, <4>6, FS_Singleton DEF inList, inHands
    <3> QED
      BY <3>3, <3>4, <3>5, <3>6
  <2> QED
    BY <2>4 DEF EntriesConserved
<1> QED
  BY <1>1, <1>2, EntriesInit, TicketInvariant, PTL DEF Spec

-----------------------------------------------------------------------------
(* What failures cost *)

(* Every loss is paid for by a request that was answered with an error, or *)
(* by a lost answer that made no copy.                                     *)
LossInv ==
  /\ IsFiniteSet(dropped) /\ IsFiniteSet(Copies) /\ IsFiniteSet(Failed)
  /\ Cardinality(dropped) + 2 * Cardinality(Copies) <= 2 * (Cardinality(Failed) + unheard)

(* A list of two entries at most has two at most. *)
LEMMA FewEntries ==
  ASSUME NEW l \in Seq(Entries), Len(l) \in {0, 1, 2}
  PROVE  IsFiniteSet(EntriesOf(l)) /\ Cardinality(EntriesOf(l)) \in {0, 1, 2}
<1>1. DOMAIN l = 1 .. Len(l)
  BY LenProperties
<1>2. CASE Len(l) = 0
  <2>1. EntriesOf(l) = {}
    BY <1>1, <1>2 DEF EntriesOf
  <2> QED
    BY <2>1, FS_EmptySet
<1>3. CASE Len(l) = 1
  <2>1. EntriesOf(l) = {l[1]}
    BY <1>1, <1>3 DEF EntriesOf
  <2> QED
    BY <2>1, FS_Singleton
<1>4. CASE Len(l) = 2
  <2>1. EntriesOf(l) = {l[1]} \cup {l[2]}
    BY <1>1, <1>4 DEF EntriesOf
  <2>2. /\ IsFiniteSet({l[1]}) /\ Cardinality({l[1]}) = 1
    BY FS_Singleton
  <2>3. /\ IsFiniteSet({l[1]} \cup {l[2]})
        /\ Cardinality({l[1]} \cup {l[2]}) =
             IF l[2] \in {l[1]} THEN Cardinality({l[1]}) ELSE Cardinality({l[1]}) + 1
    BY <2>2, FS_AddElement
  <2> QED
    BY <2>1, <2>2, <2>3
<1> QED
  BY <1>2, <1>3, <1>4

(* A set that grows by d elements at most. *)
LEMMA GrowsBy ==
  ASSUME NEW S, NEW T, IsFiniteSet(S), IsFiniteSet(T)
  PROVE  /\ IsFiniteSet(S \cup T) /\ Cardinality(S) \in Nat /\ Cardinality(S \cup T) \in Nat
         /\ Cardinality(S \cup T) <= Cardinality(S) + Cardinality(T)
         /\ Cardinality(T) \in Nat
<1>1. /\ IsFiniteSet(S \cup T) /\ IsFiniteSet(S \cap T)
      /\ Cardinality(S \cup T) = Cardinality(S) + Cardinality(T) - Cardinality(S \cap T)
  BY FS_Union, FS_Intersection
<1>2. /\ Cardinality(S) \in Nat /\ Cardinality(T) \in Nat
      /\ Cardinality(S \cup T) \in Nat /\ Cardinality(S \cap T) \in Nat
  BY <1>1, FS_CardinalityType
<1> QED
  BY <1>1, <1>2

LEMMA LossSum ==
  ASSUME NEW d \in Nat, NEW c \in Nat, NEW f \in Nat, NEW u \in Nat,
         NEW dNew \in Nat, NEW cNew \in Nat, NEW fMore \in Nat, NEW uNew \in Nat,
         NEW dMore \in Nat, NEW cMore \in Nat,
         d + 2 * c <= 2 * (f + u),
         dNew <= d + dMore, cNew <= c + cMore,
         dMore + 2 * cMore <= 2 * (fMore + (uNew - u))
  PROVE  dNew + 2 * cNew <= 2 * ((f + fMore) + uNew)
  OBVIOUS

(* A step drops at most two entries, and if any, or if it makes a copy, a  *)
(* request fails or an answer is lost.                                     *)
LEMMA LossFrom ==
  ASSUME LossInv, unheard \in Nat, unheard' \in Nat,
         NEW D, IsFiniteSet(D), Cardinality(D) \in {0, 1, 2}, dropped' = dropped \cup D,
         NEW C, IsFiniteSet(C), Cardinality(C) \in {0, 1}, Copies' = Copies \cup C,
         NEW F, IsFiniteSet(F), Failed' = Failed \cup F, F \cap Failed = {},
         Cardinality(D) + 2 * Cardinality(C) <= 2 * (Cardinality(F) + (unheard' - unheard))
  PROVE  LossInv'
<1>1. /\ IsFiniteSet(dropped \cup D) /\ IsFiniteSet(Copies \cup C) /\ IsFiniteSet(Failed \cup F)
      /\ Cardinality(dropped \cup D) <= Cardinality(dropped) + Cardinality(D)
      /\ Cardinality(Copies \cup C) <= Cardinality(Copies) + Cardinality(C)
      /\ Cardinality(dropped) \in Nat /\ Cardinality(dropped \cup D) \in Nat
      /\ Cardinality(Copies) \in Nat /\ Cardinality(Copies \cup C) \in Nat
      /\ Cardinality(Failed) \in Nat /\ Cardinality(F) \in Nat
  BY GrowsBy DEF LossInv
<1>2. Cardinality(Failed \cup F) = Cardinality(Failed) + Cardinality(F)
  <2>1. Cardinality(Failed \cap F) = 0
    BY FS_EmptySet
  <2>2. Cardinality(Failed \cup F) =
          Cardinality(Failed) + Cardinality(F) - Cardinality(Failed \cap F)
    BY FS_Union DEF LossInv
  <2> QED
    BY <1>1, <2>1, <2>2
<1>3. /\ Cardinality(D) \in Nat /\ Cardinality(C) \in Nat
      /\ Cardinality(dropped) + 2 * Cardinality(Copies) <= 2 * (Cardinality(Failed) + unheard)
  BY DEF LossInv
<1>4. Cardinality(dropped \cup D) + 2 * Cardinality(Copies \cup C) <=
        2 * ((Cardinality(Failed) + Cardinality(F)) + unheard')
  BY <1>1, <1>3, LossSum
<1> QED
  BY <1>1, <1>2, <1>4 DEF LossInv

(* A step that drops nothing and makes no copy. *)
LEMMA LossStays ==
  ASSUME TypeOK, LossInv, UNCHANGED <<dropped, Copies, Failed>>,
         unheard' \in {unheard, unheard + 1}
  PROVE  LossInv'
<1>1. unheard \in Nat /\ unheard' \in Nat /\ 0 <= unheard' - unheard
  <2>1. unheard \in Nat
    BY DEF TypeOK
  <2>2. CASE unheard' = unheard
    BY <2>1, <2>2
  <2>3. CASE unheard' = unheard + 1
    BY <2>1, <2>3
  <2> QED
    BY <2>2, <2>3
<1>2. IsFiniteSet({}) /\ Cardinality({}) = 0 /\ 0 \in Nat
  BY FS_EmptySet
<1>3. Cardinality({}) + 2 * Cardinality({}) <= 2 * (Cardinality({}) + (unheard' - unheard))
  BY <1>1, <1>2
<1>4. dropped' = dropped \cup {} /\ Copies' = Copies \cup {} /\ Failed' = Failed \cup {}
  OBVIOUS
<1> QED
  BY <1>1, <1>2, <1>3, <1>4, LossFrom

(* An answer is lost, over which two entries are dropped at most, or one   *)
(* copy is made. *)
LEMMA LossUnheard ==
  ASSUME TypeOK, LossInv, unheard' = unheard + 1, Failed' = Failed,
         NEW D, IsFiniteSet(D), Cardinality(D) \in {0, 1, 2}, dropped' = dropped \cup D,
         NEW C, IsFiniteSet(C), Cardinality(C) \in {0, 1}, Copies' = Copies \cup C,
         D = {} \/ C = {}
  PROVE  LossInv'
<1>1. unheard \in Nat /\ unheard' \in Nat /\ unheard' - unheard = 1
  BY DEF TypeOK
<1>2. IsFiniteSet({}) /\ Cardinality({}) = 0
  BY FS_EmptySet
<1>3. Cardinality(D) + 2 * Cardinality(C) <= 2 * (Cardinality({}) + (unheard' - unheard))
  <2>1. CASE D = {}
    BY <1>1, <1>2, <2>1
  <2>2. CASE C = {}
    BY <1>1, <1>2, <2>2
  <2> QED
    BY <2>1, <2>2
<1>4. Failed' = Failed \cup {} /\ {} \cap Failed = {}
  OBVIOUS
<1> QED
  BY <1>1, <1>2, <1>3, <1>4, LossFrom

(* A request is answered with an error; two entries are dropped at most.   *)
LEMMA LossFailed ==
  ASSUME TypeOK, LossInv, unheard' = unheard, Copies' = Copies,
         NEW q \in Requests, pc[q] # "failed", Failed' = Failed \cup {q},
         NEW D, IsFiniteSet(D), Cardinality(D) \in {0, 1, 2}, dropped' = dropped \cup D
  PROVE  LossInv'
<1>1. unheard \in Nat /\ unheard' \in Nat /\ unheard' - unheard = 0
  BY DEF TypeOK
<1>2. /\ IsFiniteSet({}) /\ Cardinality({}) = 0
      /\ IsFiniteSet({q}) /\ Cardinality({q}) = 1
  BY FS_EmptySet, FS_Singleton
<1>3. Cardinality(D) + 2 * Cardinality({}) <= 2 * (Cardinality({q}) + (unheard' - unheard))
  BY <1>1, <1>2
<1>4. {q} \cap Failed = {} /\ Copies' = Copies \cup {}
  BY DEF Failed
<1> QED
  BY <1>1, <1>2, <1>3, <1>4, LossFrom

LEMMA LossInit == Init => LossInv
<1> SUFFICES ASSUME Init PROVE LossInv
  OBVIOUS
<1>1. dropped = {} /\ Copies = {} /\ Failed = {} /\ unheard = 0
  BY DEF Init, Copies, Failed
<1> QED
  BY <1>1, FS_EmptySet DEF LossInv

LEMMA LossStep ==
  ASSUME TicketInv, LossInv, [Next]_vars
  PROVE  LossInv'
<1>1. /\ TypeOK /\ OneMatchEach /\ pc \in [Requests -> Places \cup Answers]
      /\ Taken \in Seq(Entries) /\ Len(Taken) \in {0, 1, 2} /\ unheard \in Nat
  BY EntryTypes DEF TicketInv, TypeOK
<1>2. ASSUME NEW q \in Requests, Push(q)
      PROVE  LossInv'
  <2>1. /\ arrived' = arrived \cup {<<q, 0>>} /\ UNCHANGED <<dropped, unheard>>
        /\ pc' = [pc EXCEPT ![q] = "pushed"] /\ pc[q] # "failed"
    BY <1>2 DEF Push, Goto
  <2>2. Copies' = Copies /\ Failed' = Failed
    BY <1>1, <2>1 DEF Copies, Failed
  <2> QED
    BY <1>1, <2>1, <2>2, LossStays
<1>3. ASSUME NEW q \in Requests, PushUnheard(q) \/ RequeueUnheard(q)
      PROVE  LossInv'
  <2>1. PICK r : /\ arrived' = arrived \cup {<<r, unheard'>>} /\ dropped' = dropped
                 /\ unheard' = unheard + 1
                 /\ pc' = pc \/ (pc' = [pc EXCEPT ![q] = "pushing"] /\ pc[q] # "failed")
    BY <1>3 DEF PushUnheard, RequeueUnheard, Unheard, Goto
  <2>2. unheard' # 0
    BY <1>1, <2>1
  <2>3. Copies' = Copies \cup {<<r, unheard'>>}
    BY <2>1, <2>2 DEF Copies
  <2>4. Failed' = Failed
    BY <1>1, <2>1 DEF Failed
  <2>5. /\ IsFiniteSet({}) /\ Cardinality({}) = 0
        /\ IsFiniteSet({<<r, unheard'>>}) /\ Cardinality({<<r, unheard'>>}) = 1
    BY FS_EmptySet, FS_Singleton
  <2>6. dropped' = dropped \cup {}
    BY <2>1
  <2> QED
    BY <1>1, <2>1, <2>3, <2>4, <2>5, <2>6, LossUnheard
<1>4. ASSUME NEW q \in Requests, PopUnheard(q)
      PROVE  LossInv'
  <2>1. /\ dropped' = dropped \cup EntriesOf(Taken) /\ unheard' = unheard + 1
        /\ UNCHANGED <<pc, arrived>>
    BY <1>4 DEF PopUnheard, Unheard
  <2>2. /\ Copies' = Copies \cup {} /\ Failed' = Failed
        /\ IsFiniteSet({}) /\ Cardinality({}) = 0
    BY <2>1, FS_EmptySet DEF Copies, Failed
  <2>3. /\ IsFiniteSet(EntriesOf(Taken)) /\ Cardinality(EntriesOf(Taken)) \in {0, 1, 2}
    BY <1>1, FewEntries
  <2> QED
    BY <1>1, <2>1, <2>2, <2>3, LossUnheard
<1>5. ASSUME NEW q \in Requests, Ends(q)
      PROVE  LossInv'
  <2>1. /\ dropped' = dropped \cup EntriesOf(popped[q]) /\ UNCHANGED <<arrived, unheard>>
        /\ pc' = [pc EXCEPT ![q] = "failed"] /\ pc[q] # "failed"
    BY <1>5 DEF Ends, RefuseSelfMatch, Fail, Drop, Goto, Places
  <2>2. Copies' = Copies /\ Failed' = Failed \cup {q}
    BY <1>1, <2>1 DEF Copies, Failed
  <2>3. popped[q] \in Seq(Entries) /\ Len(popped[q]) \in {0, 1, 2}
    <3>1. Len(<< >>) = 0
      BY EmptySeq
    <3> QED
      BY <1>1, <3>1 DEF TypeOK, OneMatchEach
  <2>4. IsFiniteSet(EntriesOf(popped[q])) /\ Cardinality(EntriesOf(popped[q])) \in {0, 1, 2}
    BY <2>3, FewEntries
  <2> QED
    BY <1>1, <2>1, <2>2, <2>4, LossFailed
<1>6. ASSUME NEW q \in Requests, Pop(q) \/ Requeue(q)
      PROVE  LossInv'
  <2>1. /\ UNCHANGED <<arrived, dropped, unheard>> /\ pc[q] # "failed"
        /\ \/ \E p : pc' = [pc EXCEPT ![q] = p] /\ p # "failed"
           \/ pc' = [pc EXCEPT ![q] = "failed"]
    BY <1>6 DEF Pop, Requeue, Answer, Goto
  <2>2. CASE \E p : pc' = [pc EXCEPT ![q] = p] /\ p # "failed"
    <3>1. Copies' = Copies /\ Failed' = Failed
      BY <1>1, <2>1, <2>2 DEF Copies, Failed
    <3> QED
      BY <1>1, <2>1, <3>1, LossStays
  <2>3. CASE pc' = [pc EXCEPT ![q] = "failed"]
    <3>1. Copies' = Copies /\ Failed' = Failed \cup {q}
      BY <1>1, <2>1, <2>3 DEF Copies, Failed
    <3>2. dropped' = dropped \cup {} /\ IsFiniteSet({}) /\ Cardinality({}) = 0
      BY <2>1, FS_EmptySet
    <3> QED
      BY <1>1, <2>1, <3>1, <3>2, LossFailed
  <2> QED
    BY <2>1, <2>2, <2>3
<1>7. ASSUME NEW q \in Requests,
             \/ Count(q) \/ CreateMatch(q) \/ StoreTicket(q) \/ StoreUnheard(q)
             \/ GrowOld(q)
      PROVE  LossInv'
  <2>1. /\ UNCHANGED <<arrived, dropped>> /\ unheard' \in {unheard, unheard + 1}
        /\ \/ pc' = pc
           \/ \E p : pc' = [pc EXCEPT ![q] = p] /\ p # "failed" /\ pc[q] # "failed"
    BY <1>7 DEF Count, CreateMatch, StoreTicket, StoreUnheard, Unheard, GrowOld,
                requestVars, Goto
  <2>2. Copies' = Copies /\ Failed' = Failed
    BY <1>1, <2>1 DEF Copies, Failed
  <2> QED
    BY <1>1, <2>1, <2>2, LossStays
<1>8. ASSUME NEW u \in Users,
             \/ ReadTicket(u) \/ DeleteTicket(u) \/ DeleteUnheard(u) \/ FailRead(u)
             \/ ExpireTicket(u)
      PROVE  LossInv'
  <2>1. UNCHANGED <<pc, arrived, dropped>> /\ unheard' \in {unheard, unheard + 1}
    BY <1>8 DEF ReadTicket, DeleteTicket, DeleteUnheard, Unheard, FailRead, ExpireTicket,
                requestVars
  <2>2. Copies' = Copies /\ Failed' = Failed
    BY <2>1 DEF Copies, Failed
  <2> QED
    BY <1>1, <2>1, <2>2, LossStays
<1>9. CASE UNCHANGED vars
  <2>1. UNCHANGED <<pc, arrived, dropped, unheard>>
    BY <1>9 DEF vars, requestVars
  <2>2. Copies' = Copies /\ Failed' = Failed
    BY <2>1 DEF Copies, Failed
  <2> QED
    BY <1>1, <2>1, <2>2, LossStays
<1> QED
  BY <1>2, <1>3, <1>4, <1>5, <1>6, <1>7, <1>8, <1>9 DEF Next, Ends

(* However POST /request handlers, failures and resends interleave, the    *)
(* entries nobody will pair any more are at most two for each request that *)
(* was answered with an error and each lost answer that made no copy.      *)
THEOREM LossesBounded == Spec => []LossesHaveFailures
<1>1. TicketInv /\ LossInv /\ [Next]_vars => LossInv'
  BY LossStep
<1>2. ASSUME TicketInv, LossInv
      PROVE  LossesHaveFailures
  <2>1. /\ Cardinality(dropped) \in Nat /\ Cardinality(Copies) \in Nat
        /\ Cardinality(Failed) \in Nat /\ unheard \in Nat
        /\ Cardinality(dropped) + 2 * Cardinality(Copies) <= 2 * (Cardinality(Failed) + unheard)
    BY <1>2, FS_CardinalityType DEF LossInv, TicketInv, TypeOK
  <2>2. Cardinality(dropped) <= 2 * (Cardinality(Failed) + unheard - Cardinality(Copies))
    BY <2>1
  <2> QED
    BY <2>2 DEF LossesHaveFailures
<1> QED
  BY <1>1, <1>2, LossInit, TicketInvariant, PTL DEF Spec
=============================================================================
