---------------------------- MODULE WorkerProofs ----------------------------
(***************************************************************************)
(* Proofs about Worker: a running worker is never mute, the offer on the   *)
(* wire is the current connection's, and no re-arm causes the next.  The   *)
(* inductive invariant says which hop or call each waiting state has under *)
(* way, and keeps an account of re-arms: every connection made, every      *)
(* cause queued and every timer that may lead to one was paid for by an    *)
(* input.  The lemmas before it say what the operations on the two task    *)
(* queues keep, and what they count.                                       *)
(***************************************************************************)
EXTENDS Worker, FiniteSetTheorems, TLAPS

(* What a place of a finite set of numbers is called by counting.          *)
LEMMA NthOrders ==
    ASSUME NEW S \in SUBSET Nat, IsFiniteSet(S)
    PROVE  /\ Cardinality(S) \in Nat
           /\ \A m \in 1..Cardinality(S) : Nth(S, m) \in S
           /\ \A m, n \in 1..Cardinality(S) : m < n => Nth(S, m) < Nth(S, n)
           /\ \A i \in S : \E m \in 1..Cardinality(S) : Nth(S, m) = i
<1> DEFINE C == Cardinality(S)
           below(i) == {j \in S : j <= i}
           rank == [i \in S |-> Cardinality(below(i))]
<1>1. C \in Nat
  BY FS_CardinalityType
<1>2. \A i \in S : IsFiniteSet(below(i)) /\ Cardinality(below(i)) \in Nat /\ Cardinality(below(i)) <= C
  <2> TAKE i \in S
  <2>1. below(i) \in SUBSET S
    OBVIOUS
  <2> QED  BY <2>1, FS_Subset, FS_CardinalityType
<1>3. \A i \in S : Cardinality(below(i)) # 0
  <2> TAKE i \in S
  <2>1. i \in below(i)
    OBVIOUS
  <2> QED  BY <1>2, <2>1, FS_EmptySet
<1>4. rank \in [S -> 1..C]
  BY <1>1, <1>2, <1>3
<1>5. \A i, k \in S : i < k => rank[i] < rank[k]
  <2> TAKE i, k \in S
  <2> HAVE i < k
  <2>0. \A j \in S : j <= i => j <= k
    <3> TAKE j \in S
    <3>1. i \in Nat /\ j \in Nat /\ k \in Nat
      OBVIOUS
    <3> QED  BY <3>1
  <2>1. below(i) \in SUBSET below(k)
    BY <2>0
  <2>2. k \in below(k) /\ k \notin below(i)
    OBVIOUS
  <2>3. Cardinality(below(i)) <= Cardinality(below(k))
        /\ Cardinality(below(k)) # Cardinality(below(i))
    BY <1>2, <2>1, <2>2, FS_Subset
  <2> QED  BY <1>2, <2>3
<1> HIDE DEF rank
<1>6. \A i, k \in S : rank[i] \in Nat /\ (rank[i] = rank[k] => i = k) /\ (rank[i] < rank[k] => i < k)
  <2> TAKE i, k \in S
  <2>1. rank[i] \in Nat /\ rank[k] \in Nat /\ i \in Nat /\ k \in Nat
    BY <1>1, <1>4
  <2>2. i < k \/ k < i \/ i = k
    BY <2>1
  <2> QED  BY <1>5, <2>1, <2>2
<1>7. rank \in Injection(S, 1..C)
  BY <1>4, <1>6 DEF Injection, IsInjective
<1>8. \A m \in 1..C : \E i \in S : rank[i] = m
  <2>1. IsFiniteSet(1..C) /\ Cardinality(1..C) = C
    BY <1>1, FS_Interval
  <2>2. rank \in Surjection(S, 1..C)
    BY <1>7, <2>1, FS_Injection
  <2> QED  BY <2>2 DEF Surjection
<1>9. \A m \in 1..C : Nth(S, m) \in S /\ rank[Nth(S, m)] = m
  <2> TAKE m \in 1..C
  <2>1. \E i \in S : Cardinality({j \in S : j <= i}) = m
    BY <1>8 DEF rank
  <2>2. Nth(S, m) \in S /\ Cardinality({j \in S : j <= Nth(S, m)}) = m
    BY <2>1 DEF Nth
  <2> QED  BY <2>2 DEF rank
<1>10. ASSUME NEW m \in 1..C, NEW n \in 1..C, m < n
       PROVE  Nth(S, m) < Nth(S, n)
  <2>1. /\ Nth(S, m) \in S /\ rank[Nth(S, m)] = m
        /\ Nth(S, n) \in S /\ rank[Nth(S, n)] = n
    BY <1>9
  <2>2. rank[Nth(S, m)] < rank[Nth(S, n)]
    BY <1>10, <2>1
  <2> QED  BY <1>6, <2>1, <2>2
<1>11. ASSUME NEW i \in S
       PROVE  \E m \in 1..C : Nth(S, m) = i
  <2>1. rank[i] \in 1..C
    BY <1>4
  <2>2. Nth(S, rank[i]) = i
    BY <1>6, <1>9, <2>1
  <2> QED  BY <2>1, <2>2
<1> QED  BY <1>1, <1>9, <1>10, <1>11

(* The places that Keep keeps, by number.                                  *)
KeptFrom(q, whats) == [n \in 1..Cardinality(Places(q, whats)) |-> Nth(Places(q, whats), n)]

(* Each of those has its kind in whats, all that have it are there, and in *)
(* the order of the queue.                                                 *)
LEMMA KeepPlaces ==
    ASSUME NEW T, NEW q \in Seq(T), NEW whats
    PROVE  LET r == Keep(q, whats)  from == KeptFrom(q, whats) IN
           /\ r \in Seq(T) /\ DOMAIN from = 1..Len(r)
           /\ \A n \in 1..Len(r) :
                from[n] \in 1..Len(q) /\ r[n] = q[from[n]] /\ r[n].what \in whats
           /\ \A m, n \in 1..Len(r) : m < n => from[m] < from[n]
           /\ \A i \in 1..Len(q) : q[i].what \in whats => \E n \in 1..Len(r) : from[n] = i
<1> DEFINE S == Places(q, whats)
           C == Cardinality(S)
<1>1. S \in SUBSET (1..Len(q)) /\ S \in SUBSET Nat
  BY DEF Places
<1>2. IsFiniteSet(S)
  BY <1>1, FS_Interval, FS_Subset
<1>3. /\ C \in Nat
      /\ \A m \in 1..C : Nth(S, m) \in S
      /\ \A m, n \in 1..C : m < n => Nth(S, m) < Nth(S, n)
      /\ \A i \in S : \E m \in 1..C : Nth(S, m) = i
  BY <1>1, <1>2, NthOrders
<1>4. Keep(q, whats) = [n \in 1..C |-> q[Nth(S, n)]]
  BY DEF Keep
<1>5. KeptFrom(q, whats) = [n \in 1..C |-> Nth(S, n)]
  BY DEF KeptFrom
<1>6. \A i \in S : i \in 1..Len(q) /\ q[i].what \in whats /\ q[i] \in T
  BY DEF Places
<1>7. \A i \in 1..Len(q) : q[i].what \in whats => i \in S
  BY DEF Places
<1> HIDE DEF S
<1> DEFINE r == Keep(q, whats)
           from == KeptFrom(q, whats)
<1>8. r \in Seq(T) /\ Len(r) = C
  <2>1. r \in [1..C -> T]
    BY <1>3, <1>4, <1>6
  <2>2. \A X : \A f \in [1..C -> X] : f \in Seq(X) /\ Len(f) = C
    BY <1>3
  <2> HIDE DEF r, C
  <2> QED  BY <2>1, <2>2
<1>9. \A n \in 1..C : r[n] = q[Nth(S, n)] /\ from[n] = Nth(S, n)
  BY <1>4, <1>5
<1>10. DOMAIN from = 1..C
  BY <1>5
<1> HIDE DEF r, from, C
<1>11. \A n \in 1..C : from[n] \in 1..Len(q) /\ r[n] = q[from[n]] /\ r[n].what \in whats
  BY <1>3, <1>6, <1>9
<1>12. \A m, n \in 1..C : m < n => from[m] < from[n]
  BY <1>3, <1>9
<1>13. \A i \in 1..Len(q) : q[i].what \in whats => \E n \in 1..C : from[n] = i
  BY <1>3, <1>7, <1>9
<1> QED  BY <1>8, <1>10, <1>11, <1>12, <1>13 DEF r, from

-----------------------------------------------------------------------------
(* What is in a queue                                                      *)

Rearms == {"rearmBye", "rearmQuiet"}

(* A hop or call of this kind for connection e is in the queue.            *)
Has(q, whats, e) == \E i \in 1..Len(q) : q[i].what \in whats /\ q[i].e = e

(* The task that clears rearming_ is in the queue.                         *)
Clears(q) == \E i \in 1..Len(q) : q[i].what = "clear"

(* A re-arm is in the queue that is not swallowed, when r is rearming_.    *)
Effective(q, r) ==
    \E i \in 1..Len(q) :
        q[i].what \in Rearms /\ (~r \/ \E j \in 1..(i - 1) : q[j].what = "clear")

(* At most one task clears rearming_, and only when it is set.             *)
OneClear(q, r) ==
    \A i, j \in 1..Len(q) : q[i].what = "clear" /\ q[j].what = "clear" => i = j /\ r

(* What posting a task adds.                                               *)
LEMMA HasAppend ==
    ASSUME NEW T, NEW q \in Seq(T), NEW m \in T
    PROVE  /\ Append(q, m) \in Seq(T)
           /\ \A w, e : Has(q, w, e) \/ (m.what \in w /\ m.e = e) => Has(Append(q, m), w, e)
           /\ Clears(q) \/ m.what = "clear" => Clears(Append(q, m))
           /\ \A r : Effective(q, r) => Effective(Append(q, m), r)
           /\ \A r : m.what \in Rearms /\ (~r \/ Clears(q)) => Effective(Append(q, m), r)
           /\ \A r : OneClear(q, r) /\ m.what # "clear" => OneClear(Append(q, m), r)
<1> DEFINE p == Append(q, m)
<1>1. /\ p \in Seq(T) /\ Len(p) = Len(q) + 1 /\ p[Len(q) + 1] = m /\ Len(q) \in Nat
      /\ \A i \in 1..Len(q) : p[i] = q[i]
  OBVIOUS
<1> HIDE DEF p
<1>2. 1..Len(p) = 1..Len(q) \cup {Len(q) + 1}
  BY <1>1
<1>3. \A w, e : Has(q, w, e) \/ (m.what \in w /\ m.e = e) => Has(p, w, e)
  BY <1>1, <1>2 DEF Has
<1>4. Clears(q) \/ m.what = "clear" => Clears(p)
  BY <1>1, <1>2 DEF Clears
<1>5. \A i \in 1..Len(q) : \A j \in 1..(i - 1) : j \in 1..Len(q)
  BY <1>1
<1>6. \A r : Effective(q, r) => Effective(p, r)
  BY <1>1, <1>2, <1>5 DEF Effective
<1>7. \A r : m.what \in Rearms /\ (~r \/ Clears(q)) => Effective(p, r)
  <2>1. (Len(q) + 1) - 1 = Len(q)
    BY <1>1
  <2> QED  BY <1>1, <1>2, <2>1 DEF Effective, Clears
<1>8. \A r : OneClear(q, r) /\ m.what # "clear" => OneClear(p, r)
  BY <1>1, <1>2 DEF OneClear
<1> QED  BY <1>1, <1>3, <1>4, <1>6, <1>7, <1>8 DEF p

(* What running the first task leaves.                                     *)
LEMMA HasTail ==
    ASSUME NEW T, NEW q \in Seq(T), q # <<>>
    PROVE  /\ Head(q) \in T /\ Tail(q) \in Seq(T)
           /\ \A w, e : Has(q, w, e) =>
                Has(Tail(q), w, e) \/ (Head(q).what \in w /\ Head(q).e = e)
           /\ Clears(q) => Clears(Tail(q)) \/ Head(q).what = "clear"
           /\ \A r : Effective(q, r) /\ Head(q).what \notin Rearms \cup {"clear"}
                => Effective(Tail(q), r)
           /\ Effective(q, TRUE) /\ Head(q).what \in Rearms => Effective(Tail(q), TRUE)
           /\ \A r : Effective(q, r) /\ Head(q).what = "clear" => Effective(Tail(q), FALSE)
           /\ \A r : OneClear(q, r) => OneClear(Tail(q), r)
           /\ \A r : OneClear(q, r) /\ Head(q).what = "clear" => ~Clears(Tail(q))
<1> DEFINE p == Tail(q)
           h == Head(q)
<1>1. /\ h \in T /\ p \in Seq(T) /\ Len(q) \in Nat /\ Len(q) # 0 /\ Len(p) = Len(q) - 1
      /\ q[1] = h
      /\ \A i \in 1..Len(p) : p[i] = q[i + 1]
  OBVIOUS
<1> HIDE DEF p, h
<1>2. \A i \in 1..Len(q) : i = 1 \/ (i - 1 \in 1..Len(p) /\ p[i - 1] = q[i])
  BY <1>1
<1>3. \A i \in 1..Len(p) : i + 1 \in 1..Len(q) /\ i \in Nat
  BY <1>1
<1>4. \A w, e : Has(q, w, e) => Has(p, w, e) \/ (h.what \in w /\ h.e = e)
  BY <1>1, <1>2 DEF Has
<1>5. Clears(q) => Clears(p) \/ h.what = "clear"
  BY <1>1, <1>2 DEF Clears
<1>6. ASSUME NEW r, Effective(q, r), h.what \notin Rearms \cup {"clear"}
      PROVE  Effective(p, r)
  <2>1. PICK i \in 1..Len(q) :
          q[i].what \in Rearms /\ (~r \/ \E j \in 1..(i - 1) : q[j].what = "clear")
    BY <1>6 DEF Effective
  <2>2. i - 1 \in 1..Len(p) /\ p[i - 1] = q[i]
    BY <1>1, <1>2, <1>6, <2>1
  <2>3. CASE ~r
    BY <2>1, <2>2, <2>3 DEF Effective
  <2>4. CASE r
    <3>1. PICK j \in 1..(i - 1) : q[j].what = "clear"
      BY <2>1, <2>4
    <3>2. j \in 1..Len(q) /\ j # 1
      BY <1>1, <1>6, <3>1
    <3>3. j - 1 \in 1..((i - 1) - 1) /\ p[j - 1].what = "clear"
      BY <1>2, <3>1, <3>2
    <3> QED  BY <2>1, <2>2, <3>3 DEF Effective
  <2> QED  BY <2>3, <2>4
<1>7. ASSUME Effective(q, TRUE), h.what \in Rearms
      PROVE  Effective(p, TRUE)
  <2>1. PICK i \in 1..Len(q) :
          q[i].what \in Rearms /\ \E j \in 1..(i - 1) : q[j].what = "clear"
    BY <1>7 DEF Effective
  <2>2. PICK j \in 1..(i - 1) : q[j].what = "clear"
    BY <2>1
  <2>3. j \in 1..Len(q) /\ j # 1 /\ i # 1
    BY <1>1, <1>7, <2>2 DEF Rearms
  <2>4. i - 1 \in 1..Len(p) /\ p[i - 1] = q[i] /\ j - 1 \in 1..((i - 1) - 1) /\ p[j - 1] = q[j]
    BY <1>2, <2>2, <2>3
  <2> QED  BY <2>1, <2>2, <2>4 DEF Effective
<1>8. ASSUME NEW r, Effective(q, r), h.what = "clear"
      PROVE  Effective(p, FALSE)
  <2>1. PICK i \in 1..Len(q) : q[i].what \in Rearms
    BY <1>8 DEF Effective
  <2>2. i # 1
    BY <1>1, <1>8, <2>1 DEF Rearms
  <2> QED  BY <1>2, <2>1, <2>2 DEF Effective
<1>9. ASSUME NEW r, OneClear(q, r)
      PROVE  OneClear(p, r) /\ (h.what = "clear" => ~Clears(p))
  <2>1. \A i, j \in 1..Len(q) : q[i].what = "clear" /\ q[j].what = "clear" => i = j /\ r
    BY <1>9 DEF OneClear
  <2>2. OneClear(p, r)
    <3>1. ASSUME NEW i \in 1..Len(p), NEW j \in 1..Len(p), p[i].what = "clear", p[j].what = "clear"
          PROVE  i = j /\ r
      <4>1. i + 1 = j + 1 /\ r
        BY <1>1, <1>3, <2>1, <3>1
      <4> QED  BY <1>3, <4>1
    <3> QED  BY <3>1 DEF OneClear
  <2>3. ASSUME h.what = "clear" PROVE ~Clears(p)
    <3>1. ASSUME NEW i \in 1..Len(p), p[i].what = "clear" PROVE FALSE
      <4>1. i + 1 \in 1..Len(q) /\ 1 \in 1..Len(q) /\ i + 1 # 1
        BY <1>1, <1>3
      <4> QED  BY <1>1, <2>1, <2>3, <3>1, <4>1
    <3> QED  BY <3>1 DEF Clears
  <2> QED  BY <2>2, <2>3
<1> QED  BY <1>1, <1>4, <1>5, <1>6, <1>7, <1>8, <1>9 DEF p, h

(* What is added behind a queue.                                           *)
LEMMA HasConcat ==
    ASSUME NEW T, NEW q \in Seq(T), NEW p \in Seq(T)
    PROVE  /\ q \o p \in Seq(T)
           /\ \A w, e : Has(q, w, e) \/ Has(p, w, e) => Has(q \o p, w, e)
           /\ Clears(q) => Clears(q \o p)
           /\ \A r : OneClear(q, r) /\ ~Clears(p) => OneClear(q \o p, r)
<1> DEFINE c == q \o p
<1>1. /\ c \in Seq(T) /\ Len(c) = Len(q) + Len(p) /\ Len(q) \in Nat /\ Len(p) \in Nat
      /\ \A i \in 1..Len(q) : c[i] = q[i]
      /\ \A i \in 1..Len(c) : i > Len(q) => c[i] = p[i - Len(q)]
  OBVIOUS
<1> HIDE DEF c
<1>2. \A i \in 1..Len(q) : i \in 1..Len(c)
  BY <1>1
<1>3. \A i \in 1..Len(p) : i + Len(q) \in 1..Len(c) /\ c[i + Len(q)] = p[i]
  BY <1>1
<1>4. \A i \in 1..Len(c) :
        (i \in 1..Len(q) /\ c[i] = q[i]) \/ (i - Len(q) \in 1..Len(p) /\ c[i] = p[i - Len(q)])
  BY <1>1
<1>5. \A w, e : Has(q, w, e) \/ Has(p, w, e) => Has(c, w, e)
  BY <1>1, <1>2, <1>3 DEF Has
<1>6. Clears(q) => Clears(c)
  BY <1>1, <1>2 DEF Clears
<1>7. \A r : OneClear(q, r) /\ ~Clears(p) => OneClear(c, r)
  BY <1>4 DEF OneClear, Clears
<1> QED  BY <1>1, <1>5, <1>6, <1>7 DEF c

(* What a dropped channel leaves of the queue.                             *)
LEMMA HasKeep ==
    ASSUME NEW T, NEW q \in Seq(T), NEW whats
    PROVE  /\ Keep(q, whats) \in Seq(T)
           /\ \A w, e : w \subseteq whats /\ Has(q, w, e) => Has(Keep(q, whats), w, e)
           /\ "clear" \in whats /\ Clears(q) => Clears(Keep(q, whats))
           /\ \A r : Rearms \cup {"clear"} \subseteq whats /\ Effective(q, r)
                => Effective(Keep(q, whats), r)
           /\ \A r : OneClear(q, r) => OneClear(Keep(q, whats), r)
           /\ \A n \in 1..Len(Keep(q, whats)) : Keep(q, whats)[n].what \in whats
<1> DEFINE p == Keep(q, whats)
           from == KeptFrom(q, whats)
<1>1. /\ p \in Seq(T) /\ DOMAIN from = 1..Len(p)
      /\ \A n \in 1..Len(p) :
           from[n] \in 1..Len(q) /\ p[n] = q[from[n]] /\ p[n].what \in whats
      /\ \A m, n \in 1..Len(p) : m < n => from[m] < from[n]
      /\ \A i \in 1..Len(q) : q[i].what \in whats => \E n \in 1..Len(p) : from[n] = i
  BY KeepPlaces
<1> HIDE DEF p, from
<1>2. Len(p) \in Nat /\ Len(q) \in Nat
  BY <1>1
<1>3. \A m, n \in 1..Len(p) : from[m] < from[n] => m < n
  <2> TAKE m, n \in 1..Len(p)
  <2>1. m \in Nat /\ n \in Nat /\ from[m] \in Nat /\ from[n] \in Nat
    BY <1>1
  <2>2. m < n \/ n < m \/ m = n
    BY <2>1
  <2> QED  BY <1>1, <2>1, <2>2
<1>4. \A m, n \in 1..Len(p) : from[m] = from[n] => m = n
  <2> TAKE m, n \in 1..Len(p)
  <2>1. m \in Nat /\ n \in Nat /\ from[m] \in Nat /\ from[n] \in Nat
    BY <1>1
  <2>2. m < n \/ n < m \/ m = n
    BY <2>1
  <2> QED  BY <1>1, <2>1, <2>2
<1>5. ASSUME NEW w, NEW e, w \subseteq whats, Has(q, w, e)
      PROVE  Has(p, w, e)
  <2>1. PICK i \in 1..Len(q) : q[i].what \in w /\ q[i].e = e
    BY <1>5 DEF Has
  <2>2. q[i].what \in whats
    BY <1>5, <2>1
  <2>3. PICK n \in 1..Len(p) : from[n] = i
    BY <1>1, <2>2
  <2>4. p[n] = q[i]
    BY <1>1, <2>3
  <2> QED  BY <2>1, <2>4 DEF Has
<1>6. ASSUME "clear" \in whats, Clears(q)
      PROVE  Clears(p)
  <2>1. PICK i \in 1..Len(q) : q[i].what = "clear"
    BY <1>6 DEF Clears
  <2>2. PICK n \in 1..Len(p) : from[n] = i
    BY <1>1, <1>6, <2>1
  <2>3. p[n] = q[i]
    BY <1>1, <2>2
  <2> QED  BY <2>1, <2>3 DEF Clears
<1>7. ASSUME NEW r, Rearms \cup {"clear"} \subseteq whats, Effective(q, r)
      PROVE  Effective(p, r)
  <2>1. PICK i \in 1..Len(q) :
          q[i].what \in Rearms /\ (~r \/ \E j \in 1..(i - 1) : q[j].what = "clear")
    BY <1>7 DEF Effective
  <2>2. PICK n \in 1..Len(p) : from[n] = i
    BY <1>1, <1>7, <2>1
  <2>3. CASE ~r
    BY <1>1, <2>1, <2>2, <2>3 DEF Effective
  <2>4. CASE r
    <3>1. PICK j \in 1..(i - 1) : q[j].what = "clear"
      BY <2>1, <2>4
    <3>2. j \in 1..Len(q) /\ j < i
      BY <1>2, <3>1
    <3>3. PICK m \in 1..Len(p) : from[m] = j
      BY <1>1, <1>7, <3>1, <3>2
    <3>4. m < n
      BY <1>3, <2>2, <3>2, <3>3
    <3>5. m \in 1..(n - 1)
      BY <1>2, <3>4
    <3>6. p[n] = q[i] /\ p[m] = q[j]
      BY <1>1, <2>2, <3>3
    <3> QED  BY <2>1, <3>1, <3>5, <3>6 DEF Effective
  <2> QED  BY <2>3, <2>4
<1>8. \A r : OneClear(q, r) => OneClear(p, r)
  BY <1>1, <1>4 DEF OneClear
<1> QED  BY <1>1, <1>5, <1>6, <1>7, <1>8 DEF p

-----------------------------------------------------------------------------
(* How much is in a queue                                                  *)

(* What outside the worker leads to a re-arm.                              *)
Causes == {"bye", "request_renegotiate", "failed"}

One(b) == IF b THEN 1 ELSE 0

Number(q, whats) == Cardinality(Places(q, whats))

(* The re-arms that no clear follows: those still to come once rearming_   *)
(* is cleared.                                                             *)
Ahead(q) == {i \in Places(q, Rearms) : \A j \in 1..Len(q) : j > i => q[j].what # "clear"}
Rearmings(q) == Cardinality(Ahead(q))

(* A one-to-one map into a finite set of places bounds a count.            *)
LEMMA MappedInto ==
    ASSUME NEW S, NEW T, IsFiniteSet(T), NEW f \in [S -> T],
           \A a, b \in S : f[a] = f[b] => a = b
    PROVE  IsFiniteSet(S) /\ Cardinality(S) <= Cardinality(T)
<1>1. f \in Injection(S, T)
  BY DEF Injection, IsInjective
<1> QED  BY <1>1, FS_Injection

(* Counts are finite.                                                      *)
LEMMA Countable ==
    ASSUME NEW T, NEW q \in Seq(T)
    PROVE  /\ \A w : IsFiniteSet(Places(q, w)) /\ Number(q, w) \in Nat
           /\ IsFiniteSet(Ahead(q)) /\ Rearmings(q) \in Nat
<1>1. IsFiniteSet(1..Len(q))
  BY FS_Interval
<1>2. \A w : Places(q, w) \in SUBSET (1..Len(q))
  BY DEF Places
<1>3. Ahead(q) \in SUBSET (1..Len(q))
  BY DEF Places, Ahead
<1>4. \A w : IsFiniteSet(Places(q, w))
  BY <1>1, <1>2, FS_Subset
<1>5. IsFiniteSet(Ahead(q))
  BY <1>1, <1>3, FS_Subset
<1> QED  BY <1>4, <1>5, FS_CardinalityType DEF Number, Rearmings

(* An empty queue has nothing in it.                                       *)
LEMMA CountEmpty == (\A w : Number(<<>>, w) = 0) /\ Rearmings(<<>>) = 0
<1>1. (\A w : Places(<<>>, w) = {}) /\ Ahead(<<>>) = {}
  BY DEF Places, Ahead
<1> QED  BY <1>1, FS_EmptySet DEF Number, Rearmings

(* One more entry adds at most one.                                        *)
LEMMA CountAppend ==
    ASSUME NEW T, NEW q \in Seq(T), NEW m \in T
    PROVE  /\ \A w : Number(Append(q, m), w) <= Number(q, w) + One(m.what \in w)
           /\ m.what # "clear" =>
                Rearmings(Append(q, m)) <= Rearmings(q) + One(m.what \in Rearms)
<1> DEFINE p == Append(q, m)
           last == Len(q) + 1
<1>1. /\ p \in Seq(T) /\ Len(p) = last /\ p[last] = m /\ Len(q) \in Nat
      /\ \A i \in 1..Len(q) : p[i] = q[i]
  OBVIOUS
<1>2. 1..Len(p) = 1..Len(q) \cup {last}
  BY <1>1
<1> HIDE DEF p, last
<1>3. \A w : m.what \in w => Places(p, w) = Places(q, w) \cup {last}
  BY <1>1, <1>2 DEF Places
<1>4. \A w : m.what \notin w => Places(p, w) = Places(q, w)
  BY <1>1, <1>2 DEF Places
<1>5. ASSUME NEW w PROVE Number(p, w) <= Number(q, w) + One(m.what \in w)
  <2>1. IsFiniteSet(Places(q, w)) /\ Number(q, w) \in Nat
    BY Countable
  <2>2. CASE m.what \in w
    <3>1. Cardinality(Places(q, w) \cup {last}) \in {Number(q, w), Number(q, w) + 1}
      BY <2>1, FS_AddElement DEF Number
    <3>2. Number(p, w) = Cardinality(Places(q, w) \cup {last})
      BY <1>3, <2>2 DEF Number
    <3>3. One(m.what \in w) = 1
      BY <2>2 DEF One
    <3> QED  BY <2>1, <3>1, <3>2, <3>3
  <2>3. CASE m.what \notin w
    BY <1>4, <2>1, <2>3 DEF Number, One
  <2> QED  BY <2>2, <2>3
<1>6. ASSUME m.what # "clear"
      PROVE  Rearmings(p) <= Rearmings(q) + One(m.what \in Rearms)
  <2>1. IsFiniteSet(Ahead(q)) /\ Rearmings(q) \in Nat
    BY Countable
  <2>2. \A i \in 1..Len(q) : i \in Ahead(p) => i \in Ahead(q)
    BY <1>1, <1>2 DEF Ahead, Places
  <2>3. Ahead(p) \in SUBSET (1..Len(p))
    BY DEF Ahead, Places
  <2>4. CASE m.what \in Rearms
    <3>1. Ahead(p) \in SUBSET (Ahead(q) \cup {last})
      BY <1>2, <2>2, <2>3
    <3>2. /\ IsFiniteSet(Ahead(q) \cup {last})
          /\ Cardinality(Ahead(q) \cup {last}) \in {Rearmings(q), Rearmings(q) + 1}
      BY <2>1, FS_AddElement DEF Rearmings
    <3>3. IsFiniteSet(Ahead(p)) /\ Cardinality(Ahead(p)) <= Cardinality(Ahead(q) \cup {last})
      BY <3>1, <3>2, FS_Subset
    <3>4. Cardinality(Ahead(p)) \in Nat
      BY <3>3, FS_CardinalityType
    <3> QED  BY <2>1, <2>4, <3>2, <3>3, <3>4 DEF Rearmings, One
  <2>5. CASE m.what \notin Rearms
    <3>1. last \notin Ahead(p)
      BY <1>1, <2>5 DEF Ahead, Places
    <3>2. Ahead(p) \in SUBSET Ahead(q)
      BY <1>2, <2>2, <2>3, <3>1
    <3>3. IsFiniteSet(Ahead(p)) /\ Cardinality(Ahead(p)) <= Cardinality(Ahead(q))
      BY <2>1, <3>2, FS_Subset
    <3>4. Cardinality(Ahead(p)) \in Nat
      BY <3>3, FS_CardinalityType
    <3> QED  BY <2>1, <2>5, <3>3, <3>4 DEF Rearmings, One
  <2> QED  BY <2>4, <2>5
<1> QED  BY <1>5, <1>6 DEF p

(* The first entry counted, when it is of the kind.                        *)
LEMMA CountTail ==
    ASSUME NEW T, NEW q \in Seq(T), q # <<>>
    PROVE  /\ \A w : Number(Tail(q), w) + One(Head(q).what \in w) <= Number(q, w)
           /\ Rearmings(Tail(q)) <= Rearmings(q)
           /\ Head(q).what \in Rearms /\ ~Clears(q) =>
                Rearmings(Tail(q)) + 1 <= Rearmings(q)
<1> DEFINE p == Tail(q)
           h == Head(q)
<1>1. /\ p \in Seq(T) /\ Len(q) \in Nat /\ Len(q) # 0 /\ Len(p) = Len(q) - 1
      /\ q[1] = h
      /\ \A i \in 1..Len(p) : p[i] = q[i + 1]
  OBVIOUS
<1> HIDE DEF p, h
<1>2. \A i \in 1..Len(p) : i + 1 \in 1..Len(q) /\ i \in Nat /\ i + 1 # 1
  BY <1>1
<1>3. \A w : \A i \in Places(p, w) : i + 1 \in Places(q, w) /\ i + 1 # 1 /\ i \in Nat
  BY <1>1, <1>2 DEF Places
<1>4. \A i \in Ahead(p) : i + 1 \in Ahead(q) /\ i + 1 # 1 /\ i \in Nat
  <2> TAKE i \in Ahead(p)
  <2>1. i \in Places(p, Rearms) /\ \A j \in 1..Len(p) : j > i => p[j].what # "clear"
    BY DEF Ahead
  <2>2. i + 1 \in Places(q, Rearms) /\ i + 1 # 1 /\ i \in Nat
    BY <1>3, <2>1
  <2>3. ASSUME NEW j \in 1..Len(q), j > i + 1 PROVE q[j].what # "clear"
    <3>1. j - 1 \in 1..Len(p) /\ j - 1 > i /\ (j - 1) + 1 = j
      BY <1>1, <2>2, <2>3
    <3> QED  BY <1>1, <2>1, <3>1
  <2> QED  BY <2>2, <2>3 DEF Ahead
<1>5. ASSUME NEW S, NEW W, IsFiniteSet(W), \A i \in S : i + 1 \in W /\ i + 1 # 1 /\ i \in Nat
      PROVE  /\ IsFiniteSet(S) /\ Cardinality(S) \in Nat /\ Cardinality(W) \in Nat
             /\ Cardinality(S) <= Cardinality(W)
             /\ 1 \in W => Cardinality(S) + 1 <= Cardinality(W)
  <2> DEFINE f == [i \in S |-> i + 1]
             U == W \ {1}
  <2>1. IsFiniteSet(U) /\ Cardinality(W) \in Nat
        /\ Cardinality(U) = IF 1 \in W THEN Cardinality(W) - 1 ELSE Cardinality(W)
    BY <1>5, FS_RemoveElement, FS_CardinalityType
  <2>2. f \in [S -> U]
    BY <1>5
  <2>3. \A a, b \in S : f[a] = f[b] => a = b
    BY <1>5
  <2> HIDE DEF f, U
  <2>4. IsFiniteSet(S) /\ Cardinality(S) <= Cardinality(U)
    BY <2>1, <2>2, <2>3, MappedInto
  <2>5. Cardinality(S) \in Nat
    BY <2>4, FS_CardinalityType
  <2> QED  BY <2>1, <2>4, <2>5
<1>6. ASSUME NEW w PROVE Number(p, w) + One(h.what \in w) <= Number(q, w)
  <2>1. IsFiniteSet(Places(q, w))
    BY Countable
  <2>2. /\ Cardinality(Places(p, w)) \in Nat /\ Cardinality(Places(q, w)) \in Nat
        /\ Cardinality(Places(p, w)) <= Cardinality(Places(q, w))
        /\ 1 \in Places(q, w) => Cardinality(Places(p, w)) + 1 <= Cardinality(Places(q, w))
    BY <1>3, <1>5, <2>1
  <2>3. h.what \in w => 1 \in Places(q, w)
    BY <1>1 DEF Places
  <2> QED  BY <2>2, <2>3 DEF Number, One
<1>7. IsFiniteSet(Ahead(q))
  BY Countable
<1>8. /\ Cardinality(Ahead(p)) <= Cardinality(Ahead(q))
      /\ 1 \in Ahead(q) => Cardinality(Ahead(p)) + 1 <= Cardinality(Ahead(q))
  BY <1>4, <1>5, <1>7
<1>9. h.what \in Rearms /\ ~Clears(q) => 1 \in Ahead(q)
  BY <1>1 DEF Ahead, Places, Clears
<1> QED  BY <1>6, <1>8, <1>9 DEF p, h, Rearmings

(* What a filter leaves is no more than there was.                         *)
LEMMA CountKeep ==
    ASSUME NEW T, NEW q \in Seq(T), NEW whats
    PROVE  /\ \A w : Number(Keep(q, whats), w) <= Number(q, w)
           /\ "clear" \in whats => Rearmings(Keep(q, whats)) <= Rearmings(q)
<1> DEFINE p == Keep(q, whats)
           from == KeptFrom(q, whats)
<1>1. /\ p \in Seq(T) /\ DOMAIN from = 1..Len(p)
      /\ \A n \in 1..Len(p) :
           from[n] \in 1..Len(q) /\ p[n] = q[from[n]] /\ p[n].what \in whats
      /\ \A m, n \in 1..Len(p) : m < n => from[m] < from[n]
      /\ \A i \in 1..Len(q) : q[i].what \in whats => \E n \in 1..Len(p) : from[n] = i
  BY KeepPlaces
<1> HIDE DEF p, from
<1>2. \A m, n \in 1..Len(p) :
        (from[m] = from[n] => m = n) /\ (from[m] < from[n] => m < n)
  <2> TAKE m, n \in 1..Len(p)
  <2>1. m \in Nat /\ n \in Nat /\ from[m] \in Nat /\ from[n] \in Nat
    BY <1>1
  <2>2. m < n \/ n < m \/ m = n
    BY <2>1
  <2> QED  BY <1>1, <2>1, <2>2
<1>3. ASSUME NEW S \in SUBSET (1..Len(p)), NEW W, IsFiniteSet(W), \A n \in S : from[n] \in W
      PROVE  Cardinality(S) <= Cardinality(W)
  <2> DEFINE f == [n \in S |-> from[n]]
  <2>1. f \in [S -> W]
    BY <1>3
  <2>2. \A a, b \in S : f[a] = f[b] => a = b
    BY <1>2
  <2> HIDE DEF f
  <2> QED  BY <1>3, <2>1, <2>2, MappedInto
<1>4. ASSUME NEW w PROVE Number(p, w) <= Number(q, w)
  <2>1. Places(p, w) \in SUBSET (1..Len(p)) /\ \A n \in Places(p, w) : from[n] \in Places(q, w)
    BY <1>1 DEF Places
  <2>2. IsFiniteSet(Places(q, w))
    BY Countable
  <2> QED  BY <1>3, <2>1, <2>2 DEF Number
<1>5. ASSUME "clear" \in whats PROVE Rearmings(p) <= Rearmings(q)
  <2>1. Ahead(p) \in SUBSET (1..Len(p))
    BY DEF Ahead, Places
  <2>2. ASSUME NEW n \in Ahead(p) PROVE from[n] \in Ahead(q)
    <3>1. /\ n \in 1..Len(p) /\ p[n].what \in Rearms
          /\ \A j \in 1..Len(p) : j > n => p[j].what # "clear"
      BY <2>2 DEF Ahead, Places
    <3>2. ASSUME NEW j \in 1..Len(q), j > from[n], q[j].what = "clear" PROVE FALSE
      <4>1. PICK m \in 1..Len(p) : from[m] = j
        BY <1>1, <1>5, <3>2
      <4>2. from[n] \in Nat /\ from[m] \in Nat /\ m \in Nat /\ n \in Nat
        BY <1>1, <3>1
      <4>3. n < m
        BY <1>2, <3>1, <3>2, <4>1, <4>2
      <4> QED  BY <1>1, <3>1, <3>2, <4>1, <4>2, <4>3
    <3>3. from[n] \in Places(q, Rearms)
      BY <1>1, <3>1 DEF Places
    <3> QED  BY <3>2, <3>3 DEF Ahead
  <2>3. IsFiniteSet(Ahead(q))
    BY Countable
  <2> QED  BY <1>3, <2>1, <2>2, <2>3 DEF Rearmings
<1> QED  BY <1>4, <1>5 DEF p

(* Two queues in one hold what they held.                                  *)
LEMMA CountConcat ==
    ASSUME NEW T, NEW q \in Seq(T), NEW p \in Seq(T), NEW w
    PROVE  Number(q \o p, w) <= Number(q, w) + Number(p, w)
<1> DEFINE c == q \o p
           A == Places(q, w)
           B == {i \in Places(c, w) : i > Len(q)}
           f == [i \in B |-> i - Len(q)]
<1>1. /\ c \in Seq(T) /\ Len(c) = Len(q) + Len(p) /\ Len(q) \in Nat /\ Len(p) \in Nat
      /\ \A i \in 1..Len(q) : c[i] = q[i]
      /\ \A i \in 1..Len(c) : i > Len(q) => c[i] = p[i - Len(q)]
  OBVIOUS
<1> HIDE DEF c
<1>2. Places(c, w) = A \cup B
  <2>1. \A i \in 1..Len(c) : i \in 1..Len(q) \/ i > Len(q)
    BY <1>1
  <2>2. \A i \in 1..Len(q) : i \in 1..Len(c)
    BY <1>1
  <2> QED  BY <1>1, <2>1, <2>2 DEF Places
<1>3. IsFiniteSet(A) /\ Cardinality(A) \in Nat /\ IsFiniteSet(Places(p, w))
      /\ Cardinality(Places(p, w)) \in Nat
  BY Countable DEF Number
<1>4. \A i \in B : i - Len(q) \in Places(p, w) /\ i \in Nat
  BY <1>1 DEF Places
<1>5. f \in [B -> Places(p, w)] /\ \A a, b \in B : f[a] = f[b] => a = b
  BY <1>1, <1>4
<1> HIDE DEF A, B, f
<1>6. IsFiniteSet(B) /\ Cardinality(B) <= Cardinality(Places(p, w))
  BY <1>3, <1>5, MappedInto
<1>7. Cardinality(B) \in Nat
  BY <1>6, FS_CardinalityType
<1>8. IsFiniteSet(A \cap B) /\ Cardinality(A \cap B) \in Nat
  BY <1>3, FS_Subset, FS_CardinalityType
<1>9. Cardinality(A \cup B) = Cardinality(A) + Cardinality(B) - Cardinality(A \cap B)
  BY <1>3, <1>6, FS_Union
<1>10. Cardinality(A \cup B) <= Cardinality(A) + Cardinality(Places(p, w))
  BY <1>3, <1>6, <1>7, <1>8, <1>9
<1> QED  BY <1>2, <1>10 DEF Number, A, c

(* A clear behind a queue that has none: the only one, and no re-arm in    *)
(* front of it is still to come once rearming_ is cleared.                 *)
LEMMA ClearBehind ==
    ASSUME NEW T, NEW q \in Seq(T), NEW m \in T, NEW p \in Seq(T), m.what = "clear",
           ~Clears(q), \A i \in 1..Len(p) : p[i].what \notin Rearms \cup {"clear"}
    PROVE  LET c == Append(q, m) \o p IN
           c \in Seq(T) /\ Clears(c) /\ OneClear(c, TRUE) /\ Rearmings(c) = 0
<1> DEFINE b == Append(q, m)
           c == b \o p
           last == Len(q) + 1
<1>1. /\ b \in Seq(T) /\ Len(b) = last /\ b[last] = m /\ Len(q) \in Nat
      /\ \A i \in 1..Len(q) : b[i] = q[i]
  OBVIOUS
<1>2. 1..Len(b) = 1..Len(q) \cup {last} /\ last \in Nat
  BY <1>1
<1> HIDE DEF b
<1>3. /\ c \in Seq(T) /\ Len(c) = Len(b) + Len(p) /\ Len(b) \in Nat /\ Len(p) \in Nat
      /\ \A i \in 1..Len(b) : c[i] = b[i]
      /\ \A i \in 1..Len(c) : i > Len(b) => c[i] = p[i - Len(b)]
  <2>1. \A x \in Seq(T) :
          /\ x \o p \in Seq(T) /\ Len(x \o p) = Len(x) + Len(p) /\ Len(x) \in Nat
          /\ Len(p) \in Nat
          /\ \A i \in 1..Len(x) : (x \o p)[i] = x[i]
          /\ \A i \in 1..Len(x \o p) : i > Len(x) => (x \o p)[i] = p[i - Len(x)]
    OBVIOUS
  <2> QED  BY <1>1, <2>1
<1> HIDE DEF c
<1>4. /\ \A i \in 1..Len(c) : i \in 1..Len(b) \/ (i > last /\ i - Len(b) \in 1..Len(p))
      /\ \A i \in 1..Len(b) : i \in 1..Len(c)
  <2>1. \A i \in 1..Len(b) : i \in 1..Len(c)
    BY <1>3
  <2>2. \A i \in 1..Len(c) : i \in 1..Len(b) \/ (i > Len(b) /\ i - Len(b) \in 1..Len(p))
    BY <1>3
  <2> QED  BY <1>1, <2>1, <2>2
<1>5. last \in 1..Len(c) /\ c[last] = m
  BY <1>1, <1>2, <1>3, <1>4
<1>6. \A i \in 1..Len(c) : i > last => c[i].what \notin Rearms \cup {"clear"}
  <2> SUFFICES ASSUME NEW i \in 1..Len(c), i > last PROVE c[i].what \notin Rearms \cup {"clear"}
    OBVIOUS
  <2>1. i > Len(b) /\ i - Len(b) \in 1..Len(p)
    BY <1>1, <1>2, <1>3
  <2> QED  BY <1>3, <2>1
<1>7. \A i \in 1..Len(q) : c[i] = q[i] /\ i \in 1..Len(b)
  BY <1>1, <1>2, <1>3
<1>8. \A i \in 1..Len(c) : c[i].what = "clear" => i = last
  <2>1. \A i \in 1..Len(c) : i \in 1..Len(q) \/ i = last \/ i > last
    BY <1>2, <1>4
  <2> QED  BY <1>6, <1>7, <2>1 DEF Clears
<1>9. Clears(c)
  BY <1>5 DEF Clears
<1>10. OneClear(c, TRUE)
  BY <1>8 DEF OneClear
<1>11. ASSUME NEW i \in Ahead(c) PROVE FALSE
  <2>1. /\ i \in 1..Len(c) /\ c[i].what \in Rearms
        /\ \A j \in 1..Len(c) : j > i => c[j].what # "clear"
    BY <1>11 DEF Ahead, Places
  <2>2. i < last \/ i = last \/ i > last
    BY <1>1, <2>1
  <2>3. i = last => "clear" \in Rearms
    BY <1>5, <2>1
  <2>4. i < last => last > i
    BY <1>1, <2>1
  <2> QED  BY <1>5, <1>6, <2>1, <2>2, <2>3, <2>4 DEF Rearms
<1>12. Rearmings(c) = 0
  BY <1>11, FS_EmptySet DEF Rearmings
<1> QED  BY <1>3, <1>9, <1>10, <1>12 DEF b, c

-----------------------------------------------------------------------------
(* The inductive invariant                                                 *)

(* The tasks of the UI thread and of the signaling thread.                 *)
Hops == [what : Envelopes \cup Completions \cup Observed \cup Posted, e : Nat, k : Nat]
Ops == [what : Calls \cup Observed, e : Nat, k : Nat]

Typed ==
    /\ state \in States /\ pc \in Nat /\ rearming \in BOOLEAN
    /\ pending_local_offer \in Nat /\ pending_early_answer \in Nat
    /\ pending_remote_ice \in Seq(Nat)
    /\ tasks \in Seq(Hops) /\ sig \in Seq(Ops) /\ events \in Nat

(* Before the first connection nothing is held, and until a session's      *)
(* first request for a negotiation it stays in kCreatingPc.                *)
Fresh ==
    /\ pc = 0 => /\ state \in {"kIdle"} \cup Terminal
                 /\ pending_early_answer = 0 /\ pending_remote_ice = <<>>
    /\ state = "kCreatingPc" \/ (pc = 0 /\ life = "running")
         => ~initial_renegotiation_consumed

(* The hops a state of the negotiation waits for, and the calls that end   *)
(* in them.                                                                *)
Waiting == {"kCreatingPc", "kCreatingOffer", "kSettingLocal", "kSettingRemote"}
Awaited == [s \in Waiting |->
              CASE s = "kCreatingPc" -> {"negotiationNeeded"}
                [] s = "kCreatingOffer" -> {"offerCreated", "createFailed"}
                [] s = "kSettingLocal" -> {"localSet", "localFailed"}
                [] s = "kSettingRemote" -> {"remoteSet", "remoteFailed"}]
Called == [s \in Waiting |->
              CASE s = "kCreatingPc" -> {"negotiationNeeded"}
                [] s = "kCreatingOffer" -> {"createOffer"}
                [] s = "kSettingLocal" -> {"setLocal"}
                [] s = "kSettingRemote" -> {"setRemote"}]

(* A waiting session has its call or its hop under way on this connection, *)
(* or its offer stashed for the first OnConnected.                         *)
Busy ==
    state \in Waiting =>
        \/ Has(sig, Called[state], pc)
        \/ Has(tasks, Awaited[state], pc)
        \/ state = "kCreatingOffer" /\ pending_local_offer = pc /\ ~ws_connected
        \/ state = "kCreatingPc" /\ VideoMayFail

(* NeverMute, with the connection that the awaited hop belongs to.         *)
Alive ==
    life = "running" =>
        /\ state # "kFailed"
        /\ state = "kClosed" => Effective(tasks, rearming)
        /\ rearming => Clears(tasks)
        /\ Busy

(* What was spent on re-arms, and what is queued that will be: each unit   *)
(* came from an input.                                                     *)
Redial == signaling_connected_once /\ ~open /\ life # "exited"
Budget ==
    pc + One(pc = 0) + Number(tasks, Causes) + Number(sig, Causes) + Rearmings(tasks)
       + One(grace) + One(Redial) <= 1 + events

Inv == Typed /\ Fresh /\ Alive /\ LiveOffer /\ OneClear(tasks, rearming) /\ Budget

(* The state tables, entry by entry.                                       *)
LEMMA Tables ==
    /\ Awaited["kCreatingPc"] = {"negotiationNeeded"}
    /\ Awaited["kCreatingOffer"] = {"offerCreated", "createFailed"}
    /\ Awaited["kSettingLocal"] = {"localSet", "localFailed"}
    /\ Awaited["kSettingRemote"] = {"remoteSet", "remoteFailed"}
    /\ Called["kCreatingPc"] = {"negotiationNeeded"}
    /\ Called["kCreatingOffer"] = {"createOffer"}
    /\ Called["kSettingLocal"] = {"setLocal"}
    /\ Called["kSettingRemote"] = {"setRemote"}
BY DEF Awaited, Called, Waiting

(* No state waits for an envelope, a posted task or a state change.        *)
LEMMA AwaitedKinds ==
    \A s \in Waiting :
        /\ Awaited[s] \cap (Envelopes \cup Posted \cup IceStates \cup {"candidate"}) = {}
        /\ Awaited[s] \subseteq Completions \cup Observed \cup Posted
<1> TAKE s \in Waiting
<1>1. Awaited[s] \in {{"negotiationNeeded"}, {"offerCreated", "createFailed"},
                      {"localSet", "localFailed"}, {"remoteSet", "remoteFailed"}}
  BY Tables DEF Waiting
<1> QED  BY <1>1 DEF Envelopes, Posted, IceStates, Completions, Observed

(* The initial state satisfies the invariant.                              *)
LEMMA InitInv == Init => Inv
<1> SUFFICES ASSUME Init PROVE Inv
  OBVIOUS
<1>0. \A T : <<>> \in Seq(T)
  OBVIOUS
<1>1. Typed
  BY <1>0 DEF Init, Typed, States
<1>2. Fresh
  BY DEF Init, Fresh
<1>3. Alive
  BY DEF Init, Alive, Busy, Waiting
<1>4. LiveOffer
  BY DEF Init, LiveOffer, OfferOut, Terminal
<1>5. OneClear(tasks, rearming)
  BY DEF Init, OneClear
<1>6. Budget
  <2>1. /\ pc = 0 /\ events = 0 /\ Number(tasks, Causes) = 0 /\ Number(sig, Causes) = 0
        /\ Rearmings(tasks) = 0
    BY CountEmpty DEF Init
  <2>2. One(pc = 0) = 1 /\ One(grace) = 0 /\ One(Redial) = 0
    BY DEF Init, One, Redial
  <2> QED  BY <2>1, <2>2 DEF Budget
<1> QED  BY <1>1, <1>2, <1>3, <1>4, <1>5, <1>6 DEF Inv

-----------------------------------------------------------------------------
(* What the handlers do to the queues                                      *)

(* A step on one connection that adds no more to the queues than its       *)
(* inputs pay for keeps the budget.                                        *)
LEMMA BudgetKept ==
    ASSUME Typed, Typed', Budget, pc' = pc,
           NEW paid \in Nat, events' = events + paid,
           Number(tasks', Causes) + Number(sig', Causes) + Rearmings(tasks')
             + One(grace') + One(Redial')
           <= Number(tasks, Causes) + Number(sig, Causes) + Rearmings(tasks)
             + One(grace) + One(Redial) + paid
    PROVE  Budget'
<1>1. /\ Number(tasks, Causes) \in Nat /\ Number(sig, Causes) \in Nat
      /\ Rearmings(tasks) \in Nat
  BY Countable DEF Typed
<1>2. /\ Number(tasks', Causes) \in Nat /\ Number(sig', Causes) \in Nat
      /\ Rearmings(tasks') \in Nat
  BY Countable DEF Typed
<1>3. \A b : One(b) \in Nat
  BY DEF One
<1>4. pc \in Nat /\ events \in Nat
  BY DEF Typed
<1>5. /\ One(pc' = 0) = One(pc = 0) /\ One(pc = 0) \in Nat /\ One(grace) \in Nat
      /\ One(Redial) \in Nat /\ One(grace') \in Nat /\ One(Redial') \in Nat
  BY <1>3
<1>6. pc + One(pc = 0) + Number(tasks, Causes) + Number(sig, Causes) + Rearmings(tasks)
       + One(grace) + One(Redial) <= 1 + events
  BY DEF Budget
<1>7. pc' + One(pc' = 0) + Number(tasks', Causes) + Number(sig', Causes) + Rearmings(tasks')
       + One(grace') + One(Redial') <= 1 + events'
  BY <1>1, <1>2, <1>4, <1>5, <1>6
<1> QED  BY <1>7 DEF Budget

(* The sum of the parts, each of which may grow by what another loses.     *)
LEMMA Sums ==
    ASSUME NEW a \in Nat, NEW b \in Nat, NEW c \in Nat, NEW d \in Nat, NEW e \in Nat,
           NEW a1 \in Nat, NEW b1 \in Nat, NEW c1 \in Nat, NEW d1 \in Nat, NEW e1 \in Nat,
           NEW g \in Nat, a1 + g <= a, b1 <= b, c1 <= c, d1 <= d + g, e1 <= e
    PROVE  a1 + b1 + c1 + d1 + e1 <= a + b + c + d + e + 0
OBVIOUS

(* The same where the re-arms gain what the causes lose.                   *)
LEMMA SumsPaid ==
    ASSUME NEW a \in Nat, NEW b \in Nat, NEW c \in Nat, NEW d \in Nat, NEW e \in Nat,
           NEW a1 \in Nat, NEW b1 \in Nat, NEW c1 \in Nat, NEW d1, NEW e1,
           d1 = d, e1 = e, a1 + 1 <= a, b1 <= b, c1 <= c + 1
    PROVE  a1 + b1 + c1 + d1 + e1 <= a + b + c + d + e + 0
OBVIOUS

(* The sum after a re-arm: a new connection for a re-arm or a timer.       *)
LEMMA SumsRearmed ==
    ASSUME NEW p \in Nat, NEW z \in Nat, NEW a \in Nat, NEW b \in Nat, NEW c \in Nat,
           NEW d \in Nat, NEW e \in Nat, NEW a1 \in Nat, NEW e1 \in Nat, NEW limit \in Nat,
           p + z + a + b + c + d + e <= 1 + limit,
           a1 <= a + b, 1 <= c + d, e1 <= e
    PROVE  (p + 1) + 0 + a1 + 0 + 0 + 0 + e1 <= 1 + limit
OBVIOUS

(* Running the first task, one the worker did not post to itself.          *)
LEMMA Popped ==
    ASSUME Inv, tasks # <<>>, Head(tasks).what \notin Rearms \cup {"clear"},
           tasks' = Tail(tasks), rearming' = rearming
    PROVE  /\ Head(tasks) \in Hops /\ tasks' \in Seq(Hops)
           /\ OneClear(tasks', rearming')
           /\ Effective(tasks, rearming) => Effective(tasks', rearming')
           /\ Clears(tasks) => Clears(tasks')
           /\ \A w, e : Has(tasks, w, e) =>
                Has(tasks', w, e) \/ (Head(tasks).what \in w /\ Head(tasks).e = e)
           /\ Number(tasks', Causes) + One(Head(tasks).what \in Causes)
                <= Number(tasks, Causes)
           /\ Rearmings(tasks') <= Rearmings(tasks)
<1>1. tasks \in Seq(Hops) /\ OneClear(tasks, rearming)
  BY DEF Inv, Typed
<1>2. /\ Head(tasks) \in Hops /\ Tail(tasks) \in Seq(Hops)
      /\ \A w, e : Has(tasks, w, e) =>
           Has(Tail(tasks), w, e) \/ (Head(tasks).what \in w /\ Head(tasks).e = e)
      /\ Clears(tasks) => Clears(Tail(tasks)) \/ Head(tasks).what = "clear"
      /\ \A r : Effective(tasks, r) /\ Head(tasks).what \notin Rearms \cup {"clear"}
           => Effective(Tail(tasks), r)
      /\ \A r : OneClear(tasks, r) => OneClear(Tail(tasks), r)
  BY <1>1, HasTail
<1>3. /\ \A w : Number(Tail(tasks), w) + One(Head(tasks).what \in w) <= Number(tasks, w)
      /\ Rearmings(Tail(tasks)) <= Rearmings(tasks)
  BY <1>1, CountTail
<1> QED  BY <1>1, <1>2, <1>3

(* Such a task keeps the budget when the signaling thread gets no cause.   *)
LEMMA PoppedBudget ==
    ASSUME Inv, Typed', tasks # <<>>, Head(tasks).what \notin Rearms \cup {"clear"},
           tasks' = Tail(tasks), rearming' = rearming, pc' = pc, events' = events,
           Number(sig', Causes) <= Number(sig, Causes),
           One(grace') <= One(grace) + One(Head(tasks).what \in Causes),
           One(Redial') <= One(Redial)
    PROVE  Budget'
<1>1. /\ Number(tasks', Causes) + One(Head(tasks).what \in Causes) <= Number(tasks, Causes)
      /\ Rearmings(tasks') <= Rearmings(tasks)
  BY Popped
<1>2. /\ Number(tasks, Causes) \in Nat /\ Number(sig, Causes) \in Nat
      /\ Rearmings(tasks) \in Nat
  BY Countable DEF Inv, Typed
<1>3. /\ Number(tasks', Causes) \in Nat /\ Number(sig', Causes) \in Nat
      /\ Rearmings(tasks') \in Nat
  BY Countable DEF Typed
<1>4. \A b : One(b) \in Nat
  BY DEF One
<1>5. /\ One(grace) \in Nat /\ One(Redial) \in Nat /\ One(grace') \in Nat
      /\ One(Redial') \in Nat /\ One(Head(tasks).what \in Causes) \in Nat
  BY <1>4
<1>6. Number(tasks', Causes) + Number(sig', Causes) + Rearmings(tasks')
        + One(grace') + One(Redial')
      <= Number(tasks, Causes) + Number(sig, Causes) + Rearmings(tasks)
        + One(grace) + One(Redial) + 0
  BY <1>1, <1>2, <1>3, <1>5, Sums
<1>7. Typed /\ Budget /\ events' = events + 0
  BY DEF Inv, Typed
<1> QED  BY <1>6, <1>7, BudgetKept

(* A call on the signaling thread, or the close of the connection.         *)
LEMMA CallsOut ==
    ASSUME Typed, NEW what \in Calls \cup {"closed"}, NEW k \in Nat, Call(what, k)
    PROVE  /\ sig' \in Seq(Ops)
           /\ Number(sig', Causes) <= Number(sig, Causes)
           /\ \A w, e : Has(sig, w, e) => Has(sig', w, e)
           /\ \A w : what \in w => Has(sig', w, pc)
<1> DEFINE m == Task(what, pc, k)
<1>1. m \in Ops /\ m.what = what /\ m.e = pc /\ sig \in Seq(Ops)
  BY DEF Typed, Ops, Task, Calls, Observed, IceStates
<1>2. what \notin Causes
  BY DEF Causes, Calls
<1>3. sig' = Append(sig, m)
  BY DEF Call
<1> HIDE DEF m
<1>4. /\ sig' \in Seq(Ops)
      /\ \A w, e : Has(sig, w, e) \/ (m.what \in w /\ m.e = e) => Has(sig', w, e)
  BY <1>1, <1>3, HasAppend
<1>5. Number(sig', Causes) <= Number(sig, Causes) + One(m.what \in Causes)
  BY <1>1, <1>3, CountAppend
<1>6. One(m.what \in Causes) = 0 /\ Number(sig, Causes) \in Nat /\ Number(sig', Causes) \in Nat
  BY <1>1, <1>2, <1>4, Countable DEF One
<1>7. Number(sig', Causes) <= Number(sig, Causes)
  BY <1>5, <1>6
<1> QED  BY <1>1, <1>4, <1>7

(* Which hops and calls a waiting session has carries over when the state  *)
(* does and the queues lose none of them.                                  *)
LEMMA BusyKept ==
    ASSUME Busy, state' = state, pc' = pc, pending_local_offer' = pending_local_offer,
           ws_connected' = ws_connected,
           \A w : Has(sig, w, pc) => Has(sig', w, pc),
           state \in Waiting /\ Has(tasks, Awaited[state], pc)
             => Has(tasks', Awaited[state], pc)
    PROVE  Busy'
BY DEF Busy

-----------------------------------------------------------------------------
(* The steps of the UI thread                                              *)

(* FailWithReason out of a handler: the worker is no longer running, so    *)
(* nothing is owed to a viewer.                                            *)
LEMMA FailStep ==
    ASSUME Inv, tasks # <<>>, Head(tasks).what \notin Rearms \cup {"clear"},
           life \in {"running", "dying"}, UNCHANGED <<open, events>>, Fail(Tail(tasks))
    PROVE  Inv'
<1>1. Typed /\ Fresh /\ LiveOffer /\ 0 \in Nat
  BY DEF Inv
<1>2. /\ sig' \in Seq(Ops) /\ Number(sig', Causes) <= Number(sig, Causes)
  BY <1>1, CallsOut DEF Fail, ClosePc
<1>3. /\ tasks' = Tail(tasks) /\ rearming' = rearming /\ pc' = pc /\ events' = events
      /\ grace' = grace /\ state' = "kFailed" /\ life' # "running" /\ life' # "exited"
      /\ signaling_connected_once' = signaling_connected_once /\ open' = open
      /\ pending_local_offer' = pending_local_offer /\ pending_remote_ice' = <<>>
      /\ pending_early_answer' = pending_early_answer
  BY DEF Fail
<1>4. tasks' \in Seq(Hops) /\ OneClear(tasks', rearming')
  BY <1>3, Popped
<1>5. Typed'
  BY <1>1, <1>2, <1>3, <1>4 DEF Typed, States
<1>6. Fresh'
  BY <1>1, <1>3 DEF Fresh, Terminal
<1>7. Alive'
  BY <1>3 DEF Alive
<1>8. LiveOffer'
  BY <1>1, <1>3 DEF LiveOffer, OfferOut
<1>9. One(grace') <= One(grace) + One(Head(tasks).what \in Causes)
      /\ One(Redial') <= One(Redial)
  BY <1>3 DEF One, Redial
<1>10. Budget'
  BY <1>2, <1>3, <1>5, <1>9, PoppedBudget
<1> QED  BY <1>4, <1>5, <1>6, <1>7, <1>8, <1>10 DEF Inv

(* A handler that returns early, on a task no state waits for.             *)
LEMMA DropStep ==
    ASSUME Inv, tasks # <<>>, Head(tasks).what \notin Rearms \cup {"clear"},
           UNCHANGED <<open, events>>, Drop(Tail(tasks)),
           \/ Head(tasks).e # pc
           \/ state \notin Waiting
           \/ Head(tasks).what \in Envelopes \cup IceStates \cup {"candidate"}
    PROVE  Inv'
<1>1. Typed /\ Fresh /\ Alive /\ LiveOffer
  BY DEF Inv
<1>2. /\ tasks' = Tail(tasks) /\ UNCHANGED <<driverVars, mainVars, sig, historyVars>>
      /\ UNCHANGED <<open, events>>
  BY DEF Drop
<1>3. /\ rearming' = rearming /\ pc' = pc /\ events' = events /\ sig' = sig
      /\ grace' = grace /\ state' = state /\ life' = life /\ open' = open
      /\ signaling_connected_once' = signaling_connected_once
      /\ pending_local_offer' = pending_local_offer
      /\ pending_remote_ice' = pending_remote_ice
      /\ pending_early_answer' = pending_early_answer
      /\ initial_renegotiation_consumed' = initial_renegotiation_consumed
      /\ ws_connected' = ws_connected /\ offerPc' = offerPc
  BY <1>2 DEF driverVars, iceVars, mainVars, historyVars
<1>4. /\ tasks' \in Seq(Hops) /\ OneClear(tasks', rearming')
      /\ Effective(tasks, rearming) => Effective(tasks', rearming')
      /\ Clears(tasks) => Clears(tasks')
      /\ \A w, e : Has(tasks, w, e) =>
           Has(tasks', w, e) \/ (Head(tasks).what \in w /\ Head(tasks).e = e)
  BY <1>2, <1>3, Popped
<1>5. Typed'
  BY <1>1, <1>3, <1>4 DEF Typed
<1>6. Fresh'
  BY <1>1, <1>3 DEF Fresh
<1>7. state \in Waiting /\ Has(tasks, Awaited[state], pc) => Has(tasks', Awaited[state], pc)
  BY <1>4, AwaitedKinds
<1>8. Alive'
  <2>1. Busy => Busy'
    BY <1>3, <1>7, BusyKept
  <2> QED  BY <1>1, <1>3, <1>4, <2>1 DEF Alive
<1>9. LiveOffer'
  BY <1>1, <1>3 DEF LiveOffer, OfferOut
<1>10. One(grace') <= One(grace) + One(Head(tasks).what \in Causes)
       /\ One(Redial') <= One(Redial) /\ Number(sig', Causes) <= Number(sig, Causes)
  <2>1. Number(sig, Causes) \in Nat
    BY <1>1, Countable DEF Typed
  <2> QED  BY <1>3, <2>1 DEF One, Redial
<1>11. Budget'
  BY <1>2, <1>3, <1>5, <1>10, PoppedBudget
<1> QED  BY <1>4, <1>5, <1>6, <1>8, <1>9, <1>11 DEF Inv

(* A handler that goes on with the session: what is left to show is what   *)
(* it does to the driver.                                                  *)
LEMMA HandledStep ==
    ASSUME Inv, tasks # <<>>, Head(tasks).what \notin Rearms \cup {"clear"},
           life \in {"running", "dying"}, tasks' = Tail(tasks),
           UNCHANGED <<open, events, pc, rearming, signaling_connected_once, life>>,
           One(grace') <= One(grace) + One(Head(tasks).what \in Causes),
           sig' \in Seq(Ops), Number(sig', Causes) <= Number(sig, Causes),
           state' \in States, state' \notin Terminal \/ state' = state,
           pending_local_offer' \in Nat, pending_early_answer' \in Nat,
           pending_remote_ice' \in Seq(Nat),
           Fresh', LiveOffer', life = "running" => Busy'
    PROVE  Inv'
<1>1. Typed /\ Alive
  BY DEF Inv
<1>2. /\ tasks' \in Seq(Hops) /\ OneClear(tasks', rearming')
      /\ Effective(tasks, rearming) => Effective(tasks', rearming')
      /\ Clears(tasks) => Clears(tasks')
  BY Popped
<1>3. Typed'
  BY <1>1, <1>2 DEF Typed
<1>4. Alive'
  BY <1>1, <1>2 DEF Alive, Terminal
<1>5. One(Redial') <= One(Redial)
  BY DEF One, Redial
<1>6. Budget'
  BY <1>3, <1>5, PoppedBudget
<1> QED  BY <1>2, <1>3, <1>4, <1>6 DEF Inv

(* An envelope after the end of the session, and a hop of a dropped        *)
(* connection.                                                             *)
LEMMA DiscardedStep == ASSUME Inv, Discarded PROVE Inv'
<1>1. tasks # <<>> /\ UNCHANGED <<open, events>> /\ Drop(Tail(tasks))
  BY DEF Discarded, TaskIs
<1>2. CASE \E what \in Envelopes : TaskIs(what) /\ state \in Terminal
  <2>1. Head(tasks).what \in Envelopes
    BY <1>2 DEF TaskIs
  <2>2. Head(tasks).what \notin Rearms \cup {"clear"}
    BY <2>1 DEF Envelopes, Rearms
  <2> QED  BY <1>1, <2>1, <2>2, DropStep
<1>3. CASE \E what \in Completions \cup Observed : TaskIs(what) /\ ~Live(Head(tasks))
  <2>1. Head(tasks).what \in Completions \cup Observed /\ Head(tasks).e # pc
    BY <1>3 DEF TaskIs, Live
  <2>2. Head(tasks).what \notin Rearms \cup {"clear"}
    BY <2>1 DEF Completions, Observed, IceStates, Rearms
  <2> QED  BY <1>1, <2>1, <2>2, DropStep
<1> QED  BY <1>2, <1>3 DEF Discarded

(* An offer from the viewer's side.                                        *)
LEMMA HandleOfferStep == ASSUME Inv, HandleOffer PROVE Inv'
<1>1. /\ tasks # <<>> /\ UNCHANGED <<open, events>> /\ Fail(Tail(tasks))
      /\ life \in {"running", "dying"} /\ Head(tasks).what = "offer"
  BY DEF HandleOffer, Received, TaskIs
<1>2. Head(tasks).what \notin Rearms \cup {"clear"}
  BY <1>1 DEF Rearms
<1> QED  BY <1>1, <1>2, FailStep

(* A call that failed.                                                     *)
LEMMA HopHandleFailureStep == ASSUME Inv, HopHandleFailure PROVE Inv'
<1>1. /\ tasks # <<>> /\ UNCHANGED <<open, events>> /\ Fail(Tail(tasks))
      /\ life \in {"running", "dying"}
      /\ Head(tasks).what \in {"createFailed", "localFailed", "remoteFailed"}
  BY DEF HopHandleFailure, Landed, TaskIs
<1>2. Head(tasks).what \notin Rearms \cup {"clear"}
  BY <1>1 DEF Rearms
<1> QED  BY <1>1, <1>2, FailStep

(* A local candidate.                                                      *)
LEMMA HopHandleIceCandidateStep == ASSUME Inv, HopHandleIceCandidate PROVE Inv'
<1>1. /\ tasks # <<>> /\ UNCHANGED <<open, events>> /\ Drop(Tail(tasks))
      /\ Head(tasks).what = "candidate"
  BY DEF HopHandleIceCandidate, Landed, TaskIs
<1>2. Head(tasks).what \notin Rearms \cup {"clear"}
  BY <1>1 DEF Rearms
<1> QED  BY <1>1, <1>2, DropStep

(* SetRemoteDescription is under way, or the answer did not parse.         *)
LEMMA ApplyAnswerStep ==
    ASSUME Inv, tasks # <<>>, Head(tasks).what \notin Rearms \cup {"clear"},
           life \in {"running", "dying"}, UNCHANGED <<open, events>>,
           state \in {"kSettingLocal", "kAwaitingAnswer"},
           NEW k \in Nat, ApplyAnswer(k, Tail(tasks))
    PROVE  Inv'
<1>1. CASE Fail(Tail(tasks))
  BY <1>1, FailStep
<1>2. CASE ~Fail(Tail(tasks))
  <2>1. /\ state' = "kSettingRemote" /\ pending_early_answer' = 0 /\ Call("setRemote", k)
        /\ tasks' = Tail(tasks)
        /\ UNCHANGED <<iceVars, pc, pending_local_offer, mainVars, offerPc>>
    BY <1>2 DEF ApplyAnswer
  <2>2. /\ UNCHANGED <<pc, rearming, signaling_connected_once, life, offerPc>>
        /\ grace' = grace
        /\ pending_local_offer' = pending_local_offer
        /\ pending_remote_ice' = pending_remote_ice
    BY <2>1 DEF iceVars, mainVars
  <2>3. Typed /\ Fresh /\ LiveOffer /\ "setRemote" \in Calls
    BY DEF Inv, Calls
  <2>4. /\ sig' \in Seq(Ops) /\ Number(sig', Causes) <= Number(sig, Causes)
        /\ \A w : "setRemote" \in w => Has(sig', w, pc)
    BY <2>1, <2>3, CallsOut
  <2>5. Busy'
    BY <2>1, <2>2, <2>4, Tables DEF Busy
  <2>6. Fresh'
    BY <2>1, <2>2, <2>3 DEF Fresh, Terminal
  <2>7. LiveOffer'
    BY <2>1, <2>2, <2>3 DEF LiveOffer, OfferOut, Terminal
  <2>8. /\ state' \in States /\ state' \notin Terminal /\ pending_local_offer' \in Nat
        /\ pending_early_answer' \in Nat /\ pending_remote_ice' \in Seq(Nat)
    BY <2>1, <2>2, <2>3 DEF States, Terminal, Typed
  <2>9. One(grace') <= One(grace) + One(Head(tasks).what \in Causes)
    BY <2>2 DEF One
  <2> QED  BY <2>1, <2>2, <2>4, <2>5, <2>6, <2>7, <2>8, <2>9, HandledStep
<1> QED  BY <1>1, <1>2

(* An answer: dropped, kept for later, applied, or too early.              *)
LEMMA HandleAnswerStep == ASSUME Inv, HandleAnswer PROVE Inv'
<1>1. /\ tasks # <<>> /\ UNCHANGED <<open, events>> /\ life \in {"running", "dying"}
      /\ Head(tasks).what = "answer"
  BY DEF HandleAnswer, Received, TaskIs
<1>2. Head(tasks).what \notin Rearms \cup {"clear"} /\ Head(tasks).what \in Envelopes
  BY <1>1 DEF Rearms, Envelopes
<1>3. Typed /\ Fresh /\ Alive /\ LiveOffer
  BY DEF Inv
<1>4. Head(tasks).k \in Nat
  <2>1. Head(tasks) \in Hops
    BY <1>1, <1>3, HasTail DEF Typed
  <2> QED  BY <2>1 DEF Hops
<1>5. CASE Drop(Tail(tasks))
  BY <1>1, <1>2, <1>5, DropStep
<1>6. CASE Fail(Tail(tasks))
  BY <1>1, <1>2, <1>6, FailStep
<1>7. CASE state = "kAwaitingAnswer" /\ ApplyAnswer(Head(tasks).k, Tail(tasks))
  BY <1>1, <1>2, <1>4, <1>7, ApplyAnswerStep
<1>8. CASE /\ state \in {"kCreatingOffer", "kSettingLocal"}
           /\ pending_early_answer' = Head(tasks).k
           /\ tasks' = Tail(tasks)
           /\ UNCHANGED <<iceVars, state, pc, ws_connected, pending_local_offer,
                          initial_renegotiation_consumed, mainVars, sig, historyVars>>
  <2>1. /\ UNCHANGED <<state, pc, ws_connected, pending_local_offer, rearming,
                       signaling_connected_once, life, offerPc, sig>>
        /\ state' = state /\ grace' = grace /\ pc' = pc /\ sig' = sig
        /\ pending_local_offer' = pending_local_offer
        /\ ws_connected' = ws_connected /\ rearming' = rearming
        /\ pending_remote_ice' = pending_remote_ice
    BY <1>8 DEF iceVars, mainVars, historyVars
  <2>2. \A w, e : Has(tasks, w, e) =>
          Has(tasks', w, e) \/ (Head(tasks).what \in w /\ Head(tasks).e = e)
    BY <1>1, <1>2, <1>8, <2>1, Popped
  <2>3. state \in Waiting /\ Has(tasks, Awaited[state], pc) => Has(tasks', Awaited[state], pc)
    BY <1>2, <2>2, AwaitedKinds
  <2>4. Busy => Busy'
    BY <2>1, <2>3, BusyKept
  <2>5. life = "running" => Busy'
    BY <1>3, <2>4 DEF Alive
  <2>6. Fresh'
    BY <1>3, <1>8, <2>1 DEF Fresh, Terminal
  <2>7. LiveOffer'
    BY <1>3, <1>8, <2>1 DEF LiveOffer, OfferOut
  <2>8. /\ state' \in States /\ pending_local_offer' \in Nat /\ sig' \in Seq(Ops)
        /\ pending_early_answer' \in Nat /\ pending_remote_ice' \in Seq(Nat)
    BY <1>3, <1>4, <1>8, <2>1 DEF Typed
  <2>9. One(grace') <= One(grace) + One(Head(tasks).what \in Causes)
        /\ Number(sig', Causes) <= Number(sig, Causes)
    <3>1. Number(sig, Causes) \in Nat
      BY <1>3, Countable DEF Typed
    <3> QED  BY <2>1, <3>1 DEF One
  <2> QED  BY <1>1, <1>2, <1>8, <2>1, <2>5, <2>6, <2>7, <2>8, <2>9, HandledStep
<1> QED  BY <1>5, <1>6, <1>7, <1>8 DEF HandleAnswer

(* A queue with none of a kind.                                            *)
LEMMA NoneOf ==
    ASSUME NEW T, NEW q \in Seq(T), NEW w, \A i \in 1..Len(q) : q[i].what \notin w
    PROVE  Number(q, w) = 0
<1>1. Places(q, w) = {}
  BY DEF Places
<1> QED  BY <1>1, FS_EmptySet DEF Number

(* The candidates handed to libwebrtc.                                     *)
LEMMA Flushed ==
    ASSUME Typed, NEW n \in Nat
    PROVE  /\ FlushPendingRemoteIce(n) \in Seq(Ops)
           /\ Number(FlushPendingRemoteIce(n), Causes) = 0
<1> DEFINE m == Task("addIce", pc, 0)
           f == FlushPendingRemoteIce(n)
<1>1. m \in Ops /\ m.what = "addIce"
  BY DEF Typed, Ops, Calls, Task
<1> HIDE DEF m
<1>2. f = [i \in 1..n |-> m]
  BY DEF FlushPendingRemoteIce, m
<1> HIDE DEF f
<1>3. f \in Seq(Ops) /\ Len(f) = n /\ \A i \in 1..Len(f) : f[i] = m
  BY <1>1, <1>2
<1>4. Number(f, Causes) = 0
  BY <1>1, <1>3, NoneOf DEF Causes
<1> QED  BY <1>3, <1>4 DEF f

(* A candidate: added, held back or dropped.                               *)
LEMMA HandleIceStep == ASSUME Inv, HandleIce PROVE Inv'
<1>1. /\ tasks # <<>> /\ UNCHANGED <<open, events>> /\ life \in {"running", "dying"}
      /\ Head(tasks).what = "ice" /\ state \notin Terminal /\ tasks' = Tail(tasks)
  BY DEF HandleIce, Received, TaskIs
<1>2. Head(tasks).what \notin Rearms \cup {"clear"} /\ Head(tasks).what \in Envelopes
  BY <1>1 DEF Rearms, Envelopes
<1>3. Typed /\ Fresh /\ Alive /\ LiveOffer
  BY DEF Inv
<1>4. /\ UNCHANGED <<state, pc, ws_connected, pending_local_offer, rearming,
                     signaling_connected_once, life, offerPc>>
      /\ state' = state /\ grace' = grace /\ pc' = pc
      /\ pending_local_offer' = pending_local_offer
      /\ pending_early_answer' = pending_early_answer
      /\ initial_renegotiation_consumed' = initial_renegotiation_consumed
      /\ ws_connected' = ws_connected /\ rearming' = rearming
  BY DEF HandleIce, mainVars, historyVars
<1>5. \A w, e : Has(tasks, w, e) =>
        Has(tasks', w, e) \/ (Head(tasks).what \in w /\ Head(tasks).e = e)
  BY <1>1, <1>2, <1>4, Popped
<1>6. state \in Waiting /\ Has(tasks, Awaited[state], pc) => Has(tasks', Awaited[state], pc)
  BY <1>2, <1>5, AwaitedKinds
<1>7. /\ sig' \in Seq(Ops) /\ Number(sig', Causes) <= Number(sig, Causes)
      /\ \A w : Has(sig, w, pc) => Has(sig', w, pc)
  <2>1. Number(sig, Causes) \in Nat
    BY <1>3, Countable DEF Typed
  <2>2. CASE sig' = sig
    BY <1>3, <2>1, <2>2 DEF Typed
  <2>3. CASE sig' = sig \o FlushPendingRemoteIce(1)
    <3> DEFINE f == FlushPendingRemoteIce(1)
    <3>1. f \in Seq(Ops) /\ Number(f, Causes) = 0
      BY <1>3, Flushed
    <3> HIDE DEF f
    <3>2. sig' \in Seq(Ops) /\ \A w, e : Has(sig, w, e) => Has(sig', w, e)
      BY <1>3, <2>3, <3>1, HasConcat DEF Typed, f
    <3>3. Number(sig', Causes) <= Number(sig, Causes) + Number(f, Causes)
      BY <1>3, <2>3, <3>1, CountConcat DEF Typed, f
    <3>4. Number(sig', Causes) <= Number(sig, Causes)
      BY <2>1, <3>1, <3>3
    <3> QED  BY <3>2, <3>4
  <2> QED  BY <2>2, <2>3 DEF HandleIce
<1>8. life = "running" => Busy'
  <2>1. Busy => Busy'
    BY <1>4, <1>6, <1>7, BusyKept
  <2> QED  BY <1>3, <2>1 DEF Alive
<1>9. /\ \/ pending_remote_ice' = pending_remote_ice
         \/ pending_remote_ice' = Append(pending_remote_ice, pc) /\ CanQueueMidDance
  BY DEF HandleIce
<1>10. CanQueueMidDance => state \in {"kAwaitingAnswer", "kSettingRemote", "kCreatingOffer",
                                      "kSettingLocal"}
  BY DEF CanQueueMidDance
<1>11. /\ pending_remote_ice' \in Seq(Nat)
       /\ \A i \in DOMAIN pending_remote_ice' : pending_remote_ice'[i] = pc
       /\ pending_remote_ice' = pending_remote_ice \/ CanQueueMidDance
  <2>1. \A q \in Seq(Nat) : \A n \in Nat :
          /\ Append(q, n) \in Seq(Nat)
          /\ (\A i \in DOMAIN q : q[i] = n) => \A i \in DOMAIN Append(q, n) : Append(q, n)[i] = n
    OBVIOUS
  <2>2. pending_remote_ice \in Seq(Nat) /\ pc \in Nat
        /\ \A i \in DOMAIN pending_remote_ice : pending_remote_ice[i] = pc
    BY <1>3 DEF Typed, LiveOffer
  <2> QED  BY <1>9, <2>1, <2>2
<1>12. Fresh'
  BY <1>3, <1>4, <1>9, <1>10 DEF Fresh, Terminal
<1>13. LiveOffer'
  BY <1>3, <1>4, <1>10, <1>11 DEF LiveOffer, OfferOut, Terminal
<1>14. /\ state' \in States /\ pending_local_offer' \in Nat /\ pending_early_answer' \in Nat
  BY <1>3, <1>4 DEF Typed
<1>15. One(grace') <= One(grace) + One(Head(tasks).what \in Causes)
  BY <1>4 DEF One
<1> QED  BY <1>1, <1>2, <1>4, <1>7, <1>8, <1>11, <1>12, <1>13, <1>14, <1>15, HandledStep

(* What a handler leaves that answers a cause with a re-arm.               *)
LEMMA Posts ==
    ASSUME Inv, tasks # <<>>, Head(tasks).what \in {"bye", "request_renegotiate"},
           NEW what \in Rearms, tasks' = Append(Tail(tasks), Task(what, 0, 0)),
           rearming' = rearming
    PROVE  /\ tasks' \in Seq(Hops) /\ OneClear(tasks', rearming')
           /\ ~rearming \/ Clears(tasks) => Effective(tasks', rearming')
           /\ Effective(tasks, rearming) => Effective(tasks', rearming')
           /\ Clears(tasks) => Clears(tasks')
           /\ \A w, e : Has(tasks, w, e) =>
                Has(tasks', w, e) \/ (Head(tasks).what \in w /\ Head(tasks).e = e)
           /\ Number(tasks', Causes) + 1 <= Number(tasks, Causes)
           /\ Rearmings(tasks') <= Rearmings(tasks) + 1
<1> DEFINE t == Tail(tasks)
           m == Task(what, 0, 0)
<1>1. /\ tasks \in Seq(Hops) /\ OneClear(tasks, rearming)
      /\ Head(tasks).what \notin Rearms \cup {"clear"} /\ Head(tasks).what \in Causes
  BY DEF Inv, Typed, Rearms, Causes
<1>2. m \in Hops /\ m.what = what /\ what # "clear" /\ what \notin Causes
  BY DEF Hops, Task, Posted, Rearms, Causes
<1> HIDE DEF m
<1>3. /\ t \in Seq(Hops)
      /\ \A w, e : Has(tasks, w, e) =>
           Has(t, w, e) \/ (Head(tasks).what \in w /\ Head(tasks).e = e)
      /\ Clears(tasks) => Clears(t) \/ Head(tasks).what = "clear"
      /\ \A r : Effective(tasks, r) /\ Head(tasks).what \notin Rearms \cup {"clear"}
           => Effective(t, r)
      /\ \A r : OneClear(tasks, r) => OneClear(t, r)
  BY <1>1, HasTail
<1>4. /\ Number(t, Causes) + One(Head(tasks).what \in Causes) <= Number(tasks, Causes)
      /\ Rearmings(t) <= Rearmings(tasks)
  BY <1>1, CountTail
<1> HIDE DEF t
<1>5. tasks' = Append(t, m)
  BY DEF t, m
<1>6. /\ tasks' \in Seq(Hops)
      /\ \A w, e : Has(t, w, e) => Has(tasks', w, e)
      /\ Clears(t) => Clears(tasks')
      /\ \A r : Effective(t, r) => Effective(tasks', r)
      /\ \A r : m.what \in Rearms /\ (~r \/ Clears(t)) => Effective(tasks', r)
      /\ \A r : OneClear(t, r) /\ m.what # "clear" => OneClear(tasks', r)
  <2>1. /\ Append(t, m) \in Seq(Hops)
        /\ \A w, e : Has(t, w, e) \/ (m.what \in w /\ m.e = e) => Has(Append(t, m), w, e)
        /\ Clears(t) \/ m.what = "clear" => Clears(Append(t, m))
        /\ \A r : Effective(t, r) => Effective(Append(t, m), r)
        /\ \A r : m.what \in Rearms /\ (~r \/ Clears(t)) => Effective(Append(t, m), r)
        /\ \A r : OneClear(t, r) /\ m.what # "clear" => OneClear(Append(t, m), r)
    BY <1>2, <1>3, HasAppend
  <2> QED  BY <1>5, <2>1
<1>7. /\ Number(tasks', Causes) <= Number(t, Causes) + One(m.what \in Causes)
      /\ Rearmings(tasks') <= Rearmings(t) + One(m.what \in Rearms)
  BY <1>2, <1>3, <1>5, CountAppend
<1>8. One(Head(tasks).what \in Causes) = 1 /\ One(m.what \in Causes) = 0
      /\ One(m.what \in Rearms) = 1
  BY <1>1, <1>2 DEF One
<1>9. /\ Number(t, Causes) \in Nat /\ Number(tasks, Causes) \in Nat
      /\ Number(tasks', Causes) \in Nat
      /\ Rearmings(t) \in Nat /\ Rearmings(tasks) \in Nat /\ Rearmings(tasks') \in Nat
  BY <1>1, <1>3, <1>6, Countable
<1>10. Number(tasks', Causes) + 1 <= Number(tasks, Causes)
  BY <1>4, <1>7, <1>8, <1>9
<1>11. Rearmings(tasks') <= Rearmings(tasks) + 1
  BY <1>4, <1>7, <1>8, <1>9
<1> QED  BY <1>1, <1>2, <1>3, <1>6, <1>10, <1>11

(* The re-arm is paid by the cause that asked for it.                      *)
LEMMA PostsBudget ==
    ASSUME Inv, Typed', Number(tasks', Causes) + 1 <= Number(tasks, Causes),
           Rearmings(tasks') <= Rearmings(tasks) + 1,
           Number(sig', Causes) <= Number(sig, Causes),
           UNCHANGED <<pc, events, grace, signaling_connected_once, open, life>>
    PROVE  Budget'
<1>1. /\ Number(tasks, Causes) \in Nat /\ Number(sig, Causes) \in Nat
      /\ Rearmings(tasks) \in Nat
  BY Countable DEF Inv, Typed
<1>2. /\ Number(tasks', Causes) \in Nat /\ Number(sig', Causes) \in Nat
      /\ Rearmings(tasks') \in Nat
  BY Countable DEF Typed
<1>3. \A b : One(b) \in Nat
  BY DEF One
<1>4. One(grace') = One(grace) /\ One(Redial') = One(Redial)
      /\ One(grace) \in Nat /\ One(Redial) \in Nat
  BY <1>3 DEF Redial
<1>5. Number(tasks', Causes) + Number(sig', Causes) + Rearmings(tasks')
        + One(grace') + One(Redial')
      <= Number(tasks, Causes) + Number(sig, Causes) + Rearmings(tasks)
        + One(grace) + One(Redial) + 0
  BY <1>1, <1>2, <1>4, SumsPaid
<1>6. Typed /\ Budget /\ pc' = pc /\ events' = events + 0
  BY DEF Inv, Typed
<1> QED  BY <1>5, <1>6, BudgetKept

(* A viewer's bye closes the session and posts the re-arm that follows.    *)
LEMMA HandleByeStep == ASSUME Inv, HandleBye PROVE Inv'
<1>1. /\ tasks # <<>> /\ UNCHANGED <<open, events>> /\ life \in {"running", "dying"}
      /\ Head(tasks).what = "bye" /\ state \notin Terminal
  BY DEF HandleBye, Received, TaskIs
<1>2. Head(tasks).what \notin Rearms \cup {"clear"} /\ Head(tasks).what \in Envelopes
      /\ Head(tasks).what \in {"bye", "request_renegotiate"}
  BY <1>1 DEF Rearms, Envelopes
<1>3. Typed /\ Fresh /\ Alive /\ LiveOffer /\ 0 \in Nat
  BY DEF Inv
<1>4. CASE Drop(Tail(tasks))
  BY <1>1, <1>2, <1>4, DropStep
<1>5. CASE state \notin {"kIdle", "kCreatingPc"} /\ Close(Tail(tasks))
  <2>1. /\ UNCHANGED <<pc, rearming, signaling_connected_once, life, offerPc>>
        /\ state' = "kClosed" /\ grace' = grace /\ pc' = pc /\ rearming' = rearming
        /\ pending_local_offer' = pending_local_offer
        /\ pending_early_answer' = pending_early_answer
        /\ pending_remote_ice' = <<>> /\ Call("closed", 0)
        /\ tasks' = OnClosed(Tail(tasks)) /\ life' = life
    BY <1>5 DEF Close, ClosePc, mainVars, historyVars
  <2>2. sig' \in Seq(Ops) /\ Number(sig', Causes) <= Number(sig, Causes)
    BY <1>3, <2>1, CallsOut
  <2>3. Fresh'
    <3>1. pc # 0
      BY <1>1, <1>3, <1>5 DEF Fresh
    <3> QED  BY <2>1, <3>1 DEF Fresh
  <2>4. LiveOffer'
    BY <1>3, <2>1 DEF LiveOffer, OfferOut
  <2>5. tasks' \in Seq(Hops) => Typed'
    BY <1>1, <1>3, <2>1, <2>2 DEF Typed, States
  <2>6. CASE life = "running"
    <3>1. tasks' = Append(Tail(tasks), Task("rearmBye", 0, 0)) /\ "rearmBye" \in Rearms
      BY <2>1, <2>6 DEF OnClosed, Rearms
    <3>2. /\ tasks' \in Seq(Hops) /\ OneClear(tasks', rearming')
          /\ ~rearming \/ Clears(tasks) => Effective(tasks', rearming')
          /\ Clears(tasks) => Clears(tasks')
          /\ Number(tasks', Causes) + 1 <= Number(tasks, Causes)
          /\ Rearmings(tasks') <= Rearmings(tasks) + 1
      BY <1>1, <1>2, <2>1, <3>1, Posts
    <3>3. Alive'
      BY <1>3, <2>1, <3>2 DEF Alive, Busy, Waiting
    <3>4. Typed'
      BY <2>5, <3>2
    <3>5. Budget'
      BY <1>1, <2>1, <2>2, <3>2, <3>4, PostsBudget
    <3> QED  BY <2>3, <2>4, <3>2, <3>3, <3>4, <3>5 DEF Inv
  <2>7. CASE life # "running"
    <3>1. tasks' = Tail(tasks)
      BY <2>1, <2>7 DEF OnClosed
    <3>2. tasks' \in Seq(Hops) /\ OneClear(tasks', rearming')
      BY <1>1, <1>2, <2>1, <3>1, Popped
    <3>3. Alive'
      BY <2>1, <2>7 DEF Alive
    <3>4. One(grace') <= One(grace) + One(Head(tasks).what \in Causes)
          /\ One(Redial') <= One(Redial)
      BY <1>1, <2>1 DEF One, Redial
    <3>5. Typed'
      BY <2>5, <3>2
    <3>6. Budget'
      BY <1>1, <1>2, <2>1, <2>2, <3>1, <3>4, <3>5, PoppedBudget
    <3> QED  BY <2>3, <2>4, <3>2, <3>3, <3>5, <3>6 DEF Inv
  <2> QED  BY <2>6, <2>7
<1> QED  BY <1>4, <1>5 DEF HandleBye

(* A handler that leaves the state of the negotiation as it is.            *)
LEMMA QuietStep ==
    ASSUME Inv, tasks # <<>>, Head(tasks).what \notin Rearms \cup {"clear"},
           life \in {"running", "dying"}, tasks' = Tail(tasks),
           UNCHANGED <<open, events, pc, rearming, signaling_connected_once, life>>,
           UNCHANGED <<state, ws_connected, pending_local_offer, pending_early_answer,
                       pending_remote_ice, sig, offerPc>>,
           state = "kCreatingPc" \/ (pc = 0 /\ life = "running")
             => ~initial_renegotiation_consumed',
           One(grace') <= One(grace) + One(Head(tasks).what \in Causes),
           state \in Waiting => Head(tasks).what \notin Awaited[state]
    PROVE  Inv'
<1>1. Typed /\ Fresh /\ Alive /\ LiveOffer
  BY DEF Inv
<1>2. \A w, e : Has(tasks, w, e) =>
        Has(tasks', w, e) \/ (Head(tasks).what \in w /\ Head(tasks).e = e)
  BY Popped
<1>3. Busy => Busy'
  BY <1>2, BusyKept
<1>4. life = "running" => Busy'
  BY <1>1, <1>3 DEF Alive
<1>5. Fresh'
  BY <1>1 DEF Fresh
<1>6. LiveOffer'
  BY <1>1 DEF LiveOffer, OfferOut
<1>7. /\ state' \in States /\ pending_local_offer' \in Nat /\ pending_early_answer' \in Nat
      /\ pending_remote_ice' \in Seq(Nat) /\ sig' \in Seq(Ops) /\ state' = state
  BY <1>1 DEF Typed
<1>8. Number(sig', Causes) <= Number(sig, Causes)
  <2>1. Number(sig, Causes) \in Nat
    BY <1>1, Countable DEF Typed
  <2> QED  BY <2>1
<1> QED  BY <1>4, <1>5, <1>6, <1>7, <1>8, HandledStep

(* A negotiation starts: its CreateOffer is under way.                     *)
LEMMA CreateOfferStep ==
    ASSUME Inv, tasks # <<>>, Head(tasks).what \notin Rearms \cup {"clear"},
           life \in {"running", "dying"}, tasks' = Tail(tasks),
           UNCHANGED <<open, events, pc, pending_local_offer, pending_early_answer,
                       pending_remote_ice>>,
           UNCHANGED <<mainVars, offerPc>>,
           state \in {"kIceInFlight", "kCreatingPc"}, CreateOffer
    PROVE  Inv'
<1>1. Typed /\ Fresh /\ LiveOffer /\ "createOffer" \in Calls /\ 0 \in Nat
  BY DEF Inv, Calls
<1>2. state' = "kCreatingOffer" /\ Call("createOffer", 0)
  BY DEF CreateOffer
<1>3. /\ sig' \in Seq(Ops) /\ Number(sig', Causes) <= Number(sig, Causes)
      /\ \A w : "createOffer" \in w => Has(sig', w, pc)
  BY <1>1, <1>2, CallsOut
<1>4. UNCHANGED <<rearming, signaling_connected_once, life>> /\ grace' = grace
  BY DEF mainVars
<1>5. Busy'
  BY <1>2, <1>3, Tables DEF Busy
<1>6. Fresh'
  BY <1>1, <1>2 DEF Fresh, Terminal
<1>7. LiveOffer'
  BY <1>1, <1>2 DEF LiveOffer, OfferOut, Terminal
<1>8. /\ state' \in States /\ state' \notin Terminal /\ pending_local_offer' \in Nat
      /\ pending_early_answer' \in Nat /\ pending_remote_ice' \in Seq(Nat)
  BY <1>1, <1>2 DEF States, Terminal, Typed
<1>9. One(grace') <= One(grace) + One(Head(tasks).what \in Causes)
  BY <1>4 DEF One
<1> QED  BY <1>2, <1>3, <1>4, <1>5, <1>6, <1>7, <1>8, <1>9, HandledStep

(* A viewer asks for an offer: a re-arm, a negotiation now or one later.   *)
LEMMA HandleRequestRenegotiateStep == ASSUME Inv, HandleRequestRenegotiate PROVE Inv'
<1>1. /\ tasks # <<>> /\ UNCHANGED <<open, events>> /\ life \in {"running", "dying"}
      /\ Head(tasks).what = "request_renegotiate" /\ state \notin Terminal
  BY DEF HandleRequestRenegotiate, Received, TaskIs
<1>2. Head(tasks).what \notin Rearms \cup {"clear"} /\ Head(tasks).what \in Envelopes
      /\ Head(tasks).what \in {"bye", "request_renegotiate"}
  BY <1>1 DEF Rearms, Envelopes
<1>3. Typed /\ Fresh /\ Alive /\ LiveOffer /\ 0 \in Nat
  BY DEF Inv
<1>4. UNCHANGED <<mainVars, historyVars>>
  BY DEF HandleRequestRenegotiate
<1>5. /\ UNCHANGED <<rearming, signaling_connected_once, life, offerPc, open, events, grace>>
      /\ grace' = grace /\ rearming' = rearming /\ life' = life
  BY <1>1, <1>4 DEF mainVars, historyVars
<1>6. CASE /\ tasks' = Append(Tail(tasks), Task("rearmQuiet", 0, 0))
           /\ UNCHANGED <<driverVars, sig>>
  <2>1. "rearmQuiet" \in Rearms
    BY DEF Rearms
  <2>2. /\ tasks' \in Seq(Hops) /\ OneClear(tasks', rearming')
        /\ Effective(tasks, rearming) => Effective(tasks', rearming')
        /\ Clears(tasks) => Clears(tasks')
        /\ \A w, e : Has(tasks, w, e) =>
             Has(tasks', w, e) \/ (Head(tasks).what \in w /\ Head(tasks).e = e)
        /\ Number(tasks', Causes) + 1 <= Number(tasks, Causes)
        /\ Rearmings(tasks') <= Rearmings(tasks) + 1
    BY <1>1, <1>2, <1>5, <1>6, <2>1, Posts
  <2>3. /\ pc' = pc /\ sig' = sig /\ state' = state /\ ws_connected' = ws_connected
        /\ pending_local_offer' = pending_local_offer
        /\ pending_remote_ice' = pending_remote_ice
        /\ pending_early_answer' = pending_early_answer
        /\ initial_renegotiation_consumed' = initial_renegotiation_consumed
    BY <1>6 DEF driverVars, iceVars
  <2>4. state \in Waiting /\ Has(tasks, Awaited[state], pc) => Has(tasks', Awaited[state], pc)
    BY <1>2, <2>2, AwaitedKinds
  <2>5. Busy => Busy'
    BY <2>3, <2>4, BusyKept
  <2>6. Alive'
    BY <1>3, <1>5, <2>2, <2>3, <2>5 DEF Alive
  <2>7. Typed'
    BY <1>3, <1>5, <2>2, <2>3 DEF Typed
  <2>8. Fresh' /\ LiveOffer'
    BY <1>3, <1>5, <2>3 DEF Fresh, LiveOffer, OfferOut
  <2>9. Number(sig', Causes) <= Number(sig, Causes)
    <3>1. Number(sig, Causes) \in Nat
      BY <1>3, Countable DEF Typed
    <3> QED  BY <2>3, <3>1
  <2>10. Budget'
    BY <1>5, <2>2, <2>3, <2>7, <2>9, PostsBudget
  <2> QED  BY <2>2, <2>6, <2>7, <2>8, <2>10 DEF Inv
<1>7. CASE /\ state = "kIceInFlight" /\ BeginRenegotiation /\ tasks' = Tail(tasks)
           /\ UNCHANGED <<iceVars, pc, pending_local_offer, pending_early_answer>>
  <2>1. CreateOffer
    BY <1>7 DEF BeginRenegotiation, Terminal
  <2>2. UNCHANGED <<open, events, pc, pending_local_offer, pending_early_answer,
                    pending_remote_ice>>
    BY <1>1, <1>7 DEF iceVars
  <2> QED  BY <1>1, <1>2, <1>4, <1>5, <1>7, <2>1, <2>2, CreateOfferStep
<1>8. CASE /\ tasks' = Tail(tasks)
           /\ UNCHANGED <<iceVars, state, pc, ws_connected, pending_local_offer,
                          pending_early_answer, initial_renegotiation_consumed, sig>>
  <2>1. /\ UNCHANGED <<open, events, pc, rearming, signaling_connected_once, life>>
        /\ UNCHANGED <<state, ws_connected, pending_local_offer, pending_early_answer,
                       pending_remote_ice, sig, offerPc>>
    BY <1>5, <1>8 DEF iceVars
  <2>2. state = "kCreatingPc" \/ (pc = 0 /\ life = "running")
          => ~initial_renegotiation_consumed'
    BY <1>3, <1>8 DEF Fresh
  <2>3. One(grace') <= One(grace) + One(Head(tasks).what \in Causes)
    BY <1>5 DEF One
  <2>4. state \in Waiting => Head(tasks).what \notin Awaited[state]
    BY <1>2, AwaitedKinds
  <2> QED  BY <1>1, <1>2, <1>8, <2>1, <2>2, <2>3, <2>4, QuietStep
<1> QED  BY <1>6, <1>7, <1>8 DEF HandleRequestRenegotiate

(* libwebrtc asks for a negotiation: the first one makes the offer.        *)
LEMMA HopHandleRenegotiationNeededStep ==
    ASSUME Inv, HopHandleRenegotiationNeeded PROVE Inv'
<1>1. /\ tasks # <<>> /\ UNCHANGED <<open, events>> /\ life \in {"running", "dying"}
      /\ Head(tasks).what = "negotiationNeeded"
  BY DEF HopHandleRenegotiationNeeded, Landed, TaskIs
<1>2. Head(tasks).what \notin Rearms \cup {"clear"}
  BY <1>1 DEF Rearms
<1>3. Typed /\ Fresh /\ Alive /\ LiveOffer
  BY DEF Inv
<1>4. CASE Fail(Tail(tasks))
  BY <1>1, <1>2, <1>4, FailStep
<1>5. CASE /\ \/ ~initial_renegotiation_consumed /\ state = "kCreatingPc" /\ CreateOffer
              \/ initial_renegotiation_consumed /\ BeginRenegotiation
           /\ tasks' = Tail(tasks)
           /\ UNCHANGED <<iceVars, pc, ws_connected, pending_local_offer,
                          pending_early_answer, mainVars, historyVars>>
  <2>1. /\ UNCHANGED <<open, events, pc, pending_local_offer, pending_early_answer,
                       pending_remote_ice>>
        /\ UNCHANGED <<mainVars, offerPc>>
    BY <1>1, <1>5 DEF iceVars, historyVars
  <2>2. CASE CreateOffer /\ state \in {"kIceInFlight", "kCreatingPc"}
    BY <1>1, <1>2, <1>5, <2>1, <2>2, CreateOfferStep
  <2>3. CASE initial_renegotiation_consumed /\ UNCHANGED <<state, sig>>
    <3>1. /\ UNCHANGED <<open, events, pc, rearming, signaling_connected_once, life>>
          /\ UNCHANGED <<state, ws_connected, pending_local_offer, pending_early_answer,
                         pending_remote_ice, sig, offerPc>>
          /\ grace' = grace
      BY <1>5, <2>1, <2>3 DEF mainVars
    <3>2. One(grace') <= One(grace) + One(Head(tasks).what \in Causes)
      BY <3>1 DEF One
    <3>3. state # "kCreatingPc" /\ ~(pc = 0 /\ life = "running")
      BY <1>3, <2>3 DEF Fresh
    <3>4. state \in Waiting => Head(tasks).what \notin Awaited[state]
      BY <1>1, <3>3, Tables DEF Waiting
    <3> QED  BY <1>1, <1>2, <1>5, <3>1, <3>2, <3>3, <3>4, QuietStep
  <2>4. initial_renegotiation_consumed => state # "kCreatingPc"
    BY <1>3 DEF Fresh
  <2> QED  BY <1>5, <2>2, <2>3, <2>4 DEF BeginRenegotiation
<1> QED  BY <1>4, <1>5 DEF HopHandleRenegotiationNeeded

(* The ICE state: failed arms the grace timer and pays for what it will do. *)
LEMMA HopHandleIceConnectionChangeStep ==
    ASSUME Inv, HopHandleIceConnectionChange PROVE Inv'
<1>1. PICK ice \in IceStates :
        /\ Landed(ice)
        /\ grace' = CASE ice = "failed" -> grace \/ life = "running"
                      [] ice = "connected" -> FALSE
                      [] OTHER -> grace
  BY DEF HopHandleIceConnectionChange
<1>2. /\ tasks # <<>> /\ UNCHANGED <<open, events>> /\ life \in {"running", "dying"}
      /\ Head(tasks).what = ice
  BY <1>1 DEF Landed, TaskIs
<1>3. Head(tasks).what \notin Rearms \cup {"clear"} /\ Head(tasks).what \in IceStates
  BY <1>2 DEF Rearms, IceStates
<1>4. /\ tasks' = Tail(tasks)
      /\ UNCHANGED <<driverVars, rearming, signaling_connected_once, life, sig, historyVars>>
  BY DEF HopHandleIceConnectionChange
<1>5. /\ UNCHANGED <<open, events, pc, rearming, signaling_connected_once, life>>
      /\ UNCHANGED <<state, ws_connected, pending_local_offer, pending_early_answer,
                     pending_remote_ice, sig, offerPc>>
      /\ initial_renegotiation_consumed' = initial_renegotiation_consumed
  BY <1>2, <1>4 DEF driverVars, iceVars, historyVars
<1>6. state = "kCreatingPc" \/ (pc = 0 /\ life = "running")
        => ~initial_renegotiation_consumed'
  BY <1>5 DEF Inv, Fresh
<1>7. One(grace') <= One(grace) + One(Head(tasks).what \in Causes)
  <2>1. CASE ice = "failed"
    <3>1. One(Head(tasks).what \in Causes) = 1
      BY <1>2, <2>1 DEF One, Causes
    <3>2. \A b, c : One(b) <= One(c) + 1
      BY DEF One
    <3> QED  BY <3>1, <3>2
  <2>2. CASE ice = "connected"
    <3>1. ~grace'
      BY <1>1, <2>2
    <3> QED  BY <3>1 DEF One
  <2>3. CASE ice \notin {"failed", "connected"}
    <3>1. grace' = grace
      BY <1>1, <2>3
    <3> QED  BY <3>1 DEF One
  <2> QED  BY <2>1, <2>2, <2>3
<1>8. state \in Waiting => Head(tasks).what \notin Awaited[state]
  BY <1>3, AwaitedKinds
<1> QED  BY <1>2, <1>3, <1>4, <1>5, <1>6, <1>7, <1>8, QuietStep

(* The offer is there: stashed, sent, or it cannot be sent.                *)
LEMMA HopHandleCreateOfferSuccessStep ==
    ASSUME Inv, HopHandleCreateOfferSuccess PROVE Inv'
<1>1. /\ tasks # <<>> /\ UNCHANGED <<open, events>> /\ life \in {"running", "dying"}
      /\ Head(tasks).what = "offerCreated" /\ Head(tasks).e = pc
  BY DEF HopHandleCreateOfferSuccess, Landed, TaskIs, Live
<1>2. Head(tasks).what \notin Rearms \cup {"clear"}
  BY <1>1 DEF Rearms
<1>3. Typed /\ Fresh /\ Alive /\ LiveOffer /\ "setLocal" \in Calls /\ 0 \in Nat
  BY DEF Inv, Calls
<1>4. /\ UNCHANGED <<pc, ws_connected, pending_early_answer, rearming,
                     signaling_connected_once>>
      /\ ws_connected' = ws_connected
      /\ grace' = grace
  BY DEF HopHandleCreateOfferSuccess
<1>5. One(grace') <= One(grace) + One(Head(tasks).what \in Causes)
  BY <1>4 DEF One
<1>6. Number(sig, Causes) \in Nat
  BY <1>3, Countable DEF Typed
<1>7. CASE /\ state = "kCreatingOffer" /\ ~ws_connected
           /\ pending_local_offer' = Head(tasks).e /\ tasks' = Tail(tasks)
           /\ UNCHANGED <<state, sig, pending_remote_ice, life, historyVars>>
  <2>1. /\ UNCHANGED <<open, events, pc, rearming, signaling_connected_once, life>>
        /\ state' = "kCreatingOffer" /\ sig' = sig /\ pending_local_offer' = pc
        /\ pending_remote_ice' = pending_remote_ice
    BY <1>1, <1>4, <1>7
  <2>2. Busy'
    BY <1>4, <1>7, <2>1 DEF Busy
  <2>3. Fresh'
    BY <1>3, <1>4, <1>7, <2>1 DEF Fresh, Terminal
  <2>4. LiveOffer'
    BY <1>3, <1>4, <1>7, <2>1 DEF LiveOffer, OfferOut, Terminal
  <2>5. /\ state' \in States /\ state' = state /\ pending_local_offer' \in Nat
        /\ pending_early_answer' \in Nat /\ pending_remote_ice' \in Seq(Nat)
        /\ sig' \in Seq(Ops) /\ Number(sig', Causes) <= Number(sig, Causes)
    BY <1>3, <1>4, <1>6, <1>7, <2>1 DEF Typed
  <2> QED  BY <1>1, <1>2, <1>5, <1>7, <2>1, <2>2, <2>3, <2>4, <2>5, HandledStep
<1>8. CASE /\ state = "kCreatingOffer" /\ EmitOffer(Head(tasks).e) /\ tasks' = Tail(tasks)
           /\ UNCHANGED <<pending_local_offer, pending_remote_ice, life>>
  <2>1. /\ UNCHANGED <<open, events, pc, rearming, signaling_connected_once, life>>
        /\ state' = "kSettingLocal" /\ Call("setLocal", 0) /\ offerPc' = pc
        /\ pending_remote_ice' = pending_remote_ice
        /\ pending_local_offer' = pending_local_offer
    BY <1>1, <1>4, <1>8 DEF EmitOffer
  <2>2. /\ sig' \in Seq(Ops) /\ Number(sig', Causes) <= Number(sig, Causes)
        /\ \A w : "setLocal" \in w => Has(sig', w, pc)
    BY <1>3, <2>1, CallsOut
  <2>3. Busy'
    BY <2>1, <2>2, Tables DEF Busy
  <2>4. Fresh'
    BY <1>3, <1>4, <1>8, <2>1 DEF Fresh, Terminal
  <2>5. LiveOffer'
    BY <1>3, <1>4, <1>8, <2>1 DEF LiveOffer, OfferOut, Terminal
  <2>6. /\ state' \in States /\ state' \notin Terminal /\ pending_local_offer' \in Nat
        /\ pending_early_answer' \in Nat /\ pending_remote_ice' \in Seq(Nat)
    BY <1>3, <1>4, <2>1 DEF Typed, States, Terminal
  <2> QED  BY <1>1, <1>2, <1>5, <1>8, <2>1, <2>2, <2>3, <2>4, <2>5, <2>6, HandledStep
<1>9. CASE Fail(Tail(tasks))
  BY <1>1, <1>2, <1>9, FailStep
<1> QED  BY <1>7, <1>8, <1>9 DEF HopHandleCreateOfferSuccess

(* The local description is set; an early answer is applied at once.       *)
LEMMA HopHandleSetLocalDescriptionCompleteStep ==
    ASSUME Inv, HopHandleSetLocalDescriptionComplete PROVE Inv'
<1>1. /\ tasks # <<>> /\ UNCHANGED <<open, events>> /\ life \in {"running", "dying"}
      /\ Head(tasks).what = "localSet"
  BY DEF HopHandleSetLocalDescriptionComplete, Landed, TaskIs
<1>2. Head(tasks).what \notin Rearms \cup {"clear"}
  BY <1>1 DEF Rearms
<1>3. Typed /\ Fresh /\ LiveOffer
  BY DEF Inv
<1>4. CASE /\ state = "kSettingLocal" /\ state' = "kAwaitingAnswer" /\ tasks' = Tail(tasks)
           /\ UNCHANGED <<iceVars, pc, pending_local_offer, pending_early_answer,
                          mainVars, sig, historyVars>>
  <2>1. /\ UNCHANGED <<open, events, pc, rearming, signaling_connected_once, life, offerPc>>
        /\ sig' = sig /\ grace' = grace /\ pending_local_offer' = pending_local_offer
        /\ pending_remote_ice' = pending_remote_ice
        /\ pending_early_answer' = pending_early_answer
    BY <1>1, <1>4 DEF iceVars, mainVars, historyVars
  <2>2. Busy'
    BY <1>4 DEF Busy, Waiting
  <2>3. Fresh'
    BY <1>3, <1>4, <2>1 DEF Fresh, Terminal
  <2>4. LiveOffer'
    BY <1>3, <1>4, <2>1 DEF LiveOffer, OfferOut, Terminal
  <2>5. /\ state' \in States /\ state' \notin Terminal /\ pending_local_offer' \in Nat
        /\ pending_early_answer' \in Nat /\ pending_remote_ice' \in Seq(Nat)
        /\ sig' \in Seq(Ops)
    BY <1>3, <1>4, <2>1 DEF Typed, States, Terminal
  <2>6. One(grace') <= One(grace) + One(Head(tasks).what \in Causes)
        /\ Number(sig', Causes) <= Number(sig, Causes)
    <3>1. Number(sig, Causes) \in Nat
      BY <1>3, Countable DEF Typed
    <3> QED  BY <2>1, <3>1 DEF One
  <2> QED  BY <1>1, <1>2, <1>4, <2>1, <2>2, <2>3, <2>4, <2>5, <2>6, HandledStep
<1>5. CASE state = "kSettingLocal" /\ ApplyAnswer(pending_early_answer, Tail(tasks))
  <2>1. pending_early_answer \in Nat
    BY <1>3 DEF Typed
  <2> QED  BY <1>1, <1>2, <1>5, <2>1, ApplyAnswerStep
<1>6. CASE Fail(Tail(tasks))
  BY <1>1, <1>2, <1>6, FailStep
<1> QED  BY <1>4, <1>5, <1>6 DEF HopHandleSetLocalDescriptionComplete

(* The answer is applied: the candidates held back go out, and a coalesced *)
(* negotiation starts.                                                     *)
LEMMA HopHandleSetRemoteDescriptionCompleteStep ==
    ASSUME Inv, HopHandleSetRemoteDescriptionComplete PROVE Inv'
<1>1. /\ tasks # <<>> /\ UNCHANGED <<open, events>> /\ life \in {"running", "dying"}
      /\ Head(tasks).what = "remoteSet"
  BY DEF HopHandleSetRemoteDescriptionComplete, Landed, TaskIs
<1>2. Head(tasks).what \notin Rearms \cup {"clear"}
  BY <1>1 DEF Rearms
<1>3. Typed /\ Fresh /\ LiveOffer
  BY DEF Inv
<1>4. CASE Fail(Tail(tasks))
  BY <1>1, <1>2, <1>4, FailStep
<1>5. CASE ~Fail(Tail(tasks))
  <2> DEFINE next == IF pending_renegotiation THEN <<Task("createOffer", pc, 0)>> ELSE <<>>
  <2>1. /\ state = "kSettingRemote" /\ pending_remote_ice' = <<>> /\ tasks' = Tail(tasks)
        /\ \E n \in 0..Len(pending_remote_ice) :
             sig' = sig \o FlushPendingRemoteIce(n) \o next
        /\ state' = IF pending_renegotiation THEN "kCreatingOffer" ELSE "kIceInFlight"
        /\ UNCHANGED <<pc, pending_local_offer, pending_early_answer, mainVars, historyVars>>
    BY <1>5 DEF HopHandleSetRemoteDescriptionComplete
  <2>2. /\ UNCHANGED <<open, events, pc, rearming, signaling_connected_once, life, offerPc>>
        /\ grace' = grace /\ pending_local_offer' = pending_local_offer
        /\ pending_early_answer' = pending_early_answer
    BY <1>1, <2>1 DEF mainVars, historyVars
  <2>3. PICK n \in 0..Len(pending_remote_ice) :
          sig' = (sig \o FlushPendingRemoteIce(n)) \o next
    BY <2>1
  <2>4. n \in Nat /\ sig \in Seq(Ops)
    BY <1>3, <2>3 DEF Typed
  <2>5. /\ next \in Seq(Ops) /\ Number(next, Causes) = 0
        /\ pending_renegotiation => Has(next, {"createOffer"}, pc)
    <3>1. CASE pending_renegotiation
      <4> DEFINE m == Task("createOffer", pc, 0)
      <4>1. m \in Ops /\ m.what = "createOffer" /\ m.e = pc
        BY <1>3 DEF Typed, Ops, Calls, Task
      <4> HIDE DEF m
      <4>2. <<m>> \in Seq(Ops) /\ Len(<<m>>) = 1 /\ <<m>>[1] = m /\ 1 \in 1..1
        BY <4>1
      <4>3. \A i \in 1..Len(<<m>>) : <<m>>[i].what \notin Causes
        BY <4>1, <4>2 DEF Causes
      <4>4. Number(<<m>>, Causes) = 0
        BY <4>2, <4>3, NoneOf
      <4>5. Has(<<m>>, {"createOffer"}, pc)
        BY <4>1, <4>2 DEF Has
      <4>6. next = <<m>>
        BY <3>1 DEF m
      <4> QED  BY <4>2, <4>4, <4>5, <4>6
    <3>2. CASE ~pending_renegotiation
      <4>1. next = <<>> /\ <<>> \in Seq(Ops)
        BY <3>2
      <4> QED  BY <3>2, <4>1, CountEmpty
    <3> QED  BY <3>1, <3>2
  <2> HIDE DEF next
  <2> DEFINE f == FlushPendingRemoteIce(n)
             g == sig \o f
  <2>6. f \in Seq(Ops) /\ Number(f, Causes) = 0
    BY <1>3, <2>4, Flushed
  <2>7. sig' = g \o next
    BY <2>3
  <2> HIDE DEF f
  <2>8. g \in Seq(Ops) /\ Number(g, Causes) <= Number(sig, Causes) + Number(f, Causes)
    BY <2>4, <2>6, HasConcat, CountConcat
  <2> HIDE DEF g
  <2>9. /\ g \o next \in Seq(Ops)
        /\ \A w, e : Has(g, w, e) \/ Has(next, w, e) => Has(g \o next, w, e)
        /\ Number(g \o next, Causes) <= Number(g, Causes) + Number(next, Causes)
    BY <2>5, <2>8, HasConcat, CountConcat
  <2>10. Number(g, Causes) \in Nat /\ Number(sig, Causes) \in Nat
         /\ Number(g \o next, Causes) \in Nat
    BY <2>4, <2>8, <2>9, Countable
  <2>11. Number(g \o next, Causes) <= Number(sig, Causes)
    BY <2>5, <2>6, <2>8, <2>9, <2>10
  <2>12. /\ sig' \in Seq(Ops) /\ Number(sig', Causes) <= Number(sig, Causes)
         /\ pending_renegotiation => Has(sig', {"createOffer"}, pc)
    BY <2>5, <2>7, <2>9, <2>11
  <2>13. Busy'
    BY <2>1, <2>2, <2>12, Tables DEF Busy, Waiting
  <2>14. Fresh'
    BY <1>3, <2>1, <2>2 DEF Fresh, Terminal
  <2>15. LiveOffer'
    BY <1>3, <2>1, <2>2 DEF LiveOffer, OfferOut
  <2>16. /\ state' \in States /\ state' \notin Terminal /\ pending_local_offer' \in Nat
         /\ pending_early_answer' \in Nat /\ pending_remote_ice' \in Seq(Nat)
    BY <1>3, <2>1, <2>2 DEF Typed, States, Terminal
  <2>17. One(grace') <= One(grace) + One(Head(tasks).what \in Causes)
    BY <2>2 DEF One
  <2> QED  BY <1>1, <1>2, <2>1, <2>2, <2>12, <2>13, <2>14, <2>15, <2>16, <2>17, HandledStep
<1> QED  BY <1>4, <1>5

(* The queue a re-arm leaves: one task clears rearming_, every re-arm that *)
(* was queued or is posted by its own close comes before it, and the       *)
(* causes the old connection had observed are still there.                 *)
LEMMA RearmQueue ==
    ASSUME Typed, NEW rest \in Seq(Hops), ~Clears(rest), NEW s \in Seq(Ops)
    PROVE  LET t == PostedByRearm(rest) \o LeftOver(s) IN
           /\ t \in Seq(Hops) /\ Clears(t) /\ OneClear(t, TRUE) /\ Rearmings(t) = 0
           /\ Number(t, Causes) <= Number(rest, Causes) + Number(s, Causes)
<1> DEFINE closed == IF state = "kClosed" THEN rest ELSE OnClosed(rest)
           clear == Task("clear", 0, 0)
           left == LeftOver(s)
           t == PostedByRearm(rest) \o LeftOver(s)
<1>1. clear \in Hops /\ clear.what = "clear"
  BY DEF Hops, Posted, Task
<1>2. /\ closed \in Seq(Hops) /\ ~Clears(closed)
      /\ Number(closed, Causes) <= Number(rest, Causes)
  <2> DEFINE m == Task("rearmBye", 0, 0)
  <2>1. m \in Hops /\ m.what = "rearmBye"
    BY DEF Hops, Posted, Task
  <2>2. closed = rest \/ closed = Append(rest, m)
    BY DEF OnClosed
  <2> HIDE DEF closed, m
  <2>3. Number(rest, Causes) \in Nat
    BY Countable
  <2>4. CASE closed = Append(rest, m)
    <3>1. OneClear(rest, FALSE)
      BY DEF OneClear, Clears
    <3>2. Append(rest, m) \in Seq(Hops) /\ OneClear(Append(rest, m), FALSE)
      BY <2>1, <3>1, HasAppend
    <3>3. ~Clears(Append(rest, m))
      BY <3>2 DEF OneClear, Clears
    <3>4. Number(Append(rest, m), Causes) <= Number(rest, Causes) + One(m.what \in Causes)
      BY <2>1, CountAppend
    <3>5. One(m.what \in Causes) = 0 /\ Number(Append(rest, m), Causes) \in Nat
      BY <2>1, <3>2, Countable DEF One, Causes
    <3>6. Number(Append(rest, m), Causes) <= Number(rest, Causes)
      BY <2>3, <3>4, <3>5
    <3> QED  BY <2>4, <3>2, <3>3, <3>6
  <2> QED  BY <2>2, <2>3, <2>4
<1>3. /\ left \in Seq(Hops) /\ Number(left, Causes) <= Number(s, Causes)
      /\ \A i \in 1..Len(left) : left[i].what \notin Rearms \cup {"clear"}
  <2> DEFINE seen == Keep(s, Observed)
             into(m) == Task(m.what, pc + 1, 0)
  <2>1. /\ seen \in Seq(Ops)
        /\ \A n \in 1..Len(seen) : seen[n].what \in Observed
    BY HasKeep
  <2>2. Number(seen, Causes) <= Number(s, Causes)
    BY CountKeep
  <2>3. left = [i \in 1..Len(seen) |-> into(seen[i])]
    BY DEF LeftOver
  <2> HIDE DEF seen, left
  <2>4. \A m \in Ops : m.what \in Observed => into(m) \in Hops /\ into(m).what = m.what
    BY DEF Hops, Task, Typed
  <2> HIDE DEF into
  <2>5. \A i \in 1..Len(seen) : seen[i] \in Ops /\ seen[i].what \in Observed
    BY <2>1
  <2>6. left \in Seq(Hops) /\ Len(left) = Len(seen)
    <3>1. Len(seen) \in Nat
      BY <2>1
    <3>2. left \in [1..Len(seen) -> Hops]
      BY <2>3, <2>4, <2>5
    <3>3. \A n \in Nat : \A f \in [1..n -> Hops] : f \in Seq(Hops) /\ Len(f) = n
      OBVIOUS
    <3> QED  BY <3>1, <3>2, <3>3
  <2>7. \A i \in 1..Len(seen) : left[i].what = seen[i].what
    BY <2>3, <2>4, <2>5
  <2>8. Places(left, Causes) = Places(seen, Causes)
    BY <2>6, <2>7 DEF Places
  <2>9. \A i \in 1..Len(left) : left[i].what \notin Rearms \cup {"clear"}
    BY <2>1, <2>6, <2>7 DEF Observed, IceStates, Rearms
  <2> QED  BY <2>2, <2>6, <2>8, <2>9 DEF Number
<1>4. t = Append(closed, clear) \o left
  BY DEF PostedByRearm
<1> HIDE DEF closed, clear, left, t
<1>5. t \in Seq(Hops) /\ Clears(t) /\ OneClear(t, TRUE) /\ Rearmings(t) = 0
  BY <1>1, <1>2, <1>3, <1>4, ClearBehind
<1>6. /\ Append(closed, clear) \in Seq(Hops)
      /\ Number(Append(closed, clear), Causes)
           <= Number(closed, Causes) + One(clear.what \in Causes)
  BY <1>1, <1>2, HasAppend, CountAppend
<1>7. Number(t, Causes) <= Number(Append(closed, clear), Causes) + Number(left, Causes)
  BY <1>3, <1>4, <1>6, CountConcat
<1>8. One(clear.what \in Causes) = 0
  BY <1>1 DEF One, Causes
<1>9. /\ Number(t, Causes) \in Nat /\ Number(closed, Causes) \in Nat
      /\ Number(left, Causes) \in Nat /\ Number(Append(closed, clear), Causes) \in Nat
      /\ Number(rest, Causes) \in Nat /\ Number(s, Causes) \in Nat
  BY <1>2, <1>3, <1>5, <1>6, Countable
<1>10. Number(t, Causes) <= Number(rest, Causes) + Number(s, Causes)
  BY <1>2, <1>3, <1>6, <1>7, <1>8, <1>9
<1> QED  BY <1>5, <1>10 DEF t

(* What Start() leaves on the signaling thread.                            *)
LEMMA Started ==
    ASSUME Typed, Start
    PROVE  /\ state' = "kCreatingPc" /\ sig' \in Seq(Ops) /\ Number(sig', Causes) = 0
           /\ VideoMayFail \/ Has(sig', {"negotiationNeeded"}, pc + 1)
<1> DEFINE m == Task("negotiationNeeded", pc + 1, 0)
<1>1. m \in Ops /\ m.what = "negotiationNeeded" /\ m.e = pc + 1
  BY DEF Typed, Ops, Observed, Task
<1>2. state' = "kCreatingPc" /\ (sig' = <<m>> \/ (sig' = <<>> /\ VideoMayFail))
  BY VideoAssumption DEF Start
<1> HIDE DEF m
<1>3. <<m>> \in Seq(Ops) /\ Len(<<m>>) = 1 /\ <<m>>[1] = m /\ 1 \in 1..1 /\ <<>> \in Seq(Ops)
  BY <1>1
<1>4. \A i \in 1..Len(<<m>>) : <<m>>[i].what \notin Causes
  BY <1>1, <1>3 DEF Causes
<1>5. Number(<<m>>, Causes) = 0
  BY <1>3, <1>4, NoneOf
<1>6. Has(<<m>>, {"negotiationNeeded"}, pc + 1)
  BY <1>1, <1>3 DEF Has
<1> QED  BY <1>2, <1>3, <1>5, <1>6, CountEmpty

(* Rearm() and Start(): the next session starts on a connection of its own *)
(* with nothing of the last one, and pays with the re-arm or the timer     *)
(* that led to it.                                                         *)
LEMMA RearmSessionStep ==
    ASSUME Inv, NEW rest \in Seq(Hops), ~Clears(rest), life = "running", ~rearming,
           Number(rest, Causes) <= Number(tasks, Causes),
           1 <= Rearmings(tasks) + One(grace),
           RearmSession(rest), events' = events, open' = open
    PROVE  Inv'
<1>1. Typed /\ Fresh /\ LiveOffer /\ Budget
  BY DEF Inv
<1> DEFINE s == IF state = "kClosed" THEN sig ELSE Append(sig, Task("closed", pc, 0))
           t == PostedByRearm(rest) \o LeftOver(s)
<1>2. s \in Seq(Ops) /\ Number(s, Causes) <= Number(sig, Causes)
  <2> DEFINE m == Task("closed", pc, 0)
  <2>1. m \in Ops /\ m.what = "closed" /\ sig \in Seq(Ops)
    BY <1>1 DEF Typed, Ops, Observed, IceStates, Task
  <2>2. s = sig \/ s = Append(sig, m)
    OBVIOUS
  <2> HIDE DEF s, m
  <2>3. Append(sig, m) \in Seq(Ops)
        /\ Number(Append(sig, m), Causes) <= Number(sig, Causes) + One(m.what \in Causes)
    BY <2>1, HasAppend, CountAppend
  <2>4. One(m.what \in Causes) = 0
    BY <2>1 DEF One, Causes
  <2>5. Number(sig, Causes) \in Nat /\ Number(Append(sig, m), Causes) \in Nat
    BY <2>1, <2>3, Countable
  <2>6. Number(Append(sig, m), Causes) <= Number(sig, Causes) /\ Number(sig, Causes) <= Number(sig, Causes)
    BY <2>3, <2>4, <2>5
  <2> QED  BY <2>1, <2>2, <2>3, <2>6
<1>3. tasks' = t
  BY DEF RearmSession
<1> HIDE DEF s
<1>4. /\ t \in Seq(Hops) /\ Clears(t) /\ OneClear(t, TRUE) /\ Rearmings(t) = 0
      /\ Number(t, Causes) <= Number(rest, Causes) + Number(s, Causes)
  BY <1>1, <1>2, RearmQueue
<1> HIDE DEF t
<1>5. /\ pc' = pc + 1 /\ rearming' = TRUE /\ grace' = FALSE
      /\ UNCHANGED <<signaling_connected_once, offerPc>>
      /\ pending_local_offer' = 0 /\ pending_early_answer' = 0 /\ pending_remote_ice' = <<>>
      /\ initial_renegotiation_consumed' = FALSE
      /\ \/ Start /\ life' = life
         \/ state' = "kFailed" /\ life' = "dying" /\ sig' = <<>>
  BY DEF RearmSession, FreshPc, ResetSession, historyVars
<1>6. /\ state' \in {"kCreatingPc", "kFailed"} /\ sig' \in Seq(Ops)
      /\ Number(sig', Causes) = 0
      /\ life' = "running" =>
           state' = "kCreatingPc" /\ (VideoMayFail \/ Has(sig', {"negotiationNeeded"}, pc + 1))
  <2>1. CASE Start
    BY <1>1, <2>1, Started
  <2>2. CASE state' = "kFailed" /\ life' = "dying" /\ sig' = <<>>
    <3>1. <<>> \in Seq(Ops)
      OBVIOUS
    <3> QED  BY <2>2, <3>1, CountEmpty
  <2> QED  BY <1>5, <2>1, <2>2
<1>7. pc \in Nat /\ pc + 1 # 0 /\ pc' # 0 /\ pc + 1 \in Nat
  BY <1>1, <1>5 DEF Typed
<1>8. Typed'
  <2>1. <<>> \in Seq(Nat)
    OBVIOUS
  <2> QED  BY <1>1, <1>3, <1>4, <1>5, <1>6, <1>7, <2>1 DEF Typed, States
<1>9. Fresh'
  BY <1>5, <1>7 DEF Fresh
<1>10. Alive'
  <2>1. life' = "running" => Busy'
    BY <1>5, <1>6, Tables DEF Busy
  <2> QED  BY <1>3, <1>4, <1>6, <2>1 DEF Alive
<1>11. LiveOffer'
  BY <1>5, <1>6 DEF LiveOffer, OfferOut
<1>12. OneClear(tasks', rearming')
  BY <1>3, <1>4, <1>5
<1>13. Budget'
  <2>1. One(pc' = 0) = 0 /\ One(grace') = 0
    BY <1>5, <1>7 DEF One
  <2>2. One(Redial') <= One(Redial)
    BY <1>5 DEF One, Redial
  <2>3. \A b : One(b) \in Nat
    BY DEF One
  <2>4. One(pc = 0) \in Nat /\ One(grace) \in Nat /\ One(Redial) \in Nat /\ One(Redial') \in Nat
    BY <2>3
  <2>5. /\ Number(tasks, Causes) \in Nat /\ Number(sig, Causes) \in Nat
        /\ Rearmings(tasks) \in Nat /\ Number(rest, Causes) \in Nat
        /\ Number(s, Causes) \in Nat /\ Number(t, Causes) \in Nat
    BY <1>1, <1>2, <1>4, Countable DEF Typed
  <2>6. pc + One(pc = 0) + Number(tasks, Causes) + Number(sig, Causes) + Rearmings(tasks)
          + One(grace) + One(Redial) <= 1 + events /\ events \in Nat
    BY <1>1 DEF Budget, Typed
  <2>7. Number(t, Causes) <= Number(tasks, Causes) + Number(sig, Causes)
    BY <1>2, <1>4, <2>5
  <2>8. (pc + 1) + 0 + Number(t, Causes) + 0 + 0 + 0 + One(Redial') <= 1 + events
    <3> DEFINE a == Number(tasks, Causes)
               b == Number(sig, Causes)
               c == Rearmings(tasks)
               d == One(grace)
               e == One(Redial)
               a1 == Number(t, Causes)
               e1 == One(Redial')
               z == One(pc = 0)
    <3>1. /\ a \in Nat /\ b \in Nat /\ c \in Nat /\ d \in Nat /\ e \in Nat /\ a1 \in Nat
          /\ e1 \in Nat /\ z \in Nat /\ pc \in Nat /\ events \in Nat
      BY <1>7, <2>4, <2>5, <2>6
    <3>2. pc + z + a + b + c + d + e <= 1 + events
      BY <2>6
    <3>3. a1 <= a + b /\ 1 <= c + d /\ e1 <= e
      BY <2>2, <2>7
    <3> HIDE DEF a, b, c, d, e, a1, e1, z
    <3>4. (pc + 1) + 0 + a1 + 0 + 0 + 0 + e1 <= 1 + events
      BY <3>1, <3>2, <3>3, SumsRearmed
    <3> QED  BY <3>4 DEF a1, e1
  <2> QED  BY <1>3, <1>4, <1>5, <1>6, <2>1, <2>8 DEF Budget
<1> QED  BY <1>8, <1>9, <1>10, <1>11, <1>12, <1>13 DEF Inv

(* A step that changes only the queues, the flags of main_parts and the    *)
(* channel.                                                                *)
LEMMA QueueStep ==
    ASSUME Inv, UNCHANGED driverVars, UNCHANGED <<life, offerPc>>,
           rearming' \in BOOLEAN, tasks' \in Seq(Hops), sig' \in Seq(Ops),
           OneClear(tasks', rearming'),
           life = "running" =>
              /\ state = "kClosed" => Effective(tasks', rearming')
              /\ rearming' => Clears(tasks')
              /\ Busy',
           NEW paid \in Nat, events' = events + paid,
           Number(tasks', Causes) + Number(sig', Causes) + Rearmings(tasks')
             + One(grace') + One(Redial')
           <= Number(tasks, Causes) + Number(sig, Causes) + Rearmings(tasks)
             + One(grace) + One(Redial) + paid
    PROVE  Inv'
<1>1. Typed /\ Fresh /\ Alive /\ LiveOffer /\ Budget
  BY DEF Inv
<1>2. /\ state' = state /\ pc' = pc /\ pending_local_offer' = pending_local_offer
      /\ pending_early_answer' = pending_early_answer /\ life' = life /\ offerPc' = offerPc
      /\ pending_remote_ice' = pending_remote_ice
      /\ initial_renegotiation_consumed' = initial_renegotiation_consumed
  BY DEF driverVars, iceVars
<1>3. Typed'
  <2>1. events' \in Nat
    BY <1>1 DEF Typed
  <2> QED  BY <1>1, <1>2, <2>1 DEF Typed
<1>4. Fresh' /\ LiveOffer'
  BY <1>1, <1>2 DEF Fresh, LiveOffer, OfferOut
<1>5. Alive'
  BY <1>1, <1>2 DEF Alive
<1>6. Budget'
  BY <1>1, <1>2, <1>3, BudgetKept
<1> QED  BY <1>3, <1>4, <1>5, <1>6 DEF Inv

(* Counts of the queues that do not grow.                                  *)
LEMMA NoMore ==
    ASSUME Typed, tasks' \in Seq(Hops), sig' \in Seq(Ops),
           Number(tasks', Causes) <= Number(tasks, Causes),
           Number(sig', Causes) <= Number(sig, Causes),
           Rearmings(tasks') <= Rearmings(tasks), One(grace') <= One(grace),
           NEW paid \in Nat, One(Redial') <= One(Redial) + paid
    PROVE  Number(tasks', Causes) + Number(sig', Causes) + Rearmings(tasks')
             + One(grace') + One(Redial')
           <= Number(tasks, Causes) + Number(sig, Causes) + Rearmings(tasks)
             + One(grace) + One(Redial) + paid
<1> DEFINE a == Number(tasks, Causes)
           b == Number(sig, Causes)
           c == Rearmings(tasks)
           d == One(grace)
           e == One(Redial)
           a1 == Number(tasks', Causes)
           b1 == Number(sig', Causes)
           c1 == Rearmings(tasks')
           d1 == One(grace')
           e1 == One(Redial')
<1>1. a \in Nat /\ b \in Nat /\ c \in Nat /\ a1 \in Nat /\ b1 \in Nat /\ c1 \in Nat
  BY Countable DEF Typed
<1>2. d \in Nat /\ e \in Nat /\ d1 \in Nat /\ e1 \in Nat
  BY DEF One
<1>3. a1 <= a /\ b1 <= b /\ c1 <= c /\ d1 <= d /\ e1 <= e + paid
  OBVIOUS
<1> HIDE DEF a, b, c, d, e, a1, b1, c1, d1, e1
<1>4. a1 + b1 + c1 + d1 + e1 <= a + b + c + d + e + paid
  BY <1>1, <1>2, <1>3
<1> QED  BY <1>4 DEF a, b, c, d, e, a1, b1, c1, d1, e1

(* Running a task that the worker posted to itself takes it off the queue. *)
LEMMA PostedPopped ==
    ASSUME Inv, tasks # <<>>, Head(tasks).what \in Posted
    PROVE  LET t == Tail(tasks) IN
           /\ t \in Seq(Hops) /\ OneClear(t, rearming)
           /\ Number(t, Causes) <= Number(tasks, Causes) /\ Rearmings(t) <= Rearmings(tasks)
           /\ state \in Waiting /\ Has(tasks, Awaited[state], pc)
                => Has(t, Awaited[state], pc)
<1> DEFINE t == Tail(tasks)
<1>1. tasks \in Seq(Hops) /\ OneClear(tasks, rearming)
  BY DEF Inv, Typed
<1>2. /\ t \in Seq(Hops)
      /\ \A w, e : Has(tasks, w, e) =>
           Has(t, w, e) \/ (Head(tasks).what \in w /\ Head(tasks).e = e)
      /\ \A r : OneClear(tasks, r) => OneClear(t, r)
  BY <1>1, HasTail
<1>3. /\ Number(t, Causes) + One(Head(tasks).what \in Causes) <= Number(tasks, Causes)
      /\ Rearmings(t) <= Rearmings(tasks)
  BY <1>1, CountTail
<1> HIDE DEF t
<1>4. One(Head(tasks).what \in Causes) = 0
  BY DEF One, Posted, Causes
<1>5. Number(t, Causes) \in Nat /\ Number(tasks, Causes) \in Nat
  BY <1>1, <1>2, Countable
<1>6. Number(t, Causes) <= Number(tasks, Causes)
  BY <1>3, <1>4, <1>5
<1>7. state \in Waiting /\ Has(tasks, Awaited[state], pc) => Has(t, Awaited[state], pc)
  BY <1>2, AwaitedKinds
<1> QED  BY <1>1, <1>2, <1>3, <1>6, <1>7 DEF t

(* A re-arm runs, or the guard or the end of the process swallows it.      *)
LEMMA RearmTaskStep == ASSUME Inv, RearmTask PROVE Inv'
<1>1. /\ tasks # <<>> /\ open' = open /\ events' = events /\ Head(tasks).what \in Rearms
      /\ life \in {"running", "dying"}
  BY DEF RearmTask, TaskIs, Rearms
<1>2. Typed /\ Alive /\ tasks \in Seq(Hops) /\ OneClear(tasks, rearming)
      /\ Head(tasks).what \in Posted
  BY <1>1 DEF Inv, Typed, Rearms, Posted
<1> DEFINE t == Tail(tasks)
<1>3. /\ t \in Seq(Hops) /\ OneClear(t, rearming)
      /\ Number(t, Causes) <= Number(tasks, Causes) /\ Rearmings(t) <= Rearmings(tasks)
      /\ state \in Waiting /\ Has(tasks, Awaited[state], pc) => Has(t, Awaited[state], pc)
  BY <1>1, <1>2, PostedPopped
<1>4. /\ Head(tasks).what \in Rearms /\ ~Clears(tasks) => Rearmings(t) + 1 <= Rearmings(tasks)
      /\ Rearmings(t) \in Nat /\ Rearmings(tasks) \in Nat
  BY <1>1, <1>2, <1>3, CountTail, Countable
<1>5. /\ Effective(tasks, TRUE) /\ Head(tasks).what \in Rearms => Effective(t, TRUE)
      /\ Clears(tasks) => Clears(t) \/ Head(tasks).what = "clear"
  BY <1>1, <1>2, HasTail
<1> HIDE DEF t
<1>6. RearmOrShutdown(t)
  BY DEF RearmTask, t
<1>7. CASE life = "running" /\ ~rearming /\ RearmSession(t)
  <2>1. ~Clears(tasks) /\ ~Clears(t)
    BY <1>2, <1>3, <1>7 DEF OneClear, Clears
  <2>2. One(grace) \in Nat
    BY DEF One
  <2>3. 1 <= Rearmings(tasks) + One(grace)
    BY <1>1, <1>4, <2>1, <2>2
  <2> QED  BY <1>1, <1>3, <1>7, <2>1, <2>3, RearmSessionStep
<1>8. CASE /\ life # "running" \/ rearming
           /\ tasks' = t
           /\ UNCHANGED <<driverVars, audio, rearming, signaling_connected_once,
                          last_ice_state, grace, life, sig, historyVars>>
  <2>1. /\ UNCHANGED driverVars /\ UNCHANGED <<life, offerPc>> /\ rearming' = rearming
        /\ sig' = sig /\ grace' = grace /\ life' = life
        /\ signaling_connected_once' = signaling_connected_once
    BY <1>8 DEF historyVars
  <2>2. /\ state' = state /\ pc' = pc /\ pending_local_offer' = pending_local_offer
        /\ ws_connected' = ws_connected
    BY <2>1 DEF driverVars
  <2>3. Busy => Busy'
    BY <1>3, <1>8, <2>1, <2>2, BusyKept
  <2>4. life = "running" => rearming = TRUE /\ Clears(tasks')
    <3>1. Head(tasks).what # "clear"
      BY <1>1 DEF Rearms
    <3> QED  BY <1>2, <1>5, <1>8, <3>1 DEF Typed, Alive
  <2>5. life = "running" /\ state = "kClosed" => Effective(tasks', rearming')
    BY <1>1, <1>2, <1>5, <1>8, <2>1, <2>4 DEF Alive
  <2>6. life = "running" => Busy'
    BY <1>2, <2>3 DEF Alive
  <2>7. One(grace') <= One(grace) /\ One(Redial') <= One(Redial) + 0
    BY <1>1, <2>1 DEF One, Redial
  <2>8. sig' \in Seq(Ops) /\ Number(sig', Causes) <= Number(sig, Causes)
    <3>1. Number(sig, Causes) \in Nat
      BY <1>2, Countable DEF Typed
    <3> QED  BY <1>2, <2>1, <3>1 DEF Typed
  <2>9. rearming' \in BOOLEAN /\ events' = events + 0 /\ 0 \in Nat
    BY <1>1, <1>2, <2>1 DEF Typed
  <2>10. Number(tasks', Causes) + Number(sig', Causes) + Rearmings(tasks')
           + One(grace') + One(Redial')
         <= Number(tasks, Causes) + Number(sig, Causes) + Rearmings(tasks)
           + One(grace) + One(Redial) + 0
    BY <1>2, <1>3, <1>8, <2>7, <2>8, <2>9, NoMore
  <2> QED  BY <1>3, <1>8, <2>1, <2>4, <2>5, <2>6, <2>8, <2>9, <2>10, QueueStep
<1> QED  BY <1>6, <1>7, <1>8 DEF RearmOrShutdown

(* The guard is cleared: what is queued behind it is not swallowed.        *)
LEMMA ClearTaskStep == ASSUME Inv, ClearTask PROVE Inv'
<1>1. /\ tasks # <<>> /\ open' = open /\ events' = events /\ Head(tasks).what = "clear"
      /\ tasks' = Tail(tasks) /\ rearming' = FALSE
  BY DEF ClearTask, TaskIs
<1>2. Typed /\ Alive /\ tasks \in Seq(Hops) /\ OneClear(tasks, rearming)
      /\ Head(tasks).what \in Posted
  BY <1>1 DEF Inv, Typed, Posted
<1>3. /\ tasks' \in Seq(Hops)
      /\ Number(tasks', Causes) <= Number(tasks, Causes)
      /\ Rearmings(tasks') <= Rearmings(tasks)
      /\ state \in Waiting /\ Has(tasks, Awaited[state], pc)
           => Has(tasks', Awaited[state], pc)
  BY <1>1, <1>2, PostedPopped
<1>4. /\ \A r : Effective(tasks, r) /\ Head(tasks).what = "clear" => Effective(tasks', FALSE)
      /\ \A r : OneClear(tasks, r) /\ Head(tasks).what = "clear" => ~Clears(tasks')
  <2>1. \A r : Effective(tasks, r) /\ Head(tasks).what = "clear" => Effective(Tail(tasks), FALSE)
    BY <1>1, <1>2, HasTail
  <2>2. \A r : OneClear(tasks, r) /\ Head(tasks).what = "clear" => ~Clears(Tail(tasks))
    BY <1>1, <1>2, HasTail
  <2> QED  BY <1>1, <2>1, <2>2
<1>5. OneClear(tasks', rearming')
  BY <1>1, <1>2, <1>4 DEF OneClear, Clears
<1>6. /\ UNCHANGED driverVars /\ UNCHANGED <<life, offerPc>>
      /\ sig' = sig /\ grace' = grace /\ life' = life
      /\ signaling_connected_once' = signaling_connected_once
  BY DEF ClearTask, historyVars
<1>7. /\ state' = state /\ pc' = pc /\ pending_local_offer' = pending_local_offer
      /\ ws_connected' = ws_connected
  BY <1>6 DEF driverVars
<1>8. Busy => Busy'
  BY <1>3, <1>6, <1>7, BusyKept
<1>9. life = "running" => /\ state = "kClosed" => Effective(tasks', rearming')
                          /\ rearming' => Clears(tasks')
                          /\ Busy'
  BY <1>1, <1>2, <1>4, <1>8 DEF Alive
<1>10. One(grace') <= One(grace) /\ One(Redial') <= One(Redial) + 0
  BY <1>1, <1>6 DEF One, Redial
<1>11. sig' \in Seq(Ops) /\ Number(sig', Causes) <= Number(sig, Causes)
  <2>1. Number(sig, Causes) \in Nat
    BY <1>2, Countable DEF Typed
  <2> QED  BY <1>2, <1>6, <2>1 DEF Typed
<1>12. rearming' \in BOOLEAN /\ events' = events + 0 /\ 0 \in Nat
  <2>1. rearming' \in BOOLEAN
    BY <1>1
  <2>2. events' = events + 0 /\ 0 \in Nat
    BY <1>1, <1>2 DEF Typed
  <2> QED  BY <2>1, <2>2
<1>13. Number(tasks', Causes) + Number(sig', Causes) + Rearmings(tasks')
         + One(grace') + One(Redial')
       <= Number(tasks, Causes) + Number(sig, Causes) + Rearmings(tasks)
         + One(grace) + One(Redial) + 0
  BY <1>2, <1>3, <1>10, <1>11, <1>12, NoMore
<1> QED  BY <1>3, <1>5, <1>6, <1>9, <1>11, <1>12, <1>13, QueueStep

(* The grace timer: a re-arm, unless one is under way or the process ends. *)
LEMMA GraceElapsedStep == ASSUME Inv, GraceElapsed PROVE Inv'
<1>1. open' = open /\ events' = events /\ grace /\ life \in {"running", "dying"}
  BY DEF GraceElapsed
<1>2. Typed /\ Alive /\ tasks \in Seq(Hops) /\ OneClear(tasks, rearming)
  BY DEF Inv, Typed
<1>3. Number(tasks, Causes) \in Nat /\ Rearmings(tasks) \in Nat /\ Number(sig, Causes) \in Nat
  BY <1>2, Countable DEF Typed
<1>4. CASE life = "running" /\ ~rearming /\ RearmSession(tasks)
  <2>1. ~Clears(tasks)
    BY <1>2, <1>4 DEF OneClear, Clears
  <2>2. One(grace) = 1
    BY <1>1 DEF One
  <2>3. 1 <= Rearmings(tasks) + One(grace) /\ Number(tasks, Causes) <= Number(tasks, Causes)
    BY <1>3, <2>2
  <2> QED  BY <1>1, <1>2, <1>4, <2>1, <2>3, RearmSessionStep
<1>5. CASE /\ grace' = FALSE
           /\ UNCHANGED <<driverVars, audio, rearming, signaling_connected_once,
                          last_ice_state, life, sig, tasks, historyVars>>
  <2>1. /\ UNCHANGED driverVars /\ UNCHANGED <<life, offerPc>> /\ rearming' = rearming
        /\ sig' = sig /\ tasks' = tasks /\ life' = life
        /\ signaling_connected_once' = signaling_connected_once
    BY <1>5 DEF historyVars
  <2>2. /\ state' = state /\ pc' = pc /\ pending_local_offer' = pending_local_offer
        /\ ws_connected' = ws_connected
    BY <2>1 DEF driverVars
  <2>3. Busy => Busy'
    BY <2>1, <2>2, BusyKept
  <2>4. life = "running" => /\ state = "kClosed" => Effective(tasks', rearming')
                            /\ rearming' => Clears(tasks')
                            /\ Busy'
    BY <1>2, <2>1, <2>3 DEF Alive
  <2>5. One(grace') <= One(grace)
    BY <1>5 DEF One
  <2>6. One(Redial') <= One(Redial) + 0
    BY <1>1, <2>1 DEF One, Redial
  <2>7. /\ Number(tasks', Causes) <= Number(tasks, Causes)
        /\ Number(sig', Causes) <= Number(sig, Causes)
        /\ Rearmings(tasks') <= Rearmings(tasks)
    BY <1>3, <2>1
  <2>8. /\ rearming' \in BOOLEAN /\ tasks' \in Seq(Hops) /\ sig' \in Seq(Ops)
        /\ OneClear(tasks', rearming')
    BY <1>2, <2>1 DEF Typed
  <2>9. events' = events + 0 /\ 0 \in Nat
    BY <1>1, <1>2 DEF Typed
  <2>10. Number(tasks', Causes) + Number(sig', Causes) + Rearmings(tasks')
           + One(grace') + One(Redial')
         <= Number(tasks, Causes) + Number(sig, Causes) + Rearmings(tasks)
           + One(grace) + One(Redial) + 0
    BY <1>2, <2>5, <2>6, <2>7, <2>8, <2>9, NoMore
  <2> QED  BY <2>1, <2>4, <2>8, <2>9, <2>10, QueueStep
<1> QED  BY <1>4, <1>5 DEF GraceElapsed

(* The hop that ends a call is one the state waits for, and only a state   *)
(* change that was a cause becomes one.                                    *)
LEMMA HopOf ==
    ASSUME Typed, NEW op \in Ops, op.what # "addIce", NEW hop \in Outcomes(op)
    PROVE  /\ hop \in Hops /\ hop.what \notin Rearms \cup {"clear"}
           /\ hop.what \in Causes => op.what \in Causes
           /\ state \in Waiting /\ op.what \in Called[state] /\ op.e = pc
                => hop.what \in Awaited[state] /\ hop.e = pc
<1>1. op.e \in Nat /\ op.k \in Nat /\ pc \in Nat /\ op.what \in Calls \cup Observed
  BY DEF Typed, Ops
<1>2. \A w \in Envelopes \cup Completions \cup Observed \cup Posted : \A e, k \in Nat :
        Task(w, e, k) \in Hops /\ Task(w, e, k).what = w /\ Task(w, e, k).e = e
  BY DEF Hops, Task
<1>3. \A w1, w2 \in Completions : \A e, k \in Nat :
         hop \in {Task(w1, e, k), Task(w2, e, k)}
         => hop \in Hops /\ hop.what \in {w1, w2} /\ hop.e = e
  BY <1>2
<1>4. CASE op.what = "createOffer"
  <2>1. hop \in {Task("offerCreated", op.e, 0), Task("createFailed", op.e, 0)}
    BY <1>4 DEF Outcomes
  <2>2. hop \in Hops /\ hop.what \in {"offerCreated", "createFailed"} /\ hop.e = op.e
    <3>1. "offerCreated" \in Completions /\ "createFailed" \in Completions /\ 0 \in Nat
      BY DEF Completions
    <3> QED  BY <1>1, <1>3, <2>1, <3>1
  <2>3. state \in Waiting /\ op.what \in Called[state] => state = "kCreatingOffer"
    BY <1>4, Tables DEF Waiting
  <2> QED  BY <2>2, <2>3, Tables DEF Rearms, Causes
<1>5. CASE op.what = "setLocal"
  <2>1. hop \in {Task("localSet", op.e, 0), Task("localFailed", op.e, 0)}
    BY <1>5 DEF Outcomes
  <2>2. hop \in Hops /\ hop.what \in {"localSet", "localFailed"} /\ hop.e = op.e
    <3>1. "localSet" \in Completions /\ "localFailed" \in Completions /\ 0 \in Nat
      BY DEF Completions
    <3> QED  BY <1>1, <1>3, <2>1, <3>1
  <2>3. state \in Waiting /\ op.what \in Called[state] => state = "kSettingLocal"
    BY <1>5, Tables DEF Waiting
  <2> QED  BY <2>2, <2>3, Tables DEF Rearms, Causes
<1>6. CASE op.what = "setRemote"
  <2>1. hop \in {Task("remoteSet", op.e, op.k), Task("remoteFailed", op.e, op.k)}
    BY <1>6 DEF Outcomes
  <2>2. hop \in Hops /\ hop.what \in {"remoteSet", "remoteFailed"} /\ hop.e = op.e
    <3>1. "remoteSet" \in Completions /\ "remoteFailed" \in Completions /\ 0 \in Nat
      BY DEF Completions
    <3> QED  BY <1>1, <1>3, <2>1, <3>1
  <2>3. state \in Waiting /\ op.what \in Called[state] => state = "kSettingRemote"
    BY <1>6, Tables DEF Waiting
  <2> QED  BY <2>2, <2>3, Tables DEF Rearms, Causes
<1>7. CASE op.what \in Observed
  <2>1. hop = Task(op.what, pc, 0)
    BY <1>7 DEF Outcomes, Observed, IceStates
  <2>2. hop \in Hops /\ hop.what = op.what /\ hop.e = pc
    BY <1>1, <1>2, <1>7, <2>1
  <2>3. state \in Waiting /\ op.what \in Called[state] => state = "kCreatingPc"
    BY <1>7, Tables DEF Waiting, Observed, IceStates
  <2> QED  BY <1>7, <2>2, <2>3, Tables DEF Rearms, Observed, IceStates
<1> QED  BY <1>1, <1>4, <1>5, <1>6, <1>7 DEF Calls

(* The signaling thread runs a call: a call under way becomes the hop that *)
(* was waited for.                                                         *)
LEMMA SignalingThreadStep == ASSUME Inv, SignalingThread PROVE Inv'
<1>1. /\ sig # <<>> /\ sig' = Tail(sig)
      /\ UNCHANGED <<driverVars, mainVars, open, historyVars, events>>
  BY DEF SignalingThread
<1>2. /\ UNCHANGED driverVars /\ UNCHANGED <<life, offerPc>> /\ rearming' = rearming
      /\ life' = life /\ grace' = grace /\ open' = open /\ events' = events
      /\ signaling_connected_once' = signaling_connected_once
  BY <1>1 DEF mainVars, historyVars
<1>3. /\ state' = state /\ pc' = pc /\ pending_local_offer' = pending_local_offer
      /\ ws_connected' = ws_connected
  BY <1>2 DEF driverVars
<1>4. Typed /\ Alive /\ tasks \in Seq(Hops) /\ OneClear(tasks, rearming) /\ sig \in Seq(Ops)
  BY DEF Inv, Typed
<1> DEFINE op == Head(sig)
<1>5. /\ op \in Ops /\ sig' \in Seq(Ops)
      /\ \A w, e : Has(sig, w, e) => Has(sig', w, e) \/ (op.what \in w /\ op.e = e)
  <2>1. /\ op \in Ops /\ Tail(sig) \in Seq(Ops)
        /\ \A w, e : Has(sig, w, e) => Has(Tail(sig), w, e) \/ (op.what \in w /\ op.e = e)
    BY <1>1, <1>4, HasTail
  <2> QED  BY <1>1, <2>1
<1>6. Number(sig', Causes) + One(op.what \in Causes) <= Number(sig, Causes)
  <2>1. Number(Tail(sig), Causes) + One(op.what \in Causes) <= Number(sig, Causes)
    BY <1>1, <1>4, CountTail
  <2> QED  BY <1>1, <2>1
<1>7. \/ op.what = "addIce" /\ tasks' = tasks
      \/ op.what # "addIce" /\ \E hop \in Outcomes(op) : tasks' = Append(tasks, hop)
  BY DEF SignalingThread
<1> HIDE DEF op
<1>8. /\ tasks' \in Seq(Hops) /\ OneClear(tasks', rearming')
      /\ \A r : Effective(tasks, r) => Effective(tasks', r)
      /\ Clears(tasks) => Clears(tasks')
      /\ \A w, e : Has(tasks, w, e) => Has(tasks', w, e)
      /\ Number(tasks', Causes) <= Number(tasks, Causes) + One(op.what \in Causes)
      /\ Rearmings(tasks') <= Rearmings(tasks)
      /\ state \in Waiting /\ op.what \in Called[state] /\ op.e = pc
           => Has(tasks', Awaited[state], pc)
  <2>1. Number(tasks, Causes) \in Nat /\ Rearmings(tasks) \in Nat
    BY <1>4, Countable
  <2>2. \A b : One(b) \in Nat
    BY DEF One
  <2>3. CASE op.what = "addIce" /\ tasks' = tasks
    <3>1. state \in Waiting => op.what \notin Called[state]
      BY <2>3, Tables DEF Waiting
    <3>2. One(op.what \in Causes) \in Nat
      BY <2>2
    <3>3. Number(tasks', Causes) <= Number(tasks, Causes) + One(op.what \in Causes)
          /\ Rearmings(tasks') <= Rearmings(tasks)
      BY <2>1, <2>3, <3>2
    <3> QED  BY <1>2, <1>4, <2>3, <3>1, <3>3
  <2>4. CASE op.what # "addIce" /\ \E hop \in Outcomes(op) : tasks' = Append(tasks, hop)
    <3>1. PICK hop \in Outcomes(op) : tasks' = Append(tasks, hop)
      BY <2>4
    <3>2. /\ hop \in Hops /\ hop.what \notin Rearms \cup {"clear"}
          /\ hop.what \in Causes => op.what \in Causes
          /\ state \in Waiting /\ op.what \in Called[state] /\ op.e = pc
               => hop.what \in Awaited[state] /\ hop.e = pc
      BY <1>4, <1>5, <2>4, HopOf
    <3>3. /\ Append(tasks, hop) \in Seq(Hops)
          /\ \A w, e : Has(tasks, w, e) \/ (hop.what \in w /\ hop.e = e)
               => Has(Append(tasks, hop), w, e)
          /\ Clears(tasks) \/ hop.what = "clear" => Clears(Append(tasks, hop))
          /\ \A r : Effective(tasks, r) => Effective(Append(tasks, hop), r)
          /\ \A r : OneClear(tasks, r) /\ hop.what # "clear" => OneClear(Append(tasks, hop), r)
      BY <1>4, <3>2, HasAppend
    <3>4. /\ Number(Append(tasks, hop), Causes) <= Number(tasks, Causes) + One(hop.what \in Causes)
          /\ Rearmings(Append(tasks, hop)) <= Rearmings(tasks) + One(hop.what \in Rearms)
      BY <1>4, <3>2, CountAppend
    <3>5. One(hop.what \in Rearms) = 0 /\ One(hop.what \in Causes) <= One(op.what \in Causes)
      BY <3>2 DEF One
    <3>6. /\ One(hop.what \in Causes) \in Nat /\ One(op.what \in Causes) \in Nat
          /\ Number(Append(tasks, hop), Causes) \in Nat /\ Rearmings(Append(tasks, hop)) \in Nat
      BY <2>2, <3>3, Countable
    <3>7. /\ Number(Append(tasks, hop), Causes) <= Number(tasks, Causes) + One(op.what \in Causes)
          /\ Rearmings(Append(tasks, hop)) <= Rearmings(tasks)
      BY <2>1, <3>4, <3>5, <3>6
    <3> QED  BY <1>2, <1>4, <3>1, <3>2, <3>3, <3>7
  <2> QED  BY <1>7, <2>3, <2>4
<1>9. Busy => Busy'
  <2> SUFFICES ASSUME Busy, state \in Waiting PROVE Busy'
    BY <1>3 DEF Busy
  <2>1. CASE Has(sig, Called[state], pc)
    BY <1>3, <1>5, <1>8, <2>1 DEF Busy
  <2>2. CASE Has(tasks, Awaited[state], pc)
    BY <1>3, <1>8, <2>2 DEF Busy
  <2> QED  BY <1>3, <2>1, <2>2 DEF Busy
<1>10. life = "running" => /\ state = "kClosed" => Effective(tasks', rearming')
                           /\ rearming' => Clears(tasks')
                           /\ Busy'
  BY <1>2, <1>4, <1>8, <1>9 DEF Alive
<1>11. One(grace') = One(grace) /\ One(Redial') = One(Redial)
  BY <1>2 DEF Redial
<1>12. rearming' \in BOOLEAN
  BY <1>2, <1>4 DEF Typed
<1>13. events' = events + 0 /\ 0 \in Nat
  BY <1>2, <1>4 DEF Typed
<1>14. Number(tasks', Causes) + Number(sig', Causes) + Rearmings(tasks')
         + One(grace') + One(Redial')
       <= Number(tasks, Causes) + Number(sig, Causes) + Rearmings(tasks)
         + One(grace) + One(Redial) + 0
  <2> DEFINE a == Number(tasks, Causes)
             b == Number(sig, Causes)
             c == Rearmings(tasks)
             d == One(grace)
             e == One(Redial)
             a1 == Number(tasks', Causes)
             b1 == Number(sig', Causes)
             c1 == Rearmings(tasks')
             g == One(op.what \in Causes)
  <2>1. a \in Nat /\ b \in Nat /\ c \in Nat /\ a1 \in Nat /\ b1 \in Nat /\ c1 \in Nat
    BY <1>4, <1>5, <1>8, Countable
  <2>2. d \in Nat /\ e \in Nat /\ g \in Nat
    BY DEF One
  <2>3. a1 <= a + g /\ b1 + g <= b /\ c1 <= c
    BY <1>6, <1>8
  <2> HIDE DEF a, b, c, d, e, a1, b1, c1, g
  <2>4. a1 + b1 + c1 + d + e <= a + b + c + d + e + 0
    BY <2>1, <2>2, <2>3
  <2> QED  BY <1>11, <2>4 DEF a, b, c, d, e, a1, b1, c1
<1> QED  BY <1>2, <1>5, <1>8, <1>10, <1>12, <1>13, <1>14, QueueStep

(* The channel drops: the envelopes not read are lost, and the redial that *)
(* follows is paid for.                                                    *)
LEMMA ChannelDropsStep == ASSUME Inv, ChannelDrops PROVE Inv'
<1> DEFINE kept == Completions \cup Observed \cup Posted
<1>1. /\ open /\ events' = events + 1 /\ open' = FALSE /\ tasks' = Keep(tasks, kept)
      /\ UNCHANGED <<driverVars, mainVars, sig, historyVars>>
  BY DEF ChannelDrops
<1>2. /\ UNCHANGED driverVars /\ UNCHANGED <<life, offerPc>> /\ rearming' = rearming
      /\ life' = life /\ grace' = grace /\ sig' = sig
      /\ signaling_connected_once' = signaling_connected_once
  BY <1>1 DEF mainVars, historyVars
<1>3. /\ state' = state /\ pc' = pc /\ pending_local_offer' = pending_local_offer
      /\ ws_connected' = ws_connected
  BY <1>2 DEF driverVars
<1>4. Typed /\ Alive /\ tasks \in Seq(Hops) /\ OneClear(tasks, rearming)
  BY DEF Inv, Typed
<1>5. "clear" \in kept /\ Rearms \cup {"clear"} \subseteq kept
      /\ \A s \in Waiting : Awaited[s] \subseteq kept
  BY AwaitedKinds DEF Posted, Rearms
<1> HIDE DEF kept
<1>6. /\ tasks' \in Seq(Hops)
      /\ \A w, e : w \subseteq kept /\ Has(tasks, w, e) => Has(tasks', w, e)
      /\ Clears(tasks) => Clears(tasks')
      /\ \A r : Effective(tasks, r) => Effective(tasks', r)
      /\ \A r : OneClear(tasks, r) => OneClear(tasks', r)
  <2>1. /\ Keep(tasks, kept) \in Seq(Hops)
        /\ \A w, e : w \subseteq kept /\ Has(tasks, w, e) => Has(Keep(tasks, kept), w, e)
        /\ "clear" \in kept /\ Clears(tasks) => Clears(Keep(tasks, kept))
        /\ \A r : Rearms \cup {"clear"} \subseteq kept /\ Effective(tasks, r)
             => Effective(Keep(tasks, kept), r)
        /\ \A r : OneClear(tasks, r) => OneClear(Keep(tasks, kept), r)
    BY <1>4, HasKeep
  <2> QED  BY <1>1, <1>5, <2>1
<1>7. Number(tasks', Causes) <= Number(tasks, Causes) /\ Rearmings(tasks') <= Rearmings(tasks)
  BY <1>1, <1>4, <1>5, CountKeep
<1>8. state \in Waiting /\ Has(tasks, Awaited[state], pc) => Has(tasks', Awaited[state], pc)
  BY <1>5, <1>6
<1>9. Busy => Busy'
  BY <1>2, <1>3, <1>8, BusyKept
<1>10. life = "running" => /\ state = "kClosed" => Effective(tasks', rearming')
                           /\ rearming' => Clears(tasks')
                           /\ Busy'
  BY <1>2, <1>4, <1>6, <1>9 DEF Alive
<1>11. OneClear(tasks', rearming') /\ rearming' \in BOOLEAN /\ sig' \in Seq(Ops)
  BY <1>2, <1>4, <1>6 DEF Typed
<1>12. One(grace') <= One(grace) /\ One(Redial') <= One(Redial) + 1
  BY <1>2 DEF One
<1>13. Number(sig', Causes) <= Number(sig, Causes) /\ 1 \in Nat
  <2>1. Number(sig, Causes) \in Nat
    BY <1>4, Countable DEF Typed
  <2> QED  BY <1>2, <2>1
<1>14. Number(tasks', Causes) + Number(sig', Causes) + Rearmings(tasks')
         + One(grace') + One(Redial')
       <= Number(tasks, Causes) + Number(sig, Causes) + Rearmings(tasks)
         + One(grace) + One(Redial) + 1
  BY <1>4, <1>6, <1>7, <1>11, <1>12, <1>13, NoMore
<1> QED  BY <1>1, <1>2, <1>6, <1>10, <1>11, <1>13, <1>14, QueueStep

(* What is queued with one more task that is no re-arm and no clear.       *)
LEMMA Arrives ==
    ASSUME Inv, NEW m \in Hops, m.what \notin Rearms \cup {"clear"},
           tasks' = Append(tasks, m), rearming' = rearming
    PROVE  /\ tasks' \in Seq(Hops) /\ OneClear(tasks', rearming')
           /\ Effective(tasks, rearming) => Effective(tasks', rearming')
           /\ Clears(tasks) => Clears(tasks')
           /\ \A w, e : Has(tasks, w, e) => Has(tasks', w, e)
           /\ Number(tasks', Causes) <= Number(tasks, Causes) + 1
           /\ Rearmings(tasks') <= Rearmings(tasks)
<1>1. tasks \in Seq(Hops) /\ OneClear(tasks, rearming)
  BY DEF Inv, Typed
<1>2. /\ Append(tasks, m) \in Seq(Hops)
      /\ \A w, e : Has(tasks, w, e) \/ (m.what \in w /\ m.e = e) => Has(Append(tasks, m), w, e)
      /\ Clears(tasks) \/ m.what = "clear" => Clears(Append(tasks, m))
      /\ \A r : Effective(tasks, r) => Effective(Append(tasks, m), r)
      /\ \A r : OneClear(tasks, r) /\ m.what # "clear" => OneClear(Append(tasks, m), r)
  BY <1>1, HasAppend
<1>3. /\ Number(Append(tasks, m), Causes) <= Number(tasks, Causes) + One(m.what \in Causes)
      /\ Rearmings(Append(tasks, m)) <= Rearmings(tasks) + One(m.what \in Rearms)
  BY <1>1, CountAppend
<1>4. One(m.what \in Rearms) = 0 /\ One(m.what \in Causes) \in {0, 1}
  BY DEF One
<1>5. /\ Number(tasks, Causes) \in Nat /\ Rearmings(tasks) \in Nat
      /\ Number(Append(tasks, m), Causes) \in Nat /\ Rearmings(Append(tasks, m)) \in Nat
  BY <1>1, <1>2, Countable
<1>6. Number(Append(tasks, m), Causes) <= Number(tasks, Causes) + 1
      /\ Rearmings(Append(tasks, m)) <= Rearmings(tasks)
  BY <1>3, <1>4, <1>5
<1> QED  BY <1>1, <1>2, <1>6

(* An envelope from the broker pays for the re-arm it may lead to.         *)
LEMMA EnvelopeArrivesStep == ASSUME Inv, EnvelopeArrives PROVE Inv'
<1>1. /\ events' = events + 1
      /\ UNCHANGED <<driverVars, mainVars, open, sig, historyVars>>
  BY DEF EnvelopeArrives, Input
<1>2. /\ UNCHANGED driverVars /\ UNCHANGED <<life, offerPc>> /\ rearming' = rearming
      /\ life' = life /\ grace' = grace /\ sig' = sig /\ open' = open
      /\ signaling_connected_once' = signaling_connected_once
  BY <1>1 DEF mainVars, historyVars
<1>3. /\ state' = state /\ pc' = pc /\ pending_local_offer' = pending_local_offer
      /\ ws_connected' = ws_connected
  BY <1>2 DEF driverVars
<1>4. Typed /\ Alive /\ 1 \in Nat
  BY DEF Inv
<1>5. PICK m \in Hops : m.what \in Envelopes /\ tasks' = Append(tasks, m)
  <2>1. \A what \in Envelopes : \A k \in Nat :
          Task(what, 0, k) \in Hops /\ Task(what, 0, k).what = what
    BY DEF Hops, Task
  <2>2. CASE \E what \in Envelopes \ {"answer"} : tasks' = Append(tasks, Task(what, 0, 0))
    BY <2>1, <2>2
  <2>3. CASE \E k \in 1..offers : tasks' = Append(tasks, Task("answer", 0, k))
    <3>1. PICK k \in 1..offers : tasks' = Append(tasks, Task("answer", 0, k))
      BY <2>3
    <3>2. k \in Nat /\ "answer" \in Envelopes
      BY DEF Envelopes
    <3> QED  BY <2>1, <3>1, <3>2
  <2> QED  BY <2>2, <2>3 DEF EnvelopeArrives
<1>6. m.what \notin Rearms \cup {"clear"}
  BY <1>5 DEF Envelopes, Rearms
<1>7. /\ tasks' \in Seq(Hops) /\ OneClear(tasks', rearming')
      /\ Effective(tasks, rearming) => Effective(tasks', rearming')
      /\ Clears(tasks) => Clears(tasks')
      /\ \A w, e : Has(tasks, w, e) => Has(tasks', w, e)
      /\ Number(tasks', Causes) <= Number(tasks, Causes) + 1
      /\ Rearmings(tasks') <= Rearmings(tasks)
  BY <1>2, <1>5, <1>6, Arrives
<1>8. Busy => Busy'
  BY <1>2, <1>3, <1>7, BusyKept
<1>9. life = "running" => /\ state = "kClosed" => Effective(tasks', rearming')
                          /\ rearming' => Clears(tasks')
                          /\ Busy'
  BY <1>2, <1>4, <1>7, <1>8 DEF Alive
<1>10. rearming' \in BOOLEAN /\ sig' \in Seq(Ops)
  BY <1>2, <1>4 DEF Typed
<1>11. Number(tasks', Causes) + Number(sig', Causes) + Rearmings(tasks')
         + One(grace') + One(Redial')
       <= Number(tasks, Causes) + Number(sig, Causes) + Rearmings(tasks)
         + One(grace) + One(Redial) + 1
  <2> DEFINE a == Number(tasks, Causes)
             b == Number(sig, Causes)
             c == Rearmings(tasks)
             d == One(grace)
             e == One(Redial)
             a1 == Number(tasks', Causes)
             c1 == Rearmings(tasks')
  <2>1. a \in Nat /\ b \in Nat /\ c \in Nat /\ a1 \in Nat /\ c1 \in Nat
    BY <1>4, <1>7, Countable DEF Typed
  <2>2. d \in Nat /\ e \in Nat
    BY DEF One
  <2>3. a1 <= a + 1 /\ c1 <= c
    BY <1>7
  <2>4. b = Number(sig', Causes) /\ d = One(grace') /\ e = One(Redial')
    BY <1>2 DEF Redial
  <2> HIDE DEF a, b, c, d, e, a1, c1
  <2>5. a1 + b + c1 + d + e <= a + b + c + d + e + 1
    BY <2>1, <2>2, <2>3
  <2> QED  BY <2>4, <2>5 DEF a, b, c, d, e, a1, c1
<1> QED  BY <1>1, <1>2, <1>4, <1>7, <1>9, <1>10, <1>11, QueueStep

(* What the connection observes joins the calls of the signaling thread.   *)
LEMMA PcObservesStep == ASSUME Inv, PcObserves PROVE Inv'
<1>1. /\ events' = events + 1
      /\ UNCHANGED <<driverVars, mainVars, open, tasks, historyVars>>
  BY DEF PcObserves, Input
<1>2. /\ UNCHANGED driverVars /\ UNCHANGED <<life, offerPc>> /\ rearming' = rearming
      /\ life' = life /\ grace' = grace /\ tasks' = tasks /\ open' = open
      /\ signaling_connected_once' = signaling_connected_once
  BY <1>1 DEF mainVars, historyVars
<1>3. /\ state' = state /\ pc' = pc /\ pending_local_offer' = pending_local_offer
      /\ ws_connected' = ws_connected
  BY <1>2 DEF driverVars
<1>4. Typed /\ Alive /\ OneClear(tasks, rearming) /\ 1 \in Nat
  BY DEF Inv
<1>5. PICK what \in Observed : sig' = Append(sig, Task(what, pc, 0))
  BY DEF PcObserves, Call, Observed
<1> DEFINE m == Task(what, pc, 0)
<1>6. m \in Ops /\ sig \in Seq(Ops)
  BY <1>4, <1>5 DEF Ops, Task, Typed
<1> HIDE DEF m
<1>7. sig' = Append(sig, m)
  BY <1>5 DEF m
<1>8. /\ sig' \in Seq(Ops) /\ \A w, e : Has(sig, w, e) => Has(sig', w, e)
  BY <1>6, <1>7, HasAppend
<1>9. Busy => Busy'
  BY <1>2, <1>3, <1>8, BusyKept
<1>10. life = "running" => /\ state = "kClosed" => Effective(tasks', rearming')
                           /\ rearming' => Clears(tasks')
                           /\ Busy'
  BY <1>2, <1>4, <1>9 DEF Alive
<1>11. rearming' \in BOOLEAN /\ tasks' \in Seq(Hops) /\ OneClear(tasks', rearming')
  BY <1>2, <1>4 DEF Typed
<1>12. Number(tasks', Causes) + Number(sig', Causes) + Rearmings(tasks')
         + One(grace') + One(Redial')
       <= Number(tasks, Causes) + Number(sig, Causes) + Rearmings(tasks)
         + One(grace) + One(Redial) + 1
  <2> DEFINE a == Number(tasks, Causes)
             b == Number(sig, Causes)
             c == Rearmings(tasks)
             d == One(grace)
             e == One(Redial)
             b1 == Number(sig', Causes)
             g == One(m.what \in Causes)
  <2>1. a \in Nat /\ b \in Nat /\ c \in Nat /\ b1 \in Nat
    BY <1>4, <1>8, Countable DEF Typed
  <2>2. d \in Nat /\ e \in Nat /\ g \in {0, 1}
    BY DEF One
  <2>3. b1 <= b + g
    BY <1>6, <1>7, CountAppend
  <2>4. a = Number(tasks', Causes) /\ c = Rearmings(tasks') /\ d = One(grace') /\ e = One(Redial')
    BY <1>2 DEF Redial
  <2> HIDE DEF a, b, c, d, e, b1, g
  <2>5. a + b1 + c + d + e <= a + b + c + d + e + 1
    BY <2>1, <2>2, <2>3
  <2> QED  BY <2>4, <2>5 DEF a, b, c, d, e, b1
<1> QED  BY <1>1, <1>2, <1>4, <1>8, <1>10, <1>11, <1>12, QueueStep

(* The first connection of the process.                                    *)
LEMMA StartNativeSessionStep == ASSUME Inv, StartNativeSession PROVE Inv'
<1>1. /\ life = "running" /\ pc = 0 /\ pc' = 1
      /\ UNCHANGED <<rearming, signaling_connected_once, grace, open, tasks, events>>
      /\ pending_local_offer' = pending_local_offer
      /\ pending_early_answer' = pending_early_answer
      /\ pending_remote_ice' = pending_remote_ice
      /\ initial_renegotiation_consumed' = initial_renegotiation_consumed
      /\ rearming' = rearming /\ tasks' = tasks /\ events' = events
      /\ \/ Start /\ life' = life
         \/ state' = "kFailed" /\ life' = "dying" /\ sig' = sig
  BY DEF StartNativeSession, iceVars, historyVars
<1>2. Typed /\ Fresh /\ Alive /\ LiveOffer /\ Budget /\ OneClear(tasks, rearming)
  BY DEF Inv
<1>3. pending_local_offer = 0 /\ pending_early_answer = 0 /\ pending_remote_ice = <<>>
      /\ ~initial_renegotiation_consumed
  BY <1>1, <1>2 DEF Fresh, LiveOffer
<1>4. Number(sig, Causes) \in Nat
  BY <1>2, Countable DEF Typed
<1>5. /\ state' \in {"kCreatingPc", "kFailed"} /\ sig' \in Seq(Ops)
      /\ Number(sig', Causes) <= Number(sig, Causes)
      /\ life' = "running" =>
           state' = "kCreatingPc" /\ (VideoMayFail \/ Has(sig', {"negotiationNeeded"}, 1))
  <2>1. CASE Start
    <3>1. /\ state' = "kCreatingPc" /\ sig' \in Seq(Ops) /\ Number(sig', Causes) = 0
          /\ VideoMayFail \/ Has(sig', {"negotiationNeeded"}, pc + 1)
      BY <1>2, <2>1, Started
    <3>2. pc + 1 = 1
      BY <1>1
    <3> QED  BY <1>4, <3>1, <3>2
  <2>2. CASE state' = "kFailed" /\ life' = "dying" /\ sig' = sig
    BY <1>2, <1>4, <2>2 DEF Typed
  <2> QED  BY <1>1, <2>1, <2>2
<1>6. Typed'
  BY <1>1, <1>2, <1>5 DEF Typed, States
<1>7. Fresh'
  BY <1>1, <1>3 DEF Fresh
<1>8. Alive'
  <2>1. life' = "running" => Busy'
    BY <1>1, <1>5, Tables DEF Busy
  <2> QED  BY <1>1, <1>2, <1>5, <2>1 DEF Alive
<1>9. LiveOffer'
  BY <1>1, <1>3, <1>5 DEF LiveOffer, OfferOut
<1>10. OneClear(tasks', rearming')
  BY <1>1, <1>2
<1>11. Budget'
  <2> DEFINE a == Number(tasks, Causes)
             b == Number(sig, Causes)
             c == Rearmings(tasks)
             d == One(grace)
             e == One(Redial)
             b1 == Number(sig', Causes)
  <2>1. a \in Nat /\ b \in Nat /\ c \in Nat /\ b1 \in Nat /\ events \in Nat
    BY <1>2, <1>5, Countable DEF Typed
  <2>2. d \in Nat /\ e \in Nat
    BY DEF One
  <2>3. One(pc = 0) = 1 /\ One(pc' = 0) = 0
    BY <1>1 DEF One
  <2>4. /\ a = Number(tasks', Causes) /\ c = Rearmings(tasks') /\ d = One(grace')
        /\ e = One(Redial')
    BY <1>1 DEF Redial
  <2>5. 0 + 1 + a + b + c + d + e <= 1 + events
    BY <1>1, <1>2, <2>3 DEF Budget
  <2>6. b1 <= b
    BY <1>5
  <2> HIDE DEF a, b, c, d, e, b1
  <2>7. 1 + 0 + a + b1 + c + d + e <= 1 + events
    BY <2>1, <2>2, <2>5, <2>6
  <2> QED  BY <1>1, <2>3, <2>4, <2>7 DEF Budget, b1
<1> QED  BY <1>6, <1>7, <1>8, <1>9, <1>10, <1>11 DEF Inv

(* The budget of a connected channel: the re-arm it may post was paid for. *)
LEMMA ConnectedBudget ==
    ASSUME Inv, Typed', pc' = pc, events' = events, grace' = grace, open' = TRUE,
           Number(tasks', Causes) <= Number(tasks, Causes),
           Number(sig', Causes) <= Number(sig, Causes),
           Rearmings(tasks') <= Rearmings(tasks) + One(Redial)
    PROVE  Budget'
<1> DEFINE a == Number(tasks, Causes)
           b == Number(sig, Causes)
           c == Rearmings(tasks)
           d == One(grace)
           e == One(Redial)
           a1 == Number(tasks', Causes)
           b1 == Number(sig', Causes)
           c1 == Rearmings(tasks')
<1>1. a \in Nat /\ b \in Nat /\ c \in Nat /\ a1 \in Nat /\ b1 \in Nat /\ c1 \in Nat
  BY Countable DEF Inv, Typed
<1>2. d \in Nat /\ e \in Nat
  BY DEF One
<1>3. One(Redial') = 0 /\ One(grace') = d
  BY DEF One, Redial
<1>4. a1 <= a /\ b1 <= b /\ c1 <= c + e
  OBVIOUS
<1> HIDE DEF a, b, c, d, e, a1, b1, c1
<1>5. a1 + b1 + c1 + d + 0 <= a + b + c + d + e + 0
  BY <1>1, <1>2, <1>4
<1>6. Number(tasks', Causes) + Number(sig', Causes) + Rearmings(tasks')
        + One(grace') + One(Redial')
      <= Number(tasks, Causes) + Number(sig, Causes) + Rearmings(tasks)
        + One(grace) + One(Redial) + 0
  BY <1>3, <1>5 DEF a, b, c, d, e, a1, b1, c1
<1>7. Typed /\ Budget /\ events' = events + 0 /\ 0 \in Nat
  BY DEF Inv, Typed
<1> QED  BY <1>6, <1>7, BudgetKept

(* The channel opens: a stashed offer goes out, and a redial with nobody   *)
(* attached posts the re-arm that the drop paid for.                       *)
LEMMA OnConnectedStep == ASSUME Inv, OnConnected PROVE Inv'
<1>1. /\ life \in {"running", "dying"} /\ pc # 0 /\ ~open /\ open' = TRUE
      /\ ws_connected' = TRUE /\ pending_local_offer' = 0
      /\ signaling_connected_once' = TRUE
      /\ pc' = pc /\ pending_early_answer' = pending_early_answer
      /\ pending_remote_ice' = pending_remote_ice
      /\ initial_renegotiation_consumed' = initial_renegotiation_consumed
      /\ rearming' = rearming /\ grace' = grace /\ life' = life /\ events' = events
  BY DEF OnConnected, iceVars
<1>2. Typed /\ Fresh /\ Alive /\ LiveOffer /\ Budget /\ OneClear(tasks, rearming)
      /\ "setLocal" \in Calls /\ 0 \in Nat
  BY DEF Inv, Calls
<1>3. \/ /\ tasks' = Append(tasks, Task("rearmQuiet", 0, 0))
         /\ signaling_connected_once
      \/ tasks' = tasks
  BY DEF OnConnected
<1>4. /\ tasks' \in Seq(Hops) /\ OneClear(tasks', rearming')
      /\ Effective(tasks, rearming) => Effective(tasks', rearming')
      /\ Clears(tasks) => Clears(tasks')
      /\ \A w, e : Has(tasks, w, e) => Has(tasks', w, e)
      /\ Number(tasks', Causes) <= Number(tasks, Causes)
      /\ Rearmings(tasks') <= Rearmings(tasks) + One(Redial)
  <2>1. tasks \in Seq(Hops) /\ Number(tasks, Causes) \in Nat /\ Rearmings(tasks) \in Nat
    BY <1>2, Countable DEF Typed
  <2>2. One(Redial) \in Nat
    BY DEF One
  <2>3. CASE tasks' = tasks
    <3>1. Number(tasks', Causes) <= Number(tasks, Causes)
          /\ Rearmings(tasks') <= Rearmings(tasks) + One(Redial)
      BY <2>1, <2>2, <2>3
    <3> QED  BY <1>1, <1>2, <2>1, <2>3, <3>1
  <2>4. CASE tasks' = Append(tasks, Task("rearmQuiet", 0, 0)) /\ signaling_connected_once
    <3> DEFINE m == Task("rearmQuiet", 0, 0)
    <3>1. m \in Hops /\ m.what = "rearmQuiet"
      BY DEF Hops, Posted, Task
    <3> HIDE DEF m
    <3>2. /\ Append(tasks, m) \in Seq(Hops)
          /\ \A w, e : Has(tasks, w, e) \/ (m.what \in w /\ m.e = e)
               => Has(Append(tasks, m), w, e)
          /\ Clears(tasks) \/ m.what = "clear" => Clears(Append(tasks, m))
          /\ \A r : Effective(tasks, r) => Effective(Append(tasks, m), r)
          /\ \A r : OneClear(tasks, r) /\ m.what # "clear" => OneClear(Append(tasks, m), r)
      BY <2>1, <3>1, HasAppend
    <3>3. /\ Number(Append(tasks, m), Causes) <= Number(tasks, Causes) + One(m.what \in Causes)
          /\ Rearmings(Append(tasks, m)) <= Rearmings(tasks) + One(m.what \in Rearms)
      BY <2>1, <3>1, CountAppend
    <3>4. One(m.what \in Causes) = 0 /\ One(m.what \in Rearms) = 1
      BY <3>1 DEF One, Causes, Rearms
    <3>5. One(Redial) = 1
      BY <1>1, <2>4 DEF One, Redial
    <3>6. Number(Append(tasks, m), Causes) \in Nat /\ Rearmings(Append(tasks, m)) \in Nat
      BY <3>2, Countable
    <3>7. Number(Append(tasks, m), Causes) <= Number(tasks, Causes)
          /\ Rearmings(Append(tasks, m)) <= Rearmings(tasks) + One(Redial)
      BY <2>1, <3>3, <3>4, <3>5, <3>6
    <3>8. tasks' = Append(tasks, m)
      BY <2>4 DEF m
    <3>9. m.what # "clear"
      BY <3>1
    <3> QED  BY <1>1, <1>2, <3>2, <3>7, <3>8, <3>9
  <2> QED  BY <1>3, <2>3, <2>4
<1>5. CASE pending_local_offer # 0 /\ state = "kCreatingOffer" /\ EmitOffer(pending_local_offer)
  <2>1. state' = "kSettingLocal" /\ Call("setLocal", 0) /\ offerPc' = pc
    BY <1>2, <1>5 DEF EmitOffer, LiveOffer
  <2>2. /\ sig' \in Seq(Ops) /\ Number(sig', Causes) <= Number(sig, Causes)
        /\ \A w : "setLocal" \in w => Has(sig', w, pc)
    BY <1>2, <2>1, CallsOut
  <2>3. Busy'
    BY <1>1, <2>1, <2>2, Tables DEF Busy
  <2>4. Fresh'
    BY <1>1, <1>2, <2>1 DEF Fresh
  <2>5. LiveOffer'
    BY <1>1, <1>2, <1>5, <2>1 DEF LiveOffer, OfferOut, Terminal
  <2>6. Typed'
    BY <1>1, <1>2, <1>4, <2>1, <2>2 DEF Typed, States
  <2>7. Alive'
    BY <1>1, <1>2, <1>4, <2>1, <2>3 DEF Alive
  <2> QED  BY <1>1, <1>2, <1>4, <2>2, <2>4, <2>5, <2>6, <2>7, ConnectedBudget DEF Inv
<1>6. CASE /\ ~(pending_local_offer # 0 /\ state = "kCreatingOffer")
           /\ UNCHANGED <<state, sig, offers, offerPc>>
  <2>1. state' = state /\ sig' = sig /\ offerPc' = offerPc
    BY <1>6
  <2>2. sig' \in Seq(Ops) /\ Number(sig', Causes) <= Number(sig, Causes)
    <3>1. Number(sig, Causes) \in Nat
      BY <1>2, Countable DEF Typed
    <3> QED  BY <1>2, <2>1, <3>1 DEF Typed
  <2>3. Busy => Busy'
    <3>1. ~(state = "kCreatingOffer" /\ pending_local_offer = pc)
      BY <1>1, <1>6
    <3> QED  BY <1>1, <1>4, <2>1, <3>1 DEF Busy
  <2>4. Fresh'
    BY <1>1, <1>2, <2>1 DEF Fresh
  <2>5. LiveOffer'
    BY <1>1, <1>2, <2>1 DEF LiveOffer, OfferOut, Terminal
  <2>6. Typed'
    BY <1>1, <1>2, <1>4, <2>1, <2>2 DEF Typed, States
  <2>7. Alive'
    BY <1>1, <1>2, <1>4, <2>1, <2>3 DEF Alive
  <2> QED  BY <1>1, <1>2, <1>4, <2>2, <2>4, <2>5, <2>6, <2>7, ConnectedBudget DEF Inv
<1> QED  BY <1>5, <1>6 DEF OnConnected

(* The quit closure.                                                       *)
LEMMA ShutdownStep == ASSUME Inv, Shutdown PROVE Inv'
<1>1. /\ life' = "quitting" /\ life = "running"
      /\ UNCHANGED <<driverVars, rearming, signaling_connected_once, grace, open, tasks, sig,
                     historyVars, events>>
  BY DEF Shutdown
<1>2. /\ pc' = pc /\ pending_local_offer' = pending_local_offer /\ state' = state
      /\ pending_early_answer' = pending_early_answer /\ offerPc' = offerPc
      /\ pending_remote_ice' = pending_remote_ice
      /\ initial_renegotiation_consumed' = initial_renegotiation_consumed
      /\ rearming' = rearming /\ tasks' = tasks /\ sig' = sig /\ events' = events
      /\ grace' = grace /\ open' = open
      /\ signaling_connected_once' = signaling_connected_once
  BY <1>1 DEF driverVars, iceVars, historyVars
<1>3. Typed'
  BY <1>2 DEF Inv, Typed
<1>4. Fresh' /\ LiveOffer' /\ OneClear(tasks', rearming')
  BY <1>1, <1>2 DEF Inv, Fresh, LiveOffer, OfferOut
<1>5. Alive'
  BY <1>1 DEF Alive
<1>6. Budget'
  <2>1. Redial' = Redial
    BY <1>1, <1>2 DEF Redial
  <2> QED  BY <1>2, <2>1 DEF Inv, Budget
<1> QED  BY <1>3, <1>4, <1>5, <1>6 DEF Inv

(* The GPU is gone for good: the session is closed and not re-armed.       *)
LEMMA OnGpuPermanentDeathStep == ASSUME Inv, OnGpuPermanentDeath PROVE Inv'
<1>1. /\ life = "running" /\ life' = "dying" /\ pc # 0 /\ pc' = pc
      /\ pending_local_offer' = pending_local_offer
      /\ pending_early_answer' = pending_early_answer /\ offerPc' = offerPc
      /\ initial_renegotiation_consumed' = initial_renegotiation_consumed
      /\ rearming' = rearming /\ tasks' = tasks /\ events' = events
      /\ grace' = grace /\ open' = open
      /\ signaling_connected_once' = signaling_connected_once
      /\ \/ state' = state /\ pending_remote_ice' = pending_remote_ice /\ sig' = sig
         \/ state' = "kClosed" /\ pending_remote_ice' = <<>> /\ Call("closed", 0)
  BY DEF OnGpuPermanentDeath, ClosePc, historyVars
<1>2. Typed /\ Fresh /\ LiveOffer /\ Budget /\ OneClear(tasks, rearming) /\ 0 \in Nat
  BY DEF Inv
<1>3. sig' \in Seq(Ops) /\ Number(sig', Causes) <= Number(sig, Causes)
  <2>1. CASE sig' = sig
    <3>1. Number(sig, Causes) \in Nat
      BY <1>2, Countable DEF Typed
    <3> QED  BY <1>2, <2>1, <3>1 DEF Typed
  <2>2. CASE Call("closed", 0)
    BY <1>2, <2>2, CallsOut
  <2> QED  BY <1>1, <2>1, <2>2
<1>4. Typed'
  <2>1. pending_remote_ice' \in Seq(Nat) /\ state' \in States
    <3>1. <<>> \in Seq(Nat)
      OBVIOUS
    <3> QED  BY <1>1, <1>2, <3>1 DEF Typed, States
  <2> QED  BY <1>1, <1>2, <1>3, <2>1 DEF Typed
<1>5. Fresh'
  BY <1>1, <1>2 DEF Fresh
<1>6. LiveOffer'
  BY <1>1, <1>2 DEF LiveOffer, OfferOut
<1>7. Alive'
  BY <1>1 DEF Alive
<1>8. Budget'
  <2>1. One(grace') <= One(grace) /\ One(Redial') <= One(Redial) + 0
    BY <1>1 DEF One, Redial
  <2>2. /\ Number(tasks', Causes) <= Number(tasks, Causes)
        /\ Rearmings(tasks') <= Rearmings(tasks)
    <3>1. Number(tasks, Causes) \in Nat /\ Rearmings(tasks) \in Nat
      BY <1>2, Countable DEF Typed
    <3> QED  BY <1>1, <3>1
  <2>3. tasks' \in Seq(Hops) /\ events' = events + 0
    BY <1>1, <1>2 DEF Typed
  <2>4. Number(tasks', Causes) + Number(sig', Causes) + Rearmings(tasks')
          + One(grace') + One(Redial')
        <= Number(tasks, Causes) + Number(sig, Causes) + Rearmings(tasks)
          + One(grace) + One(Redial) + 0
    BY <1>2, <1>3, <2>1, <2>2, <2>3, NoMore
  <2> QED  BY <1>1, <1>2, <1>4, <2>3, <2>4, BudgetKept
<1> QED  BY <1>1, <1>2, <1>4, <1>5, <1>6, <1>7, <1>8 DEF Inv

(* The end of the process leaves nothing queued.                           *)
LEMMA PostMainMessageLoopRunStep == ASSUME Inv, PostMainMessageLoopRun PROVE Inv'
<1>1. /\ life' = "exited" /\ pc' = pc /\ state' \in {"kFailed", "kClosed"}
      /\ pending_local_offer' = pending_local_offer
      /\ pending_early_answer' = pending_early_answer /\ offerPc' = offerPc
      /\ initial_renegotiation_consumed' = initial_renegotiation_consumed
      /\ rearming' = rearming /\ events' = events
      /\ grace' = FALSE /\ tasks' = <<>> /\ sig' = <<>> /\ pending_remote_ice' = <<>>
  BY DEF PostMainMessageLoopRun, historyVars
<1>2. Typed /\ Fresh /\ LiveOffer
  BY DEF Inv
<1>3. \A T : <<>> \in Seq(T)
  OBVIOUS
<1>4. Typed'
  BY <1>1, <1>2, <1>3 DEF Typed, States
<1>5. Fresh'
  BY <1>1, <1>2 DEF Fresh, Terminal
<1>6. LiveOffer'
  BY <1>1, <1>2 DEF LiveOffer, OfferOut
<1>7. Alive'
  BY <1>1 DEF Alive
<1>8. OneClear(tasks', rearming')
  BY <1>1 DEF OneClear
<1>9. Budget'
  <2>1. Number(tasks', Causes) = 0 /\ Number(sig', Causes) = 0 /\ Rearmings(tasks') = 0
    BY <1>1, CountEmpty
  <2>2. One(grace') = 0 /\ One(Redial') = 0
    BY <1>1 DEF One, Redial
  <2>3. /\ Number(tasks, Causes) \in Nat /\ Number(sig, Causes) \in Nat
        /\ Rearmings(tasks) \in Nat
    BY <1>2, Countable DEF Typed
  <2>4. \A b : One(b) \in Nat
    BY DEF One
  <2>5. One(grace) \in Nat /\ One(Redial) \in Nat
    BY <2>4
  <2>6. events' = events + 0 /\ 0 \in Nat /\ Budget
    BY <1>1, <1>2 DEF Typed, Inv
  <2>7. 0 + 0 + 0 + 0 + 0
        <= Number(tasks, Causes) + Number(sig, Causes) + Rearmings(tasks)
          + One(grace) + One(Redial) + 0
    BY <2>3, <2>5
  <2> QED  BY <1>1, <1>2, <1>4, <2>1, <2>2, <2>6, <2>7, BudgetKept
<1> QED  BY <1>4, <1>5, <1>6, <1>7, <1>8, <1>9 DEF Inv

-----------------------------------------------------------------------------
(* The theorems                                                            *)

(* Every step of the worker keeps the invariant.                           *)
LEMMA StepInv == Inv /\ [Next]_vars => Inv'
<1> SUFFICES ASSUME Inv, [Next]_vars PROVE Inv'
  OBVIOUS
<1>1. CASE UiThread
  BY <1>1, DiscardedStep, HandleOfferStep, HandleAnswerStep, HandleIceStep, HandleByeStep,
     HandleRequestRenegotiateStep, HopHandleRenegotiationNeededStep,
     HopHandleCreateOfferSuccessStep, HopHandleSetLocalDescriptionCompleteStep,
     HopHandleSetRemoteDescriptionCompleteStep, HopHandleFailureStep,
     HopHandleIceConnectionChangeStep, HopHandleIceCandidateStep, RearmTaskStep,
     ClearTaskStep DEF UiThread
<1>2. CASE UNCHANGED vars
  <2>1. /\ UNCHANGED <<state, pc, rearming, pending_local_offer, pending_early_answer,
                       pending_remote_ice, tasks, sig, events, initial_renegotiation_consumed,
                       life, ws_connected, offerPc, grace, open, signaling_connected_once>>
    BY <1>2 DEF vars, driverVars, iceVars, mainVars, historyVars
  <2>2. Typed' /\ Fresh' /\ LiveOffer'
    BY <2>1 DEF Inv, Typed, Fresh, LiveOffer, OfferOut
  <2>3. Alive'
    BY <2>1 DEF Inv, Alive, Busy
  <2>4. OneClear(tasks', rearming')
    BY <2>1 DEF Inv
  <2>5. Budget'
    BY <2>1 DEF Inv, Budget, Redial
  <2> QED  BY <2>2, <2>3, <2>4, <2>5 DEF Inv
<1>3. CASE SignalingThread \/ StartNativeSession \/ OnConnected \/ ChannelDrops
           \/ GraceElapsed \/ Shutdown \/ OnGpuPermanentDeath \/ PostMainMessageLoopRun
           \/ EnvelopeArrives \/ PcObserves
  BY <1>3, SignalingThreadStep, StartNativeSessionStep, OnConnectedStep, ChannelDropsStep,
     GraceElapsedStep, ShutdownStep, OnGpuPermanentDeathStep, PostMainMessageLoopRunStep,
     EnvelopeArrivesStep, PcObservesStep
<1>4. CASE Exited
  BY <1>2, <1>4 DEF Exited
<1> QED  BY <1>1, <1>2, <1>3, <1>4 DEF Next

(* The inductive invariant holds throughout.                               *)
THEOREM Invariance == Spec => []Inv
<1>1. Init => Inv
  BY InitInv
<1>2. Inv /\ [Next]_vars => Inv'
  BY StepInv
<1> QED  BY <1>1, <1>2, PTL DEF Spec

(* A running worker is never mute: RearmOrShutdown, RearmSession and the   *)
(* Hop* handlers always leave the task, the hop or the call that takes the *)
(* session on.                                                             *)
THEOREM WorkerNeverMute == Spec => []NeverMute
<1>1. Inv => NeverMute
  <2> SUFFICES ASSUME Inv, life = "running" PROVE NeverMute
    BY DEF NeverMute
  <2>1. /\ state # "kFailed" /\ (state = "kClosed" => Effective(tasks, rearming))
        /\ (rearming => Clears(tasks)) /\ Busy
    BY DEF Inv, Alive
  <2>2. state = "kClosed" => RearmQueued
    BY <2>1 DEF Effective, RearmQueued, Rearms
  <2>3. rearming => \E i \in 1..Len(tasks) : tasks[i].what = "clear"
    BY <2>1 DEF Clears
  <2>4. \A q, w : Has(q, w, pc) => Queued(q, w)
    BY DEF Has, Queued
  <2>5. state = "kCreatingPc" /\ ~VideoMayFail =>
          Queued(sig, {"negotiationNeeded"}) \/ Queued(tasks, {"negotiationNeeded"})
    BY <2>1, <2>4, Tables DEF Busy, Waiting
  <2>6. state = "kCreatingOffer" =>
          \/ Queued(sig, {"createOffer"})
          \/ Queued(tasks, {"offerCreated", "createFailed"})
          \/ pending_local_offer = pc /\ ~ws_connected
    BY <2>1, <2>4, Tables DEF Busy, Waiting
  <2>7. state = "kSettingLocal" =>
          Queued(sig, {"setLocal"}) \/ Queued(tasks, {"localSet", "localFailed"})
    BY <2>1, <2>4, Tables DEF Busy, Waiting
  <2>8. state = "kSettingRemote" =>
          Queued(sig, {"setRemote"}) \/ Queued(tasks, {"remoteSet", "remoteFailed"})
    BY <2>1, <2>4, Tables DEF Busy, Waiting
  <2> QED  BY <2>1, <2>2, <2>3, <2>5, <2>6, <2>7, <2>8 DEF NeverMute
<1> QED  BY <1>1, Invariance, PTL

(* The offer on the wire is the current connection's, and nothing buffered *)
(* outlives its session: Rearm's resets and InvalidateWeakPtrs.            *)
THEOREM WorkerLiveOffer == Spec => []LiveOffer
<1>1. Inv => LiveOffer
  BY DEF Inv
<1> QED  BY <1>1, Invariance, PTL

(* A re-arm's own OnClosed never leads to another re-arm: every connection *)
(* after the first was paid for by an input (rearming_ and the order of    *)
(* RearmSession's posts).                                                  *)
THEOREM WorkerNoSelfRearm == Spec => []NoSelfRearm
<1>1. Inv => NoSelfRearm
  <2> SUFFICES ASSUME Inv PROVE pc <= 1 + events
    BY DEF NoSelfRearm
  <2> DEFINE a == Number(tasks, Causes)
             b == Number(sig, Causes)
             c == Rearmings(tasks)
             d == One(grace)
             e == One(Redial)
             z == One(pc = 0)
  <2>1. a \in Nat /\ b \in Nat /\ c \in Nat /\ pc \in Nat /\ events \in Nat
    BY Countable DEF Inv, Typed
  <2>2. d \in Nat /\ e \in Nat /\ z \in Nat
    BY DEF One
  <2>3. pc + z + a + b + c + d + e <= 1 + events
    BY DEF Inv, Budget
  <2> HIDE DEF a, b, c, d, e, z
  <2> QED  BY <2>1, <2>2, <2>3
<1> QED  BY <1>1, Invariance, PTL
====
