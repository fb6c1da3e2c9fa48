--------------------------- MODULE Discovery_proofs ---------------------------
(* Proofs about the registries and their discovery, for every set of       *)
(* firmware images, payload size and capacity.                             *)
(*                                                                         *)
(* The first part says what Total, the fold by which the walk over the     *)
(* groups and the length of a page are computed, returns; then what the    *)
(* walk finds (Located), what a page holds (PageEndIs, PageAdvances) and   *)
(* what the validation rules out (ClaimedOnce, ReachesOwn).  DiscoveryInv  *)
(* is inductive: a connection that is up has been up since the device at   *)
(* its other end was validated, the conversation on it is about that       *)
(* device's registry, and so are the indices learnt over it (Holding).     *)
EXTENDS Discovery, WellFoundedInduction, SequenceTheorems, FiniteSetTheorems, TLAPS

(* Induction over numbers and sequences, with a set for the property. *)

LEMMA NatLeast == 
  ASSUME NEW T \in SUBSET Nat, T # {}
  PROVE \E x \in T : \A y \in T : x <= y
<1>1. \E R : R = OpToRel(<,Nat) /\ \A x, y \in Nat : <<y,x>> \in R <=> y < x
  <2>1. \A x, y \in Nat : <<y,x>> \in OpToRel(<,Nat) <=> y < x
    BY DEF OpToRel
  <2> QED BY <2>1, Zenon
<1>2. PICK R : R = OpToRel(<,Nat) /\ \A x, y \in Nat : <<y,x>> \in R <=> y < x
  BY <1>1, Zenon
<1>3. IsWellFoundedOn(R, Nat)
  BY <1>2, NatLessThanWellFounded, Zenon
<1>4. \E x \in T : \A y \in T : ~ (<<y, x>> \in R)
  BY <1>3, WFMin
<1>5. \A x, y \in Nat : <<y,x>> \in R <=> y < x
  BY <1>2, Zenon
<1>6. PICK x \in T : \A y \in T : ~ (<<y, x>> \in R)
  BY <1>4
<1>7. \A y \in T : ~ (y < x)
  BY <1>5, <1>6
<1>8. \A y \in T : x <= y
  BY <1>7
<1> QED BY <1>8

LEMMA NatInd ==
  ASSUME NEW T, 0 \in T, \A n \in Nat : n \in T => n + 1 \in T
  PROVE  \A n \in Nat : n \in T
<1> SUFFICES ASSUME Nat \ T # {} PROVE FALSE
  OBVIOUS
<1>1. PICK x \in Nat \ T : \A y \in Nat \ T : x <= y
  BY NatLeast
<1>2. x # 0 /\ x - 1 \in Nat
  BY <1>1
<1>3. x - 1 \in T
  BY <1>1, <1>2
<1> QED BY <1>1, <1>2, <1>3

LEMMA SeqInd ==
  ASSUME NEW S, NEW T, <<>> \in T, \A s \in Seq(S), e \in S : s \in T => Append(s, e) \in T
  PROVE  \A s \in Seq(S) : s \in T
<1> DEFINE N == {n \in Nat : \A s \in Seq(S) : Len(s) = n => s \in T}
<1>1. 0 \in N
  OBVIOUS
<1>2. ASSUME NEW n \in Nat, n \in N PROVE n + 1 \in N
  <2> SUFFICES ASSUME NEW s \in Seq(S), Len(s) = n + 1 PROVE s \in T
    OBVIOUS
  <2>1. PICK r \in Seq(S), e \in S : s = Append(r, e)
    BY SequenceEmptyOrAppend
  <2>2. Len(r) = n
    BY <2>1
  <2> QED BY <2>1, <2>2, <1>2
<1> HIDE DEF N
<1>3. \A n \in Nat : n \in N
  BY <1>1, <1>2, NatInd
<1> QED BY <1>3 DEF N

(* The largest of some numbers up to n. *)
LEMMA MaxOf ==
  ASSUME NEW n \in Nat, NEW t \in SUBSET (1..n), t # {}
  PROVE  Max(t) \in t /\ \A y \in t : y <= Max(t)
<1> DEFINE R == {n - x : x \in t}
<1>1. R \in SUBSET Nat /\ R # {}
  OBVIOUS
<1> HIDE DEF R
<1>2. PICK r \in R : \A y \in R : r <= y
  BY <1>1, NatLeast
<1>3. PICK x \in t : r = n - x
  BY DEF R
<1>4. \A y \in t : n - y \in R
  BY DEF R
<1>5. \A y \in t : x >= y
  BY <1>2, <1>3, <1>4
<1>6. Max(t) \in t /\ \A y \in t : Max(t) >= y
  BY <1>5 DEF Max
<1> QED BY <1>6

(* Without its largest element a set of numbers up to n + 1 is one of      *)
(* numbers up to n.                                                        *)
LEMMA WithoutMax ==
  ASSUME NEW n \in Nat, NEW t \in SUBSET (1..(n + 1)), t # {}
  PROVE  Max(t) \in 1..(n + 1) /\ t \ {Max(t)} \in SUBSET (1..n)
<1>1. PICK m \in Nat : m = n + 1
  OBVIOUS
<1>2. t \in SUBSET (1..m)
  BY <1>1
<1>3. Max(t) \in t /\ \A y \in t : y <= Max(t)
  BY <1>2, MaxOf
<1>4. PICK x : x = Max(t)
  OBVIOUS
<1>5. x \in 1..(n + 1) /\ \A y \in t : y <= x /\ y \in 1..(n + 1)
  BY <1>3, <1>4
<1>6. \A y \in t : y # x => y \in 1..n
  BY <1>5
<1> QED BY <1>4, <1>5, <1>6

(* The function by which the fold over a sequence of lengths is defined.   *)
Iter(s, n, f) ==
  f = [t \in SUBSET (1..n) |-> IF t = {} THEN 0 ELSE f[t \ {Max(t)}] + s[Max(t)]]

LEMMA IterAt ==
  ASSUME NEW s, NEW n \in Nat, NEW f, Iter(s, n, f), NEW t \in SUBSET (1..n)
  PROVE  f[t] = IF t = {} THEN 0 ELSE f[t \ {Max(t)}] + s[Max(t)]
<1>1. \A h : f = [u \in SUBSET (1..n) |-> IF u = {} THEN 0 ELSE h[u \ {Max(u)}] + s[Max(u)]]
             => f[t] = IF t = {} THEN 0 ELSE h[t \ {Max(t)}] + s[Max(t)]
  OBVIOUS
<1>2. f = [u \in SUBSET (1..n) |-> IF u = {} THEN 0 ELSE f[u \ {Max(u)}] + s[Max(u)]]
  BY Zenon DEF Iter
<1> QED BY <1>1, <1>2, Zenon

LEMMA IterExists ==
  ASSUME NEW s, NEW n \in Nat
  PROVE  \E f : Iter(s, n, f)
<1> DEFINE N == {m \in Nat : \E f : Iter(s, m, f)}
<1>1. 0 \in N
  <2> DEFINE f == [t \in SUBSET (1..0) |-> 0]
  <2>1. \A h : f = [t \in SUBSET (1..0) |-> IF t = {} THEN 0 ELSE h[t \ {Max(t)}] + s[Max(t)]]
    OBVIOUS
  <2> HIDE DEF f
  <2>2. Iter(s, 0, f)
    BY <2>1, Zenon DEF Iter
  <2> QED BY <2>2
<1>2. ASSUME NEW m \in Nat, m \in N PROVE m + 1 \in N
  <2>1. PICK f : Iter(s, m, f)
    BY <1>2
  <2> DEFINE g == [t \in SUBSET (1..(m + 1)) |-> IF t = {} THEN 0 ELSE f[t \ {Max(t)}] + s[Max(t)]]
  <2>2. \A t \in SUBSET (1..m) : g[t] = f[t]
    <3>1. \A t \in SUBSET (1..m) : f[t] = IF t = {} THEN 0 ELSE f[t \ {Max(t)}] + s[Max(t)]
      BY <2>1, IterAt
    <3>2. \A t \in SUBSET (1..m) : t \in SUBSET (1..(m + 1))
      OBVIOUS
    <3> QED BY <3>1, <3>2
  <2>3. g = [t \in SUBSET (1..(m + 1)) |-> IF t = {} THEN 0 ELSE g[t \ {Max(t)}] + s[Max(t)]]
    <3>1. \A t \in SUBSET (1..(m + 1)) : t # {} => g[t \ {Max(t)}] = f[t \ {Max(t)}]
      <4> HIDE DEF g
      <4> QED BY <2>2, WithoutMax
    <3>2. \A h : (\A t \in SUBSET (1..(m + 1)) : t # {} => h[t \ {Max(t)}] = f[t \ {Max(t)}])
                 => g = [t \in SUBSET (1..(m + 1)) |->
                            IF t = {} THEN 0 ELSE h[t \ {Max(t)}] + s[Max(t)]]
      OBVIOUS
    <3> HIDE DEF g
    <3> QED BY <3>1, <3>2, Zenon
  <2> HIDE DEF g
  <2>4. Iter(s, m + 1, g)
    BY <2>3, Zenon DEF Iter
  <2> QED BY <2>4
<1> HIDE DEF N
<1>3. \A m \in Nat : m \in N
  BY <1>1, <1>2, NatInd
<1> QED BY <1>3 DEF N

Agree(s, r, n) == \A i \in 1..n : s[i] = r[i]

LEMMA IterAgree ==
  ASSUME NEW s, NEW r, NEW n \in Nat, NEW m \in Nat, n <= m, NEW f, NEW h,
         Iter(s, n, f), Iter(r, m, h), Agree(s, r, n)
  PROVE  \A t \in SUBSET (1..n) : f[t] = h[t]
<1> DEFINE P(k) == k <= n => \A t \in SUBSET (1..k) : f[t] = h[t]
           N == {k \in Nat : P(k)}
<1>1. \A k \in Nat : k <= n => \A t \in SUBSET (1..k) :
          /\ f[t] = IF t = {} THEN 0 ELSE f[t \ {Max(t)}] + s[Max(t)]
          /\ h[t] = IF t = {} THEN 0 ELSE h[t \ {Max(t)}] + r[Max(t)]
  <2> SUFFICES ASSUME NEW k \in Nat, k <= n, NEW t \in SUBSET (1..k)
               PROVE  /\ f[t] = IF t = {} THEN 0 ELSE f[t \ {Max(t)}] + s[Max(t)]
                      /\ h[t] = IF t = {} THEN 0 ELSE h[t \ {Max(t)}] + r[Max(t)]
    OBVIOUS
  <2>1. t \in SUBSET (1..m)
    OBVIOUS
  <2>4. t \in SUBSET (1..n)
    OBVIOUS
  <2>2. f[t] = IF t = {} THEN 0 ELSE f[t \ {Max(t)}] + s[Max(t)]
    <3>1. \A u \in SUBSET (1..n) : f[u] = IF u = {} THEN 0 ELSE f[u \ {Max(u)}] + s[Max(u)]
      BY IterAt
    <3> QED BY <2>4, <3>1
  <2>3. h[t] = IF t = {} THEN 0 ELSE h[t \ {Max(t)}] + r[Max(t)]
    <3>1. \A u \in SUBSET (1..m) : h[u] = IF u = {} THEN 0 ELSE h[u \ {Max(u)}] + r[Max(u)]
      BY IterAt
    <3> QED BY <2>1, <3>1
  <2> QED BY <2>2, <2>3
<1>2. 0 \in N
  <2>1. \A t \in SUBSET (1..0) : t = {}
    OBVIOUS
  <2> QED BY <1>1, <2>1
<1>3. ASSUME NEW k \in Nat, k \in N PROVE k + 1 \in N
  <2>0. k + 1 \in Nat
    OBVIOUS
  <2> SUFFICES ASSUME k + 1 <= n, NEW t \in SUBSET (1..(k + 1)) PROVE f[t] = h[t]
    BY <2>0
  <2>4. /\ f[t] = IF t = {} THEN 0 ELSE f[t \ {Max(t)}] + s[Max(t)]
        /\ h[t] = IF t = {} THEN 0 ELSE h[t \ {Max(t)}] + r[Max(t)]
    BY <1>1, <2>0
  <2>5. CASE t = {}
    BY <2>4, <2>5
  <2> SUFFICES ASSUME t # {} PROVE f[t] = h[t]
    BY <2>5
  <2>1. Max(t) \in 1..(k + 1) /\ t \ {Max(t)} \in SUBSET (1..k)
    BY WithoutMax
  <2>2. f[t \ {Max(t)}] = h[t \ {Max(t)}]
    BY <1>3, <2>1
  <2>3. s[Max(t)] = r[Max(t)]
    BY <2>1 DEF Agree
  <2> QED BY <2>2, <2>3, <2>4
<1> HIDE DEF N
<1>4. n \in N
  BY <1>2, <1>3, NatInd
<1> HIDE DEF P
<1>5. P(n)
  BY <1>4 DEF N
<1>6. n <= n
  OBVIOUS
<1> QED BY <1>5, <1>6, Zenon DEF P

LEMMA TotalIs ==
  ASSUME NEW s \in Seq(Nat)
  PROVE  \E f : Iter(s, Len(s), f) /\ Total(s) = f[1..Len(s)]
<1> DEFINE f == CHOOSE f : Iter(s, Len(s), f)
<1>1. Len(s) \in Nat /\ DOMAIN s = 1..Len(s)
  OBVIOUS
<1>2. Iter(s, Len(s), f)
  BY <1>1, IterExists
<1>3. Total(s) = f[1..Len(s)]
  BY <1>1 DEF Total, FoldLeft, MapThenFoldSet, Iter
<1> QED BY <1>2, <1>3

(* The total of no lengths, and of one more. *)
LEMMA TotalEmpty == Total(<<>>) = 0
<1>1. PICK f : Iter(<<>>, Len(<<>>), f) /\ Total(<<>>) = f[1..Len(<<>>)]
  BY TotalIs, EmptySeq
<1>2. Len(<<>>) = 0 /\ 1..0 = {}
  OBVIOUS
<1>3. f[{}] = 0
  BY <1>1, <1>2, IterAt
<1> QED BY <1>1, <1>2, <1>3

LEMMA TotalAppend ==
  ASSUME NEW s \in Seq(Nat), NEW x \in Nat
  PROVE  Total(Append(s, x)) = Total(s) + x
<1>1. PICK n \in Nat : n = Len(s)
  OBVIOUS
<1>2. PICK r : r = Append(s, x)
  OBVIOUS
<1>12. PICK m \in Nat : m = n + 1
  OBVIOUS
<1>3. r \in Seq(Nat) /\ Len(r) = m /\ r[m] = x /\ \A i \in 1..n : s[i] = r[i]
  BY <1>1, <1>2, <1>12
<1>4. PICK f : Iter(s, n, f) /\ Total(s) = f[1..n]
  BY <1>1, TotalIs
<1>5. PICK h : Iter(r, m, h) /\ Total(r) = h[1..m]
  BY <1>3, TotalIs
<1>6. f[1..n] = h[1..n]
  <2>1. n <= m /\ 1..n \in SUBSET (1..n)
    BY <1>12
  <2>2. \A u \in SUBSET (1..n) : f[u] = h[u]
    <3>1. Iter(s, n, f) /\ Iter(r, m, h) /\ n \in Nat /\ m \in Nat
      BY <1>4, <1>5
    <3>2. Agree(s, r, n) /\ n <= m
      BY <1>3, <2>1 DEF Agree
    <3> QED BY <3>1, <3>2, IterAgree
  <2> QED BY <2>1, <2>2
<1>7. PICK t : t = 1..m
  OBVIOUS
<1>8. t \in SUBSET (1..m) /\ t # {} /\ m \in t
  <2>1. m \in 1..m
    BY <1>12
  <2> QED BY <1>7, <2>1
<1>9. Max(t) = m
  <2>1. Max(t) \in t /\ \A y \in t : y <= Max(t)
    BY <1>8, MaxOf
  <2> QED BY <1>7, <1>8, <2>1
<1>10. t \ {Max(t)} = 1..n
  BY <1>7, <1>9, <1>12
<1>11. h[t] = h[t \ {Max(t)}] + r[Max(t)]
  <2>1. Iter(r, m, h)
    BY <1>5
  <2>2. h[t] = IF t = {} THEN 0 ELSE h[t \ {Max(t)}] + r[Max(t)]
    BY <1>8, <2>1, IterAt
  <2> QED BY <1>8, <2>2
<1> QED BY <1>2, <1>3, <1>4, <1>5, <1>6, <1>7, <1>9, <1>10, <1>11

LEMMA TotalType ==
  ASSUME NEW s \in Seq(Nat)
  PROVE  Total(s) \in Nat
<1> DEFINE T == {r \in Seq(Nat) : Total(r) \in Nat}
<1>1. <<>> \in T
  BY TotalEmpty
<1>2. \A r \in Seq(Nat), x \in Nat : r \in T => Append(r, x) \in T
  BY TotalAppend
<1> HIDE DEF T
<1>3. s \in T
  BY <1>1, <1>2, SeqInd
<1> QED BY <1>3 DEF T

----------------------------------------------------------------------------
(* The registry: what the walk over the groups finds. *)

Groups == [target : Nat \cup {Core0, ToRig}, params : Seq(Param)]
Lengths(n) == [k \in 1..n |-> Len(entries[k].params)]

LEMMA LengthsGrow ==
  ASSUME entries \in Seq(Groups), NEW n \in 0..Len(entries)
  PROVE  /\ Lengths(n) \in Seq(Nat)
         /\ n < Len(entries) => /\ Len(entries[n + 1].params) \in Nat
                                /\ Lengths(n + 1) = Append(Lengths(n), Len(entries[n + 1].params))
<1>1. \A k \in 1..Len(entries) : Len(entries[k].params) \in Nat
  BY DEF Groups
<1>2. \A k \in 1..n : Len(entries[k].params) \in Nat
  BY <1>1
<1>3. Lengths(n) \in Seq(Nat) /\ Len(Lengths(n)) = n
  BY <1>2 DEF Lengths
<1>4. ASSUME n < Len(entries)
      PROVE  Lengths(n + 1) = Append(Lengths(n), Len(entries[n + 1].params))
  <2>1. PICK x \in Nat : x = Len(entries[n + 1].params)
    BY <1>1, <1>4
  <2>2. PICK s \in Seq(Nat) : s = Lengths(n)
    BY <1>3
  <2>3. Len(s) = n /\ \A k \in 1..n : s[k] = Len(entries[k].params)
    BY <1>3, <2>2 DEF Lengths
  <2>4. PICK r : r = Append(s, x)
    OBVIOUS
  <2>5. r \in Seq(Nat) /\ Len(r) = n + 1 /\ r[n + 1] = x /\ \A k \in 1..n : r[k] = s[k]
    BY <2>3, <2>4
  <2>6. \A k \in 1..(n + 1) : Len(entries[k].params) = r[k]
    <3>1. \A k \in 1..(n + 1) : k = n + 1 \/ k \in 1..n
      OBVIOUS
    <3> QED BY <2>1, <2>3, <2>5, <3>1
  <2>7. r = [k \in 1..(n + 1) |-> r[k]]
    BY <2>5
  <2>8. Lengths(n + 1) = r
    BY <2>6, <2>7, Zenon DEF Lengths
  <2> QED BY <2>1, <2>2, <2>4, <2>8
<1> QED BY <1>1, <1>3, <1>4

LEMMA BaseFacts ==
  ASSUME entries \in Seq(Groups)
  PROVE  /\ Base(1) = 0 /\ Count \in Nat /\ Count = Base(Len(entries) + 1)
         /\ \A g \in 1..(Len(entries) + 1) : Base(g) \in Nat
         /\ \A g \in 1..Len(entries) : Base(g + 1) = Base(g) + Len(entries[g].params)
<1>1. Len(entries) \in Nat
  OBVIOUS
<1>2. \A g \in 1..(Len(entries) + 1) : Base(g) = Total(Lengths(g - 1))
  BY DEF Base, Lengths
<1>3. \A g \in 1..(Len(entries) + 1) : Base(g) \in Nat
  <2> SUFFICES ASSUME NEW g \in 1..(Len(entries) + 1) PROVE Base(g) \in Nat
    OBVIOUS
  <2>1. g - 1 \in 0..Len(entries)
    OBVIOUS
  <2>2. Lengths(g - 1) \in Seq(Nat)
    BY <2>1, LengthsGrow
  <2> QED BY <1>2, <2>2, TotalType
<1>4. Base(1) = 0
  <2>1. Lengths(0) = <<>>
    BY DEF Lengths
  <2>2. Base(1) = Total(Lengths(0))
    BY <1>1, <1>2
  <2> QED BY <2>1, <2>2, TotalEmpty
<1>5. ASSUME NEW g \in 1..Len(entries) PROVE Base(g + 1) = Base(g) + Len(entries[g].params)
  <2>1. PICK n \in 0..Len(entries) : n = g - 1 /\ n < Len(entries) /\ n + 1 = g
    BY <1>5
  <2>2. /\ Lengths(n) \in Seq(Nat) /\ Len(entries[g].params) \in Nat
        /\ Lengths(g) = Append(Lengths(n), Len(entries[g].params))
    BY <2>1, LengthsGrow
  <2>3. Total(Lengths(g)) = Total(Lengths(n)) + Len(entries[g].params)
    BY <2>2, TotalAppend
  <2>4. Base(g) = Total(Lengths(n))
    BY <1>2, <2>1
  <2>5. Base(g + 1) = Total(Lengths(g))
    <3>1. g + 1 \in 1..(Len(entries) + 1) /\ (g + 1) - 1 = g
      OBVIOUS
    <3> QED BY <1>2, <3>1
  <2> QED BY <2>3, <2>4, <2>5
<1>6. Count = Base(Len(entries) + 1) /\ Len(entries) + 1 \in 1..(Len(entries) + 1)
  BY <1>1 DEF Count
<1> QED BY <1>3, <1>4, <1>5, <1>6

(* Every index below the count lies in a group, and within it. *)
LEMMA Located ==
  ASSUME entries \in Seq(Groups), NEW index \in Nat, index < Count
  PROVE  /\ Group(index) \in DOMAIN entries
         /\ Base(Group(index)) \in Nat /\ LocalId(index) \in Nat
         /\ index = Base(Group(index)) + LocalId(index)
         /\ LocalId(index) < Len(entries[Group(index)].params)
         /\ Definition(index) \in Param
<1> DEFINE T == {g \in 1..(Len(entries) + 1) : Base(g) > index}
<1>1. Len(entries) \in Nat /\ DOMAIN entries = 1..Len(entries)
  OBVIOUS
<1>2. T \in SUBSET Nat /\ Len(entries) + 1 \in T
  BY <1>1, BaseFacts
<1> HIDE DEF T
<1>3. PICK x \in T : \A y \in T : x <= y
  BY <1>2, NatLeast
<1>4. x \in 1..(Len(entries) + 1) /\ Base(x) > index
  BY DEF T
<1>5. x # 1
  BY <1>4, BaseFacts
<1>6. PICK h : h = x - 1
  OBVIOUS
<1>7. h \in 1..Len(entries) /\ h + 1 = x /\ h < x
  BY <1>1, <1>4, <1>5, <1>6
<1>8. h \notin T /\ h \in 1..(Len(entries) + 1)
  BY <1>1, <1>2, <1>3, <1>4, <1>7
<1>9. Base(h) <= index /\ Base(h) \in Nat
  BY <1>8, BaseFacts DEF T
<1>10. \E g \in DOMAIN entries : index >= Base(g) /\ index < Base(g + 1)
  BY <1>1, <1>4, <1>7, <1>9
<1>11. PICK g : g = Group(index)
  OBVIOUS
<1>12. g \in DOMAIN entries /\ index >= Base(g) /\ index < Base(g + 1)
  BY <1>10, <1>11 DEF Group
<1>13. Base(g) \in Nat /\ Base(g + 1) = Base(g) + Len(entries[g].params)
  BY <1>1, <1>12, BaseFacts
<1>14. entries[g].params \in Seq(Param) /\ Len(entries[g].params) \in Nat
  <2>1. entries[g] \in Groups
    BY <1>1, <1>12
  <2> QED BY <2>1 DEF Groups
<1>15. PICK l : l = LocalId(index)
  OBVIOUS
<1>16. l = index - Base(g)
  BY <1>11, <1>15 DEF LocalId
<1>17. l \in Nat /\ index = Base(g) + l /\ l < Len(entries[g].params) /\ l + 1 \in 1..Len(entries[g].params)
  <2>1. PICK b \in Nat : b = Base(g)
    BY <1>13
  <2>2. PICK m \in Nat : m = Len(entries[g].params)
    BY <1>14
  <2>3. index >= b /\ index < b + m /\ l = index - b
    BY <1>12, <1>13, <1>16, <2>1, <2>2
  <2>4. l \in Nat /\ index = b + l /\ l < m /\ l + 1 \in 1..m
    BY <2>3
  <2> QED BY <2>1, <2>2, <2>4
<1>18. Definition(index) \in Param
  BY <1>11, <1>14, <1>15, <1>17 DEF Definition
<1> QED BY <1>11, <1>12, <1>13, <1>15, <1>17, <1>18

----------------------------------------------------------------------------
(* Pages *)

LEMMA PageLenType ==
  ASSUME entries \in Seq(Groups), NEW start \in Nat, NEW next \in Nat, start <= next, next <= Count
  PROVE  PageLen(start, next) \in Nat
<1> DEFINE f == [k \in 1..(next - start) |-> EncodedLen(Definition(start + k - 1))]
<1>1. \A def \in Param : EncodedLen(def) \in Nat
  BY DiscoveryAssumption DEF Param, EncodedLen
<1>2. \A k \in 1..(next - start) : start + k - 1 \in Nat /\ start + k - 1 < next
  OBVIOUS
<1>3. \A k \in 1..(next - start) : start + k - 1 < Count
  BY <1>2, BaseFacts
<1>4. \A k \in 1..(next - start) : Definition(start + k - 1) \in Param
  BY <1>2, <1>3, Located
<1>5. \A k \in 1..(next - start) : EncodedLen(Definition(start + k - 1)) \in Nat
  BY <1>1, <1>4
<1>6. next - start \in Nat
  OBVIOUS
<1>7. f \in Seq(Nat)
  BY <1>5, <1>6, IsASeq
<1> HIDE DEF f
<1>8. Total(f) \in Nat
  BY <1>7, TotalType
<1>9. PageLen(start, next) = 4 + Total(f)
  BY DEF PageLen, PARAM_PAGE_HEADER_LEN, f
<1> QED BY <1>8, <1>9

LEMMA PageEndIs ==
  ASSUME entries \in Seq(Groups), NEW start \in Nat, start <= Count
  PROVE  /\ PageEnd(start) \in start..Count
         /\ PageEnd(start) = Count \/ PageLen(start, PageEnd(start) + 1) > MaxPayload
<1> DEFINE T == {next \in Nat : start < next /\ next <= Count /\ PageLen(start, next) > MaxPayload}
<1>1. Count \in Nat /\ MaxPayload \in Nat
  BY BaseFacts, DiscoveryAssumption
<1>2. \A next \in Nat : start < next /\ next <= Count /\ next \notin T => PageLen(start, next) <= MaxPayload
  BY <1>1, PageLenType
<1>3. \A next \in T : next \in Nat /\ start < next /\ next <= Count /\ PageLen(start, next) > MaxPayload
  OBVIOUS
<1> HIDE DEF T
<1>4. \E next \in start..Count :
        /\ next = start \/ PageLen(start, next) <= MaxPayload
        /\ next = Count \/ PageLen(start, next + 1) > MaxPayload
  <2>1. CASE T = {}
    <3>1. Count \in start..Count
      BY <1>1
    <3>2. Count = start \/ PageLen(start, Count) <= MaxPayload
      BY <1>1, <1>2, <2>1
    <3> QED BY <3>1, <3>2
  <2>2. CASE T # {}
    <3>1. PICK x \in T : \A y \in T : x <= y
      BY <1>3, <2>2, NatLeast
    <3>2. PICK p : p = x - 1
      OBVIOUS
    <3>3. p \in Nat /\ p + 1 = x /\ start <= p /\ p < Count /\ p < x
      BY <1>1, <1>3, <3>2
    <3>4. p \notin T
      BY <1>3, <3>1, <3>3
    <3>5. p = start \/ PageLen(start, p) <= MaxPayload
      BY <1>1, <1>2, <3>3, <3>4
    <3>6. PageLen(start, p + 1) > MaxPayload
      BY <1>3, <3>3
    <3>7. p \in start..Count
      BY <1>1, <3>3
    <3> QED BY <3>5, <3>6, <3>7
  <2> QED BY <2>1, <2>2
<1> QED BY <1>4 DEF PageEnd

(* A definition that passed FitsPage has a page: the discovery advances.   *)
LEMMA PageAdvances ==
  ASSUME entries \in Seq(Groups), NEW start \in Nat, start < Count, FitsPage(Definition(start))
  PROVE  PageEnd(start) > start
<1>1. Count \in Nat
  BY BaseFacts
<1>2. PICK e : e = PageEnd(start)
  OBVIOUS
<1>3. e \in start..Count /\ (e = Count \/ PageLen(start, e + 1) > MaxPayload)
  BY <1>1, <1>2, PageEndIs
<1> SUFFICES ASSUME e = start PROVE FALSE
  BY <1>1, <1>2, <1>3
<1>4. PageLen(start, start + 1) > MaxPayload
  BY <1>1, <1>3
<1>5. PICK l : l = EncodedLen(Definition(start))
  OBVIOUS
<1>6. l \in Nat /\ l <= MaxPayload - 4
  <2>1. Definition(start) \in Param
    BY Located
  <2> QED BY <1>5, <2>1, DiscoveryAssumption DEF FitsPage, EncodedLen, Param, PARAM_PAGE_HEADER_LEN
<1>7. PageLen(start, start + 1) = 4 + l
  <2> DEFINE f == [k \in 1..((start + 1) - start) |-> EncodedLen(Definition(start + k - 1))]
  <2>1. (start + 1) - start = 1 /\ start + 1 - 1 = start
    OBVIOUS
  <2>2. f = [k \in 1..1 |-> l]
    BY <1>5, <2>1
  <2>3. f = Append(<<>>, l)
    BY <2>2
  <2>4. PageLen(start, start + 1) = 4 + Total(f)
    BY DEF PageLen, PARAM_PAGE_HEADER_LEN
  <2> HIDE DEF f
  <2>5. Total(f) = 0 + l
    BY <1>6, <2>3, TotalAppend, TotalEmpty, EmptySeq
  <2> QED BY <1>6, <2>4, <2>5
<1> QED BY <1>4, <1>6, <1>7, DiscoveryAssumption

----------------------------------------------------------------------------
(* What the validation lets through *)

Valid ==
  /\ Count <= MAX_U16
  /\ \A i \in 0..(Count - 1) : FitsPage(Definition(i))
  /\ NamesUnique
  /\ DomainsClaimedOnce(firmware.domains) /\ DomainsKnown(firmware.domains)
  /\ Cardinality(Claims(ToRig)) <= 1
  /\ ValidSources

LEMMA ClaimedOnce ==
  ASSUME entries \in Seq(Groups), Valid, NEW g \in DOMAIN entries, NEW h \in DOMAIN entries,
         entries[g].target # Core0, entries[h].target # Core0,
         Domain(entries[g].target) = Domain(entries[h].target)
  PROVE  g = h
<1>1. \A d : IsFiniteSet(Claims(d)) /\ Cardinality(Claims(d)) \in Nat
  <2>1. Len(entries) \in Nat /\ DOMAIN entries = 1..Len(entries)
    OBVIOUS
  <2>2. IsFiniteSet(1..Len(entries))
    BY <2>1, FS_Interval
  <2>3. \A d : Claims(d) \in SUBSET (1..Len(entries))
    BY <2>1 DEF Claims
  <2>4. \A d : IsFiniteSet(Claims(d))
    BY <2>2, <2>3, FS_Subset
  <2> QED BY <2>4, FS_CardinalityType
<1>2. \A d : Cardinality(Claims(d)) <= 1 => \A x, y \in Claims(d) : x = y
  <2> SUFFICES ASSUME NEW d, Cardinality(Claims(d)) <= 1 PROVE \A x, y \in Claims(d) : x = y
    OBVIOUS
  <2>1. Cardinality(Claims(d)) = 0 \/ Cardinality(Claims(d)) = 1
    BY <1>1
  <2>2. CASE Cardinality(Claims(d)) = 0
    BY <1>1, <2>2, FS_EmptySet
  <2>3. CASE Cardinality(Claims(d)) = 1
    <3>1. PICK z : Claims(d) = {z}
      BY <1>1, <2>3, FS_Singleton
    <3> QED BY <3>1
  <2> QED BY <2>1, <2>2, <2>3
<1>3. PICK t : t = entries[g].target
  OBVIOUS
<1>4. PICK u : u = entries[h].target
  OBVIOUS
<1>5. /\ t \in Range(firmware.domains) \cup {ToRig} /\ u \in Range(firmware.domains) \cup {ToRig}
      /\ DOMAIN_RIG \notin Range(firmware.domains)
      /\ \A d \in Range(firmware.domains) : Cardinality(Claims(d)) <= 1
      /\ Cardinality(Claims(ToRig)) <= 1
  <2>1. t # Core0 /\ u # Core0
    BY <1>3, <1>4
  <2>2. t \in Range(firmware.domains) \cup {Core0, ToRig} /\ u \in Range(firmware.domains) \cup {Core0, ToRig}
    BY <1>3, <1>4 DEF Valid, DomainsKnown
  <2> QED BY <2>1, <2>2 DEF Valid, DomainsClaimedOnce
<1>6. t = u
  BY <1>3, <1>4, <1>5 DEF Domain
<1>7. g \in Claims(t) /\ h \in Claims(t)
  BY <1>3, <1>4, <1>6 DEF Claims
<1> QED BY <1>2, <1>5, <1>7

(* A write to an index of a valid registry reaches the parameter of that   *)
(* index and no other.                                                     *)
LEMMA ReachesOwn ==
  ASSUME entries \in Seq(Groups), Valid, NEW index \in Nat, index < Count
  PROVE  Reached(index) = {Definition(index).name}
<1>1. CASE entries[Group(index)].target = Core0
  BY <1>1 DEF Reached
<1>2. CASE entries[Group(index)].target # Core0
  <2>1. ASSUME NEW i \in 0..(Count - 1), entries[Group(i)].target # Core0,
               Domain(entries[Group(i)].target) = Domain(entries[Group(index)].target),
               LocalId(i) = LocalId(index)
        PROVE  i = index
    <3>1. i \in Nat /\ i < Count
      BY BaseFacts
    <3>2. /\ Group(i) \in DOMAIN entries /\ Group(index) \in DOMAIN entries
          /\ i = Base(Group(i)) + LocalId(i) /\ index = Base(Group(index)) + LocalId(index)
      BY <3>1, Located
    <3>3. Group(i) = Group(index)
      BY <1>2, <2>1, <3>2, ClaimedOnce
    <3> QED BY <2>1, <3>2, <3>3
  <2>2. index \in 0..(Count - 1)
    BY BaseFacts
  <2>3. {i \in 0..(Count - 1) :
           /\ entries[Group(i)].target # Core0
           /\ Domain(entries[Group(i)].target) = Domain(entries[Group(index)].target)
           /\ LocalId(i) = LocalId(index)} = {index}
    BY <1>2, <2>1, <2>2
  <2> QED BY <1>2, <2>3 DEF Reached
<1> QED BY <1>1, <1>2

----------------------------------------------------------------------------
(* The inductive invariant.  While the connection is up the device at its  *)
(* other end has not changed, and the conversation on it, what the broker  *)
(* knows and the request or reply on the wire, is about that registry.     *)

Ask(ask, arg, wanted) == [type |-> "request", ask |-> ask, arg |-> arg, wanted |-> wanted]
Item == [index : Nat, name : Names, ty : STRING, count : Nat]
Learnt == [count : Nat, n_sources : Nat, start : Nat, params : Seq(Item),
           sources : Seq(Names), identity : Seq(Compositions \X Names)]

Entry(i) == [index |-> i, name |-> Definition(i).name, ty |-> Definition(i).ty,
             count |-> Definition(i).count]
Counted(k) ==
  /\ k.count = Count
  /\ \A i \in 1..Len(k.params) : k.params[i] = Entry(i - 1)
ReadsBack(w, name) ==
  \E i \in 0..(Count - 1) : Definition(i).name = name /\ w \in {Ask("GetPar", i, ""), GetPar(i)}
Writes(w) == \E i, name : w \in {Ask("SetPar", i, name), SetPar(i)}
Named(w) == \E i \in 0..(Count - 1) : w = Ask("SetPar", i, Definition(i).name)

Conversation(p, k, w) ==
  /\ p = "status" => w \in {Ask("Status", 0, ""), Status}
  /\ p # "status" => Counted(k)
  /\ p = "params" => k.start < Count /\ w \in {Ask("GetParams", k.start, ""), GetParams(k.start)}
  /\ p \notin {"status", "params"} => k.start = Count
  /\ p = "sources" => w \in {Ask("GetSources", 0, ""), GetSources}
  /\ p \notin {"status", "params"} => k.n_sources = Len(firmware.sources) % 256
  /\ p = "params" => k.n_sources = Len(firmware.sources) % 256
  /\ p \in {"experiment", "firmware", "ready", "write"} => k.sources = firmware.sources
  /\ p = "experiment" => ReadsBack(w, "experiment")
  /\ p = "firmware" => k.identity = <<Value("experiment")>> /\ ReadsBack(w, "firmware")
  /\ p \in {"ready", "write"} => k.identity = <<Value("experiment"), Value("firmware")>>
  /\ p = "ready" => w = None
  /\ p = "write" => Writes(w)

Registry ==
  /\ firmware \in Compositions /\ entries \in Seq(Groups) /\ Len(entries) <= MaxGroups
  /\ mode \in {"booting", "panicked", "serving"}
  /\ mode = "serving" => Valid
Knowledge ==
  /\ known \in Learnt /\ known.start <= known.count /\ Len(known.params) = known.start
  /\ pc \in {"connect", "status", "params", "sources", "experiment", "firmware", "ready", "write"}
  /\ pc \in {"connect", "status"} => known = Nothing
Connection ==
  /\ link \in {"up", "down"} /\ (pc = "connect" => link = "down")
  /\ link = "up" => mode = "serving" /\ Conversation(pc, known, wire)

Holding ==
  /\ held \in [params : Seq(Item), current : BOOLEAN]
  /\ held.current => pc \in {"ready", "write"} /\ held.params = known.params
  /\ held.current /\ link = "up" /\ pc = "write" /\ wire.type = "request" => Named(wire)

DiscoveryInv == Registry /\ Knowledge /\ Connection /\ Holding /\ WriteReaches /\ calm \in BOOLEAN

LEMMA RegistryKept ==
  ASSUME entries' = entries, firmware' = firmware
  PROVE  /\ Count' = Count /\ Status' = Status /\ GetSources' = GetSources
         /\ \A i : /\ Definition(i)' = Definition(i) /\ Value(i)' = Value(i)
                   /\ GetParams(i)' = GetParams(i) /\ GetPar(i)' = GetPar(i)
                   /\ SetPar(i)' = SetPar(i)
<1>0. entries' = entries /\ firmware' = firmware
  OBVIOUS
<1>1. \A g : Base(g)' = Base(g)
  BY <1>0 DEF Base
<1>2. Count' = Count
  BY <1>0 DEF Base, Count
<1>3. \A i : Definition(i)' = Definition(i)
  BY <1>0 DEF Definition, Group, LocalId, Base
<1>4. \A i : PageEnd(i)' = PageEnd(i)
  BY <1>0 DEF PageEnd, PageLen, Definition, Group, LocalId, Base, Count, EncodedLen
<1>5. \A i : GetParams(i)' = GetParams(i)
  BY <1>2, <1>3, <1>4 DEF GetParams, Error
<1>6. Status' = Status /\ GetSources' = GetSources
  BY <1>0, <1>2 DEF Status, GetSources, Error, SourcesLen
<1>7. \A i : Value(i)' = Value(i)
  BY <1>0 DEF Value
<1>8. \A i : GetPar(i)' = GetPar(i)
  BY <1>2, <1>3, <1>7 DEF GetPar, Error
<1>9. \A i : SetPar(i)' = SetPar(i)
  BY <1>2, <1>3 DEF SetPar, Refused, Error
<1> QED BY <1>2, <1>3, <1>5, <1>6, <1>7, <1>8, <1>9

LEMMA ValidKept ==
  ASSUME entries' = entries, firmware' = firmware, Valid
  PROVE  Valid'
<1>0. entries' = entries /\ firmware' = firmware
  OBVIOUS
<1>1. Count' = Count /\ \A i : Definition(i)' = Definition(i)
  BY RegistryKept
<1>2. (\A i \in 0..(Count - 1) : FitsPage(Definition(i)))'
  BY <1>1 DEF Valid, FitsPage, EncodedLen
<1>3. NamesUnique'
  BY <1>1 DEF Valid, NamesUnique
<1>4. \A d : Claims(d)' = Claims(d)
  BY <1>0 DEF Claims
<1>5. (DomainsClaimedOnce(firmware.domains) /\ DomainsKnown(firmware.domains))'
  BY <1>0, <1>4 DEF Valid, DomainsClaimedOnce, DomainsKnown
<1>6. (Cardinality(Claims(ToRig)) <= 1)'
  BY <1>4 DEF Valid
<1>7. ValidSources'
  BY <1>0 DEF Valid, ValidSources, SourcesLen
<1>8. (Count <= MAX_U16)'
  BY <1>1 DEF Valid, MAX_U16
<1> QED BY <1>2, <1>3, <1>5, <1>6, <1>7, <1>8 DEF Valid

LEMMA ConversationKept ==
  ASSUME UNCHANGED device, Conversation(pc', known', wire')
  PROVE  Conversation(pc, known, wire)'
<1>0. entries' = entries /\ firmware' = firmware
  BY DEF device
<1>1. \A k : Counted(k) => Counted(k)'
  BY <1>0, RegistryKept DEF Counted, Entry
<1>2. \A w, name : ReadsBack(w, name) => ReadsBack(w, name)'
  BY <1>0, RegistryKept DEF ReadsBack
<1>3. \A w : Writes(w) => Writes(w)'
  BY <1>0, RegistryKept DEF Writes
<1>4. (pc # "status" => Counted(known))'
  <2>1. pc' # "status" => Counted(known')
    BY DEF Conversation
  <2> QED BY <1>1, <2>1
<1>5. /\ (pc = "experiment" => ReadsBack(wire, "experiment"))'
      /\ (pc = "firmware" => ReadsBack(wire, "firmware"))'
      /\ (pc = "write" => Writes(wire))'
  <2>1. /\ pc' = "experiment" => ReadsBack(wire', "experiment")
        /\ pc' = "firmware" => ReadsBack(wire', "firmware")
        /\ pc' = "write" => Writes(wire')
    BY DEF Conversation
  <2> QED BY <1>2, <1>3, <2>1
<1>6. /\ (pc = "status" => wire \in {Ask("Status", 0, ""), Status})'
      /\ (pc = "sources" => wire \in {Ask("GetSources", 0, ""), GetSources})'
      /\ (pc = "params" => known.start < Count
                           /\ wire \in {Ask("GetParams", known.start, ""), GetParams(known.start)})'
  <2>1. /\ pc' = "status" => wire' \in {Ask("Status", 0, ""), Status}
        /\ pc' = "sources" => wire' \in {Ask("GetSources", 0, ""), GetSources}
        /\ pc' = "params" => known'.start < Count
                             /\ wire' \in {Ask("GetParams", known'.start, ""), GetParams(known'.start)}
    BY DEF Conversation
  <2> QED BY <2>1, <1>0, RegistryKept DEF Ask
<1>7. /\ (pc \notin {"status", "params"} => known.start = Count)'
      /\ (pc \notin {"status", "params"} => known.n_sources = Len(firmware.sources) % 256)'
      /\ (pc = "params" => known.n_sources = Len(firmware.sources) % 256)'
      /\ (pc \in {"experiment", "firmware", "ready", "write"} => known.sources = firmware.sources)'
      /\ (pc = "firmware" => known.identity = <<Value("experiment")>>)'
      /\ (pc \in {"ready", "write"} => known.identity = <<Value("experiment"), Value("firmware")>>)'
      /\ (pc = "ready" => wire = None)'
  BY <1>0, RegistryKept DEF Conversation, None
<1> QED BY <1>4, <1>5, <1>6, <1>7 DEF Conversation

----------------------------------------------------------------------------
(* One lemma per action *)

LEMMA NothingTyped == Nothing \in Learnt /\ Nothing.start = 0 /\ Nothing.count = 0 /\ Nothing.params = <<>>
<1>1. \A S : <<>> \in Seq(S)
  BY EmptySeq
<1> QED BY <1>1 DEF Nothing, Learnt

LEMMA RegistryStays ==
  ASSUME Registry, UNCHANGED device
  PROVE  Registry'
<1>1. entries' = entries /\ firmware' = firmware /\ mode' = mode
  BY DEF device
<1>2. Valid => Valid'
  BY <1>1, ValidKept
<1> QED BY <1>1, <1>2 DEF Registry

(* Nobody holds an index of a connection still being discovered. *)
LEMMA NotHeld ==
  ASSUME DiscoveryInv, UNCHANGED held, pc \notin {"ready", "write"}
  PROVE  Holding'
<1>1. held \in [params : Seq(Item), current : BOOLEAN] /\ ~held.current
  BY DEF DiscoveryInv, Holding
<1> QED BY <1>1 DEF Holding

(* The broker drops the connection. *)
LEMMA Dropped ==
  ASSUME DiscoveryInv, UNCHANGED <<device, calm>>, Drop
  PROVE  DiscoveryInv'
<1>1. Registry'
  BY RegistryStays DEF DiscoveryInv
<1>2. known' = Nothing /\ pc' = "connect" /\ link' = "down" /\ routed' = None
  BY DEF Drop
<1>3. Knowledge'
  <2>1. Len(<<>>) = 0
    OBVIOUS
  <2> QED BY <1>2, <2>1, NothingTyped DEF Knowledge
<1>4. Connection'
  BY <1>2 DEF Connection
<1>5. WriteReaches' /\ (calm \in BOOLEAN)'
  BY <1>2 DEF WriteReaches, None, DiscoveryInv
<1>6. Holding'
  <2>1. held \in [params : Seq(Item), current : BOOLEAN]
    BY DEF DiscoveryInv, Holding
  <2>2. held' = [held EXCEPT !.current = FALSE]
    BY DEF Drop
  <2>3. held' \in [params : Seq(Item), current : BOOLEAN] /\ ~held'.current
    BY <2>1, <2>2
  <2> QED BY <2>3 DEF Holding
<1> QED BY <1>1, <1>3, <1>4, <1>5, <1>6 DEF DiscoveryInv

(* The connection is lost and the broker has yet to notice. *)
LEMMA Lost ==
  ASSUME DiscoveryInv, UNCHANGED <<pc, known, held, calm>>, link' = "down", routed' = None \/ routed' = routed,
         Registry'
  PROVE  DiscoveryInv'
<1>1. Knowledge'
  BY DEF DiscoveryInv, Knowledge
<1>2. Connection'
  BY DEF Connection
<1>3. WriteReaches' /\ (calm \in BOOLEAN)'
  BY DEF WriteReaches, None, DiscoveryInv
<1>4. Holding'
  <2>1. held' \in [params : Seq(Item), current : BOOLEAN]
    BY DEF DiscoveryInv, Holding
  <2>2. held'.current => pc' \in {"ready", "write"} /\ held'.params = known'.params
    BY DEF DiscoveryInv, Holding
  <2> QED BY <2>1, <2>2 DEF Holding
<1> QED BY <1>1, <1>2, <1>3, <1>4 DEF DiscoveryInv

(* The conversation goes on. *)
LEMMA GoesOn ==
  ASSUME DiscoveryInv, UNCHANGED <<device, calm>>, mode = "serving", link' = "up", pc' # "connect",
         Knowledge', Conversation(pc', known', wire'), Holding', WriteReaches'
  PROVE  DiscoveryInv'
<1>1. Registry'
  BY RegistryStays DEF DiscoveryInv
<1>2. Conversation(pc, known, wire)'
  BY ConversationKept
<1>3. mode' = "serving"
  BY DEF device
<1>4. Connection'
  BY <1>2, <1>3 DEF Connection
<1> QED BY <1>1, <1>4 DEF DiscoveryInv

LEMMA PushKeeps ==
  ASSUME DiscoveryInv, Push
  PROVE  DiscoveryInv'
<1>1. link' = "down"
  BY DEF DiscoveryInv, Connection, Push
<1>2. firmware' = firmware /\ mode' \in {"booting", "panicked"} /\ UNCHANGED <<pc, known, held, calm, routed>>
  BY DEF Push
<1>3. entries' \in Seq(Groups) /\ Len(entries') <= MaxGroups
  <2>1. entries \in Seq(Groups) /\ Len(entries) <= MaxGroups /\ firmware.groups \in Seq(Groups)
    BY DiscoveryAssumption DEF DiscoveryInv, Registry, Groups
  <2>2. CASE entries' = entries
    BY <2>1, <2>2
  <2>3. CASE Len(entries) < MaxGroups /\ entries' = Append(entries, firmware.groups[Len(entries) + 1])
    <3>1. Len(entries) + 1 \in 1..Len(firmware.groups)
      BY <2>1 DEF Push
    <3>2. PICK g \in Groups : g = firmware.groups[Len(entries) + 1]
      BY <2>1, <3>1
    <3> QED BY <2>1, <2>3, <3>2, DiscoveryAssumption
  <2> QED BY <2>2, <2>3 DEF Push
<1>4. Registry'
  BY <1>2, <1>3 DEF Registry, DiscoveryInv
<1> QED BY <1>1, <1>2, <1>4, Lost

LEMMA ValidateKeeps ==
  ASSUME DiscoveryInv, Validate
  PROVE  DiscoveryInv'
<1>1. link' = "down"
  BY DEF DiscoveryInv, Connection, Validate
<1>2. entries' = entries /\ firmware' = firmware /\ UNCHANGED <<pc, known, held, calm, routed>>
  BY DEF Validate
<1>3. mode' = IF Valid THEN "serving" ELSE "panicked"
  BY DEF Validate, Valid
<1>4. Valid => Valid'
  BY <1>2, ValidKept
<1>5. Registry'
  BY <1>2, <1>3, <1>4 DEF Registry, DiscoveryInv
<1> QED BY <1>1, <1>2, <1>5, Lost

LEMMA ConnectKeeps ==
  ASSUME DiscoveryInv, Connect
  PROVE  DiscoveryInv'
<1>1. /\ pc' = "status" /\ link' = "up" /\ wire' = Ask("Status", 0, "") /\ mode = "serving" /\ pc = "connect"
      /\ UNCHANGED <<device, known, held, routed, calm>>
  BY DEF Connect, Request, Ask
<1>2. Knowledge'
  BY <1>1 DEF DiscoveryInv, Knowledge
<1>3. Conversation(pc', known', wire')
  BY <1>1 DEF Conversation
<1>4. WriteReaches'
  BY <1>1 DEF DiscoveryInv, WriteReaches
<1>5. Holding'
  BY <1>1, NotHeld
<1> QED BY <1>1, <1>2, <1>3, <1>4, <1>5, GoesOn

(* What holds while a reply is awaited or read. *)
LEMMA Talking ==
  ASSUME DiscoveryInv, link = "up"
  PROVE  /\ mode = "serving" /\ Conversation(pc, known, wire) /\ entries \in Seq(Groups) /\ Valid
         /\ Count \in Nat /\ known \in Learnt /\ known.start <= known.count
         /\ Len(known.params) = known.start /\ pc # "connect"
<1>1. entries \in Seq(Groups)
  BY DEF DiscoveryInv, Registry
<1>2. Count \in Nat
  BY <1>1, BaseFacts
<1> QED BY <1>1, <1>2 DEF DiscoveryInv, Registry, Knowledge, Connection

(* The replies are not requests. *)
LEMMA ReplyTypes ==
  /\ Status.type = "Status" /\ Error.type = "Error" /\ None.type = "none"
  /\ GetSources = Error \/ GetSources = [type |-> "GetSources", sources |-> firmware.sources]
  /\ \A i : /\ GetPar(i) = Error \/ GetPar(i) = [type |-> "GetPar", value |-> Value(Definition(i).name)]
            /\ SetPar(i) = Error \/ SetPar(i) = [type |-> "SetPar"]
            /\ GetParams(i) = Error \/ GetParams(i).type = "GetParams"
            /\ Ask(i, i, i).type = "request"
BY DEF Status, Error, None, GetSources, GetPar, SetPar, GetParams, Ask

LEMMA AskIs ==
  ASSUME NEW ask, NEW arg, NEW wanted
  PROVE  /\ Ask(ask, arg, wanted).type = "request" /\ Ask(ask, arg, wanted).ask = ask
         /\ Ask(ask, arg, wanted).arg = arg /\ Ask(ask, arg, wanted).wanted = wanted
BY DEF Ask

LEMMA NotAsked ==
  ASSUME NEW w, NEW ask, NEW arg, NEW wanted, w.type # "request"
  PROVE  w # Ask(ask, arg, wanted)
<1> SUFFICES ASSUME w = Ask(ask, arg, wanted) PROVE w.type = "request"
  OBVIOUS
<1> QED BY AskIs

(* The next request of the discovery: a page, or the sources. *)
LEMMA NextPageAsked ==
  ASSUME NEW start \in Nat, NEW count \in Nat, NextPage(start, count)
  PROVE  /\ link' = "up"
         /\ start < count => pc' = "params" /\ wire' = Ask("GetParams", start, "")
         /\ ~(start < count) => pc' = "sources" /\ wire' = Ask("GetSources", 0, "")
BY DEF NextPage, Request, Ask

LEMMA NextPageGoesOn ==
  ASSUME DiscoveryInv, UNCHANGED <<device, calm, held, routed>>, mode = "serving",
         pc \notin {"ready", "write"},
         known' \in Learnt, known'.start <= Count, Len(known'.params) = known'.start, Counted(known'),
         known'.n_sources = Len(firmware.sources) % 256, Count \in Nat,
         NextPage(known'.start, Count)
  PROVE  DiscoveryInv'
<1>1. PICK s \in Nat : s = known'.start
  BY DEF Learnt
<1>2. /\ link' = "up"
      /\ s < Count => pc' = "params" /\ wire' = Ask("GetParams", s, "")
      /\ ~(s < Count) => pc' = "sources" /\ wire' = Ask("GetSources", 0, "")
  BY <1>1, NextPageAsked
<1>3. Conversation(pc', known', wire')
  <2>1. CASE s < Count
    BY <1>1, <1>2, <2>1 DEF Conversation
  <2>2. CASE ~(s < Count)
    <3>1. s = Count
      BY <1>1, <2>2
    <3> QED BY <1>1, <1>2, <2>2, <3>1 DEF Conversation
  <2> QED BY <2>1, <2>2
<1>4. Knowledge'
  <2>1. known'.count = Count
    BY DEF Counted
  <2>2. pc' \in {"params", "sources"}
    BY <1>2
  <2> QED BY <2>1, <2>2 DEF Knowledge
<1>5. WriteReaches'
  BY DEF DiscoveryInv, WriteReaches
<1>6. pc' # "connect"
  BY <1>2
<1>7. Holding'
  BY NotHeld
<1> QED BY <1>2, <1>3, <1>4, <1>5, <1>6, <1>7, GoesOn

LEMMA OnStatusKeeps ==
  ASSUME DiscoveryInv, OnStatus
  PROVE  DiscoveryInv'
<1>1. link = "up" /\ pc = "status" /\ wire.type # "request" /\ UNCHANGED <<device, calm>>
  BY DEF OnStatus, Replied
<1>2. wire = Status /\ known = Nothing /\ Count \in Nat /\ mode = "serving" /\ entries \in Seq(Groups)
  <2>1. wire \in {Ask("Status", 0, ""), Status}
    BY <1>1, Talking DEF Conversation
  <2>2. wire # Ask("Status", 0, "")
    BY <1>1, NotAsked
  <2> QED BY <1>1, <2>1, <2>2, Talking DEF DiscoveryInv, Knowledge
<1>3. wire.type = "Status" /\ wire.count = Count /\ wire.n_sources = Len(firmware.sources) % 256
  BY <1>2 DEF Status
<1>4. /\ known' = [Nothing EXCEPT !.count = Count, !.n_sources = Len(firmware.sources) % 256]
      /\ NextPage(0, Count) /\ UNCHANGED <<held, routed>>
  BY <1>2, <1>3 DEF OnStatus
<1>5. Len(firmware.sources) % 256 \in Nat
  <2>1. firmware.sources \in Seq(Names)
    BY DiscoveryAssumption DEF DiscoveryInv, Registry
  <2>2. PICK l \in Nat : l = Len(firmware.sources)
    BY <2>1
  <2>3. l % 256 \in Nat
    OBVIOUS
  <2> QED BY <2>2, <2>3
<1>6. /\ known' \in Learnt /\ known'.start = 0 /\ known'.params = <<>> /\ known'.count = Count
      /\ known'.n_sources = Len(firmware.sources) % 256
  <2>1. PICK m \in Nat : m = Len(firmware.sources) % 256
    BY <1>5
  <2>2. PICK c \in Nat : c = Count
    BY <1>2
  <2>3. PICK z : z = Nothing
    OBVIOUS
  <2>4. z \in Learnt /\ z.start = 0 /\ z.params = <<>>
    BY <2>3, NothingTyped
  <2>5. known' = [z EXCEPT !.count = c, !.n_sources = m]
    BY <1>4, <2>1, <2>2, <2>3
  <2>6. known' \in Learnt /\ known'.start = 0 /\ known'.params = <<>> /\ known'.count = c /\ known'.n_sources = m
    BY <2>4, <2>5 DEF Learnt
  <2> QED BY <2>1, <2>2, <2>6
<1>7. Len(<<>>) = 0 /\ Counted(known')
  BY <1>6 DEF Counted
<1> QED BY <1>1, <1>2, <1>4, <1>6, <1>7, NextPageGoesOn

(* What a page brings: its definitions, numbered where the last page ended. *)
LEMMA PageJoined ==
  ASSUME DiscoveryInv, link = "up", pc = "params", wire.type = "GetParams"
  PROVE  \E s, e \in Nat, r \in Seq(Item) :
            /\ s = known.start /\ e = PageEnd(s) /\ s <= e /\ e <= Count
            /\ wire.start = s /\ wire.next = e /\ Len(wire.params) = e - s
            /\ r = known.params \o Numbered(known.start, wire.params) /\ Len(r) = e
            /\ \A i \in 1..e : r[i] = Entry(i - 1)
<1>2. /\ Conversation(pc, known, wire) /\ entries \in Seq(Groups)
      /\ Count \in Nat /\ known \in Learnt /\ Len(known.params) = known.start
  BY Talking
<1>3. Counted(known) /\ known.start < Count /\ wire = GetParams(known.start)
  <2>1. /\ Counted(known) /\ known.start < Count
        /\ wire \in {Ask("GetParams", known.start, ""), GetParams(known.start)}
    BY <1>2 DEF Conversation
  <2>2. wire.type # "request"
    OBVIOUS
  <2>3. wire # Ask("GetParams", known.start, "")
    BY <2>2, NotAsked
  <2> QED BY <2>1, <2>3
<1>4. PICK s \in Nat : s = known.start
  BY <1>2 DEF Learnt
<1>5. PICK e : e = PageEnd(s)
  OBVIOUS
<1>6. e \in s..Count /\ e \in Nat /\ s <= e
  <2>1. s <= Count
    BY <1>2, <1>3, <1>4
  <2>2. e \in s..Count
    BY <1>2, <1>5, <2>1, PageEndIs
  <2> QED BY <1>2, <2>2
<1>7. wire.start = s /\ wire.next = e /\ wire.params = [i \in 1..(e - s) |-> Definition(s + i - 1)]
  BY <1>3, <1>4, <1>5 DEF GetParams, Error
<1>8. PICK q : q = Numbered(s, wire.params)
  OBVIOUS
<1>9. \A i \in 1..(e - s) : Definition(s + i - 1) \in Param
  <2>1. \A i \in 1..(e - s) : s + i - 1 \in Nat /\ s + i - 1 < Count
    BY <1>2, <1>6
  <2> QED BY <1>2, <2>1, Located
<1>10. \A i \in 1..(e - s) :
         Entry(s + i - 1) \in Item
  <2>1. \A i \in 1..(e - s) : s + i - 1 \in Nat
    BY <1>6
  <2> QED BY <1>9, <2>1 DEF Param, Item, Entry
<1>11. q = [i \in 1..(e - s) |-> Entry(s + i - 1)]
  BY <1>7, <1>8 DEF Numbered, Entry
<1>12. q \in Seq(Item) /\ Len(q) = e - s
  <2>1. e - s \in Nat
    BY <1>6
  <2> QED BY <1>10, <1>11, <2>1, IsASeq
<1>13. PICK p \in Seq(Item) : p = known.params
  BY <1>2 DEF Learnt
<1>14. Len(p) = s
  BY <1>2, <1>4, <1>13
<1>15. PICK r : r = p \o q
  OBVIOUS
<1>16. r \in Seq(Item) /\ Len(r) = e
  <2>1. r \in Seq(Item) /\ Len(r) = Len(p) + Len(q)
    BY <1>12, <1>15, ConcatProperties
  <2> QED BY <1>6, <1>12, <1>14, <2>1
<1>17. \A i \in 1..e : r[i] = Entry(i - 1)
  <2> SUFFICES ASSUME NEW i \in 1..e
               PROVE r[i] = Entry(i - 1)
    OBVIOUS
  <2>1. CASE i <= s
    <3>1. i \in 1..Len(p) /\ r[i] = p[i]
      BY <1>6, <1>12, <1>14, <1>15, <2>1
    <3> QED BY <1>3, <1>13, <3>1 DEF Counted
  <2>2. CASE s < i
    <3>1. PICK j : j = i - s
      OBVIOUS
    <3>2. j \in 1..(e - s) /\ s + j - 1 = i - 1 /\ r[i] = q[j]
      BY <1>6, <1>12, <1>14, <1>15, <2>2, <3>1
    <3>3. q[j] = Entry(s + j - 1)
      BY <1>11, <3>2
    <3> QED BY <3>2, <3>3
  <2> QED BY <1>6, <2>1, <2>2
<1>18. Len(wire.params) = e - s
  <2>1. e - s \in Nat
    BY <1>6
  <2> QED BY <1>7, <2>1
<1>19. r = known.params \o Numbered(known.start, wire.params)
  BY <1>4, <1>8, <1>13, <1>15
<1>20. e <= Count /\ e = PageEnd(s)
  BY <1>2, <1>5, <1>6
<1> QED BY <1>4, <1>6, <1>7, <1>16, <1>17, <1>18, <1>19, <1>20

LEMMA OnPageKeeps ==
  ASSUME DiscoveryInv, OnPage
  PROVE  DiscoveryInv'
<1>1. link = "up" /\ pc = "params" /\ wire.type # "request" /\ UNCHANGED <<device, calm>>
  BY DEF OnPage, Replied
<1>2. /\ mode = "serving" /\ Conversation(pc, known, wire) /\ entries \in Seq(Groups)
      /\ Count \in Nat /\ known \in Learnt /\ Len(known.params) = known.start
  BY <1>1, Talking
<1>3. /\ Counted(known) /\ known.count = Count /\ known.n_sources = Len(firmware.sources) % 256
      /\ known.start < Count /\ wire = GetParams(known.start)
  <2>1. /\ Counted(known) /\ known.n_sources = Len(firmware.sources) % 256 /\ known.start < Count
        /\ wire \in {Ask("GetParams", known.start, ""), GetParams(known.start)}
    BY <1>1, <1>2 DEF Conversation
  <2>2. wire # Ask("GetParams", known.start, "")
    BY <1>1, NotAsked
  <2> QED BY <2>1, <2>2 DEF Counted
<1>4. CASE Drop
  BY <1>1, <1>4, Dropped
<1>5. CASE /\ PageSound
           /\ known' = [known EXCEPT !.start = wire.next, !.params = @ \o Numbered(known.start, wire.params)]
           /\ NextPage(wire.next, known.count) /\ UNCHANGED <<held, routed>>
  <2>1. PICK s, e \in Nat, r \in Seq(Item) :
            /\ s = known.start /\ e = PageEnd(s) /\ s <= e /\ e <= Count
            /\ wire.start = s /\ wire.next = e /\ Len(wire.params) = e - s
            /\ r = known.params \o Numbered(known.start, wire.params) /\ Len(r) = e
            /\ \A i \in 1..e : r[i] = Entry(i - 1)
    BY <1>1, <1>5, PageJoined DEF PageSound
  <2>2. /\ known' \in Learnt /\ known'.start = e /\ known'.params = r /\ known'.count = Count
         /\ known'.n_sources = known.n_sources
    BY <1>2, <1>3, <1>5, <2>1 DEF Learnt
  <2>3. Counted(known')
    BY <2>1, <2>2 DEF Counted
  <2>4. NextPage(known'.start, Count)
    BY <1>3, <1>5, <2>1, <2>2
  <2>5. known'.start <= Count /\ Len(known'.params) = known'.start
    BY <1>2, <2>1, <2>2
  <2> QED BY <1>1, <1>2, <1>3, <1>5, <2>2, <2>3, <2>4, <2>5, NextPageGoesOn
<1> QED BY <1>4, <1>5 DEF OnPage

(* A discovered parameter has the index and the name of its definition.    *)
LEMMA KnownIndex ==
  ASSUME known \in Learnt, Counted(known), Len(known.params) = Count, Count \in Nat,
         NEW d \in Range(known.params)
  PROVE  d.index \in 0..(Count - 1) /\ Definition(d.index).name = d.name
<1>1. PICK p \in Seq(Item) : p = known.params
  BY DEF Learnt
<1>2. PICK i \in 1..Count : d = p[i]
  BY <1>1 DEF Range
<1>3. d = Entry(i - 1)
  BY <1>1, <1>2 DEF Counted
<1>4. i - 1 \in 0..(Count - 1) /\ d.index = i - 1 /\ d.name = Definition(i - 1).name
  BY <1>3 DEF Entry
<1> QED BY <1>4

(* read_char_parameter asks for the value of the parameter it names.       *)
LEMMA AsksChars ==
  ASSUME known \in Learnt, Counted(known), Len(known.params) = Count, Count \in Nat, NEW at, NEW name,
         ReadChars(at, name)
  PROVE  \/ Drop /\ UNCHANGED <<device, calm>> /\ Chars(name) = {}
         \/ /\ pc' = at /\ link' = "up" /\ ReadsBack(wire', name) /\ Chars(name) # {}
            /\ UNCHANGED <<device, held, routed, calm>>
<1>1. CASE Chars(name) = {}
  BY <1>1 DEF ReadChars
<1>2. CASE Chars(name) # {}
  <2>1. PICK d : d = CHOOSE def \in Chars(name) : TRUE
    OBVIOUS
  <2>2. d \in Chars(name)
    BY <1>2, <2>1
  <2>3. d \in Range(known.params) /\ d.name = name
    BY <2>2 DEF Chars
  <2>4. d.index \in 0..(Count - 1) /\ Definition(d.index).name = name
    BY <2>3, KnownIndex
  <2>5. wire' = Ask("GetPar", d.index, "") /\ pc' = at /\ link' = "up" /\ UNCHANGED <<device, held, routed, calm>>
    BY <1>2, <2>1 DEF ReadChars, Request, Ask
  <2>6. ReadsBack(wire', name)
    BY <2>4, <2>5 DEF ReadsBack
  <2> QED BY <1>2, <2>5, <2>6
<1> QED BY <1>1, <1>2

(* The reply to it is that parameter's value. *)
LEMMA ValueRead ==
  ASSUME firmware \in Compositions, entries \in Seq(Groups), NEW w, NEW name, ReadsBack(w, name),
         w.type = "GetPar"
  PROVE  w.value = Value(name) /\ Value(name) \in Compositions \X Names
<1>1. PICK i \in 0..(Count - 1) :
         Definition(i).name = name /\ w \in {Ask("GetPar", i, ""), GetPar(i)}
  BY DEF ReadsBack
<1>2. w # Ask("GetPar", i, "")
  <2>1. w.type # "request"
    OBVIOUS
  <2> QED BY <2>1, NotAsked
<1>3. w = GetPar(i)
  BY <1>1, <1>2
<1>4. GetPar(i) # Error
  BY <1>3 DEF Error
<1>5. w = [type |-> "GetPar", value |-> Value(Definition(i).name)]
  BY <1>3, <1>4, ReplyTypes
<1>6. i \in Nat /\ i < Count
  BY BaseFacts
<1>7. Definition(i) \in Param
  BY <1>6, Located
<1>8. name \in Names
  BY <1>1, <1>7 DEF Param
<1> QED BY <1>1, <1>5, <1>8 DEF Value

LEMMA OnSourcesKeeps ==
  ASSUME DiscoveryInv, OnSources
  PROVE  DiscoveryInv'
<1>1. link = "up" /\ pc = "sources" /\ wire.type # "request"
  BY DEF OnSources, Replied
<1>2. /\ mode = "serving" /\ Conversation(pc, known, wire) /\ Count \in Nat /\ known \in Learnt
      /\ Len(known.params) = known.start
  BY <1>1, Talking
<1>3. /\ Counted(known) /\ known.start = Count /\ known.n_sources = Len(firmware.sources) % 256
      /\ wire = GetSources
  <2>1. /\ Counted(known) /\ known.start = Count /\ known.n_sources = Len(firmware.sources) % 256
        /\ wire \in {Ask("GetSources", 0, ""), GetSources}
    BY <1>1, <1>2 DEF Conversation
  <2>2. wire # Ask("GetSources", 0, "")
    BY <1>1, NotAsked
  <2> QED BY <2>1, <2>2
<1>4. CASE Drop /\ UNCHANGED <<device, calm>>
  BY <1>4, Dropped
<1>5. CASE /\ wire.type = "GetSources" /\ ReadChars("experiment", "experiment")
           /\ Chars("experiment") # {} => known' = [known EXCEPT !.sources = wire.sources]
  <2>1. wire.sources = firmware.sources /\ firmware.sources \in Seq(Names)
    <3>1. wire = [type |-> "GetSources", sources |-> firmware.sources]
      BY <1>3, <1>5, ReplyTypes
    <3> QED BY <3>1, DiscoveryAssumption DEF DiscoveryInv, Registry
  <2>2. Len(known.params) = Count
    BY <1>2, <1>3
  <2>3. \/ Drop /\ UNCHANGED <<device, calm>> /\ Chars("experiment") = {}
        \/ /\ pc' = "experiment" /\ link' = "up" /\ ReadsBack(wire', "experiment")
           /\ Chars("experiment") # {} /\ UNCHANGED <<device, held, routed, calm>>
    BY <1>2, <1>3, <1>5, <2>2, AsksChars
  <2>4. CASE /\ pc' = "experiment" /\ link' = "up" /\ ReadsBack(wire', "experiment")
             /\ Chars("experiment") # {} /\ UNCHANGED <<device, held, routed, calm>>
    <3>1. known' = [known EXCEPT !.sources = firmware.sources]
      BY <1>5, <2>1, <2>4
    <3>2. /\ known' \in Learnt /\ known'.start = known.start /\ known'.count = known.count
          /\ known'.params = known.params /\ known'.n_sources = known.n_sources
          /\ known'.sources = firmware.sources
      BY <1>2, <2>1, <3>1 DEF Learnt
    <3>3. Knowledge'
      BY <1>2, <2>4, <3>2 DEF Knowledge, DiscoveryInv
    <3>4. Counted(known')
      BY <1>3, <3>2 DEF Counted
    <3>5. Conversation(pc', known', wire')
      BY <1>3, <2>4, <3>2, <3>4 DEF Conversation
    <3>6. WriteReaches'
      BY <2>4 DEF DiscoveryInv, WriteReaches
    <3>7. Holding'
      BY <1>1, <2>4, NotHeld
    <3> QED BY <1>2, <2>4, <3>3, <3>5, <3>6, <3>7, GoesOn
  <2> QED BY <2>3, <2>4, Dropped
<1> QED BY <1>4, <1>5 DEF OnSources, SourcesSound

LEMMA OnExperimentKeeps ==
  ASSUME DiscoveryInv, OnExperiment
  PROVE  DiscoveryInv'
<1>1. link = "up" /\ pc = "experiment" /\ wire.type # "request"
  BY DEF OnExperiment, Replied
<1>2. /\ mode = "serving" /\ Conversation(pc, known, wire) /\ Count \in Nat /\ known \in Learnt
      /\ Len(known.params) = known.start /\ entries \in Seq(Groups)
  BY <1>1, Talking
<1>3. /\ Counted(known) /\ known.start = Count /\ known.n_sources = Len(firmware.sources) % 256
      /\ known.sources = firmware.sources /\ ReadsBack(wire, "experiment")
  BY <1>1, <1>2 DEF Conversation
<1>4. CASE Drop /\ UNCHANGED <<device, calm>>
  BY <1>4, Dropped
<1>5. CASE /\ wire.type = "GetPar" /\ ReadChars("firmware", "firmware")
           /\ Chars("firmware") # {} => known' = [known EXCEPT !.identity = <<wire.value>>]
  <2>1. wire.value = Value("experiment") /\ Value("experiment") \in Compositions \X Names
    <3>1. firmware \in Compositions
      BY DEF DiscoveryInv, Registry
    <3> QED BY <1>2, <1>3, <1>5, <3>1, ValueRead
  <2>2. Len(known.params) = Count
    BY <1>2, <1>3
  <2>3. \/ Drop /\ UNCHANGED <<device, calm>> /\ Chars("firmware") = {}
        \/ /\ pc' = "firmware" /\ link' = "up" /\ ReadsBack(wire', "firmware")
           /\ Chars("firmware") # {} /\ UNCHANGED <<device, held, routed, calm>>
    BY <1>2, <1>3, <1>5, <2>2, AsksChars
  <2>4. CASE /\ pc' = "firmware" /\ link' = "up" /\ ReadsBack(wire', "firmware")
             /\ Chars("firmware") # {} /\ UNCHANGED <<device, held, routed, calm>>
    <3>1. known' = [known EXCEPT !.identity = <<Value("experiment")>>]
      BY <1>5, <2>1, <2>4
    <3>2. /\ known' \in Learnt /\ known'.start = known.start /\ known'.count = known.count
          /\ known'.params = known.params /\ known'.n_sources = known.n_sources
          /\ known'.sources = known.sources /\ known'.identity = <<Value("experiment")>>
      <4>1. <<Value("experiment")>> \in Seq(Compositions \X Names)
        BY <2>1
      <4> QED BY <1>2, <3>1, <4>1 DEF Learnt
    <3>3. Knowledge'
      BY <1>2, <2>4, <3>2 DEF Knowledge, DiscoveryInv
    <3>4. Counted(known')
      BY <1>3, <3>2 DEF Counted
    <3>5. Conversation(pc', known', wire')
      BY <1>3, <2>4, <3>2, <3>4 DEF Conversation
    <3>6. WriteReaches'
      BY <2>4 DEF DiscoveryInv, WriteReaches
    <3>7. Holding'
      BY <1>1, <2>4, NotHeld
    <3> QED BY <1>2, <2>4, <3>3, <3>5, <3>6, <3>7, GoesOn
  <2> QED BY <2>3, <2>4, Dropped
<1> QED BY <1>4, <1>5 DEF OnExperiment

LEMMA OnFirmwareKeeps ==
  ASSUME DiscoveryInv, OnFirmware
  PROVE  DiscoveryInv'
<1>1. link = "up" /\ pc = "firmware" /\ wire.type # "request" /\ UNCHANGED <<device, calm>>
  BY DEF OnFirmware, Replied
<1>2. /\ mode = "serving" /\ Conversation(pc, known, wire) /\ Count \in Nat /\ known \in Learnt
      /\ Len(known.params) = known.start /\ entries \in Seq(Groups)
  BY <1>1, Talking
<1>3. /\ Counted(known) /\ known.start = Count /\ known.n_sources = Len(firmware.sources) % 256
      /\ known.sources = firmware.sources /\ known.identity = <<Value("experiment")>>
      /\ ReadsBack(wire, "firmware")
  BY <1>1, <1>2 DEF Conversation
<1>4. CASE Drop
  BY <1>1, <1>4, Dropped
<1>5. CASE /\ wire.type = "GetPar" /\ known' = [known EXCEPT !.identity = Append(@, wire.value)]
           /\ pc' = "ready" /\ wire' = None /\ UNCHANGED <<link, held, routed>>
  <2>1. wire.value = Value("firmware") /\ Value("firmware") \in Compositions \X Names
    <3>1. firmware \in Compositions
      BY DEF DiscoveryInv, Registry
    <3> QED BY <1>2, <1>3, <1>5, <3>1, ValueRead
  <2>2. PICK v \in Compositions \X Names : v = Value("firmware")
    BY <2>1
  <2>3. PICK u : u = known.identity
    OBVIOUS
  <2>4. u \in Seq(Compositions \X Names) /\ u = <<Value("experiment")>>
    BY <1>2, <1>3, <2>3 DEF Learnt
  <2>5. Append(u, v) \in Seq(Compositions \X Names) /\ Append(u, v) = <<Value("experiment"), v>>
    <3>1. PICK a : a = Value("experiment")
      OBVIOUS
    <3>2. u = <<a>> /\ a \in Compositions \X Names
      BY <2>4, <3>1
    <3>3. PICK r \in Seq(Compositions \X Names) : r = Append(u, v)
      BY <2>4, AppendProperties
    <3>4. Len(r) = 2 /\ r[1] = a /\ r[2] = v
      BY <2>4, <3>2, <3>3
    <3>5. r = <<a, v>>
      <4>1. r = [i \in 1..2 |-> r[i]]
        BY <3>4
      <4>2. <<a, v>> = [i \in 1..2 |-> <<a, v>>[i]]
        OBVIOUS
      <4>3. \A i \in 1..2 : r[i] = <<a, v>>[i]
        BY <3>4
      <4> QED BY <4>1, <4>2, <4>3, Zenon
    <3> QED BY <3>1, <3>3, <3>5
  <2>6. known' = [known EXCEPT !.identity = Append(u, v)]
    BY <1>5, <2>1, <2>2, <2>3
  <2>7. /\ known' \in Learnt /\ known'.start = known.start /\ known'.count = known.count
        /\ known'.params = known.params /\ known'.n_sources = known.n_sources
        /\ known'.sources = known.sources /\ known'.identity = Append(u, v)
    BY <1>2, <2>5, <2>6 DEF Learnt
  <2>8. known'.identity = <<Value("experiment"), Value("firmware")>>
    BY <2>2, <2>5, <2>7
  <2>9. Knowledge'
    BY <1>2, <1>5, <2>7 DEF Knowledge, DiscoveryInv
  <2>10. Counted(known')
    BY <1>3, <2>7 DEF Counted
  <2>11. Conversation(pc', known', wire')
    BY <1>3, <1>5, <2>7, <2>8, <2>10 DEF Conversation
  <2>12. WriteReaches'
    BY <1>5 DEF DiscoveryInv, WriteReaches
  <2>13. Holding'
    BY <1>1, <1>5, NotHeld
  <2> QED BY <1>1, <1>2, <1>5, <2>9, <2>11, <2>12, <2>13, GoesOn
<1> QED BY <1>4, <1>5 DEF OnFirmware

LEMMA LearnKeeps ==
  ASSUME DiscoveryInv, Learn
  PROVE  DiscoveryInv'
<1>1. /\ link = "up" /\ pc = "ready" /\ held' = [params |-> known.params, current |-> TRUE]
      /\ UNCHANGED <<device, link, wire, pc, known, routed, calm>>
  BY DEF Learn
<1>2. /\ mode = "serving" /\ Conversation(pc, known, wire) /\ known \in Learnt
  BY <1>1, Talking
<1>3. Conversation(pc', known', wire')
  BY <1>1, <1>2
<1>4. Knowledge'
  BY <1>1 DEF DiscoveryInv, Knowledge
<1>5. WriteReaches'
  BY <1>1 DEF DiscoveryInv, WriteReaches
<1>6. Holding'
  <2>1. held' \in [params : Seq(Item), current : BOOLEAN]
    BY <1>1, <1>2 DEF Learnt
  <2>2. held'.params = known.params
    BY <1>1
  <2> QED BY <1>1, <2>1, <2>2 DEF Holding
<1> QED BY <1>1, <1>2, <1>3, <1>4, <1>5, <1>6, GoesOn

LEMMA CloseKeeps ==
  ASSUME DiscoveryInv, Close
  PROVE  DiscoveryInv'
<1>1. held' = Unheld /\ UNCHANGED <<device, link, wire, pc, known, routed, calm>>
  BY DEF Close
<1>2. Holding'
  <2>1. Unheld \in [params : Seq(Item), current : BOOLEAN] /\ ~Unheld.current
    <3>1. <<>> \in Seq(Item)
      BY EmptySeq
    <3> QED BY <3>1 DEF Unheld
  <2> QED BY <1>1, <2>1 DEF Holding
<1>3. Registry' /\ Knowledge' /\ WriteReaches' /\ (calm \in BOOLEAN)'
  <2>1. Registry'
    BY <1>1, RegistryStays DEF DiscoveryInv
  <2> QED BY <1>1, <2>1 DEF DiscoveryInv, Knowledge, WriteReaches
<1>4. Connection'
  <2>1. link = "up" => Conversation(pc', known', wire')
    BY <1>1 DEF DiscoveryInv, Connection
  <2>2. link = "up" => Conversation(pc, known, wire)'
    BY <1>1, <2>1, ConversationKept
  <2> QED BY <1>1, <2>2 DEF DiscoveryInv, Connection, device
<1> QED BY <1>2, <1>3, <1>4 DEF DiscoveryInv

LEMMA WriteKeeps ==
  ASSUME DiscoveryInv, NEW d \in Range(held.params), Write(d)
  PROVE  DiscoveryInv'
<1>1. /\ link = "up" /\ pc = "ready" /\ pc' = "write" /\ link' = "up"
      /\ wire' = Ask("SetPar", d.index, d.name) /\ UNCHANGED <<device, known, held, routed, calm>>
  BY DEF Write, Request, Ask
<1>2. /\ mode = "serving" /\ Conversation(pc, known, wire) /\ Count \in Nat /\ known \in Learnt
      /\ Len(known.params) = known.start
  BY <1>1, Talking
<1>3. /\ Counted(known) /\ known.start = Count /\ known.n_sources = Len(firmware.sources) % 256
      /\ known.sources = firmware.sources
      /\ known.identity = <<Value("experiment"), Value("firmware")>>
  BY <1>1, <1>2 DEF Conversation
<1>4. held.current => Named(wire')
  <2> SUFFICES ASSUME held.current PROVE Named(wire')
    OBVIOUS
  <2>1. d \in Range(known.params)
    BY DEF DiscoveryInv, Holding
  <2>2. Len(known.params) = Count
    BY <1>2, <1>3
  <2>3. d.index \in 0..(Count - 1) /\ Definition(d.index).name = d.name
    BY <1>2, <1>3, <2>1, <2>2, KnownIndex
  <2> QED BY <1>1, <2>3 DEF Named
<1>5. Writes(wire')
  BY <1>1 DEF Writes
<1>6. Conversation(pc', known', wire')
  BY <1>1, <1>3, <1>5 DEF Conversation
<1>7. Knowledge'
  BY <1>1 DEF DiscoveryInv, Knowledge
<1>8. WriteReaches'
  BY <1>1 DEF DiscoveryInv, WriteReaches
<1>9. Holding'
  <2>1. held.current => Named(wire)'
    BY <1>1, <1>4, RegistryKept DEF Named, device
  <2>2. /\ held \in [params : Seq(Item), current : BOOLEAN]
        /\ held.current => held.params = known.params
    BY DEF DiscoveryInv, Holding
  <2> QED BY <1>1, <2>1, <2>2 DEF Holding
<1> QED BY <1>1, <1>2, <1>6, <1>7, <1>8, <1>9, GoesOn

LEMMA OnWriteKeeps ==
  ASSUME DiscoveryInv, OnWrite
  PROVE  DiscoveryInv'
<1>1. /\ link = "up" /\ pc = "write" /\ pc' = "ready" /\ link' = "up" /\ wire' = None /\ routed' = None
      /\ UNCHANGED <<device, known, held, calm>>
  BY DEF OnWrite, Replied
<1>2. mode = "serving" /\ Conversation(pc, known, wire)
  BY <1>1, Talking
<1>3. Conversation(pc', known', wire')
  BY <1>1, <1>2 DEF Conversation
<1>4. Knowledge'
  BY <1>1 DEF DiscoveryInv, Knowledge
<1>5. WriteReaches'
  BY <1>1 DEF WriteReaches, None
<1>6. Holding'
  BY <1>1 DEF DiscoveryInv, Holding
<1> QED BY <1>1, <1>2, <1>3, <1>4, <1>5, <1>6, GoesOn

LEMMA HandleReplies == \A request : Handle(request).type # "request"
<1>1. \A request : \/ Handle(request) \in {Status, GetSources}
                  \/ \E i : Handle(request) \in {GetParams(i), GetPar(i), SetPar(i)}
  BY DEF Handle
<1>2. /\ Status.type # "request" /\ GetSources.type # "request"
      /\ \A i : GetParams(i).type # "request" /\ GetPar(i).type # "request" /\ SetPar(i).type # "request"
  BY ReplyTypes
<1> QED BY <1>1, <1>2

(* The device answers. *)
LEMMA ServeKeeps ==
  ASSUME DiscoveryInv, Serve
  PROVE  DiscoveryInv'
<1>1. /\ mode = "serving" /\ link = "up" /\ wire.type = "request" /\ wire' = Handle(wire)
      /\ routed' = (IF wire.ask = "SetPar" /\ ~Refused(wire.arg)
                    THEN [type |-> "write", wanted |-> wire.wanted, reached |-> Reached(wire.arg),
                          current |-> held.current]
                    ELSE routed)
      /\ UNCHANGED <<device, link, pc, known, held, calm>>
  BY DEF Serve
<1>2. /\ Conversation(pc, known, wire) /\ entries \in Seq(Groups) /\ Valid /\ Count \in Nat
      /\ known \in Learnt /\ pc # "connect"
  BY <1>1, Talking
<1>3. Knowledge'
  BY <1>1 DEF DiscoveryInv, Knowledge
<1>4. /\ Handle(Ask("Status", 0, "")) = Status /\ Handle(Ask("GetSources", 0, "")) = GetSources
      /\ \A i : /\ Handle(Ask("GetParams", i, "")) = GetParams(i) /\ Handle(Ask("GetPar", i, "")) = GetPar(i)
                /\ \A name : Handle(Ask("SetPar", i, name)) = SetPar(i)
  BY DEF Handle, Ask
<1>5. /\ wire # Status /\ wire # GetSources /\ wire # None
      /\ \A i : wire # GetParams(i) /\ wire # GetPar(i) /\ wire # SetPar(i)
  BY <1>1, ReplyTypes
<1>16. Holding'
  <2>1. wire'.type # "request"
    BY <1>1, HandleReplies
  <2>2. /\ held \in [params : Seq(Item), current : BOOLEAN]
        /\ held.current => pc \in {"ready", "write"} /\ held.params = known.params
    BY DEF DiscoveryInv, Holding
  <2> QED BY <1>1, <2>1, <2>2 DEF Holding
<1>6. ASSUME Conversation(pc, known, wire'), wire.ask # "SetPar" PROVE DiscoveryInv'
  <2>1. WriteReaches'
    BY <1>1, <1>6 DEF DiscoveryInv, WriteReaches
  <2>2. Conversation(pc', known', wire')
    BY <1>1, <1>6
  <2> QED BY <1>1, <1>2, <1>3, <1>16, <2>1, <2>2, GoesOn
<1>7. CASE pc = "status"
  <2>1. wire = Ask("Status", 0, "")
    BY <1>2, <1>5, <1>7 DEF Conversation
  <2>2. wire' = Status
    BY <1>1, <1>4, <2>1
  <2>3. Conversation(pc, known, wire')
    BY <1>7, <2>2 DEF Conversation
  <2>4. wire.ask = "Status"
    BY <2>1 DEF Ask
  <2> QED BY <1>6, <2>3, <2>4
<1>8. CASE pc = "params"
  <2>1. wire = Ask("GetParams", known.start, "")
    BY <1>2, <1>5, <1>8 DEF Conversation
  <2>2. wire' = GetParams(known.start)
    BY <1>1, <1>4, <2>1
  <2>3. Conversation(pc, known, wire')
    BY <1>2, <1>8, <2>2 DEF Conversation
  <2>4. wire.ask = "GetParams"
    BY <2>1 DEF Ask
  <2> QED BY <1>6, <2>3, <2>4
<1>9. CASE pc = "sources"
  <2>1. wire = Ask("GetSources", 0, "")
    BY <1>2, <1>5, <1>9 DEF Conversation
  <2>2. wire' = GetSources
    BY <1>1, <1>4, <2>1
  <2>3. Conversation(pc, known, wire')
    BY <1>2, <1>9, <2>2 DEF Conversation
  <2>4. wire.ask = "GetSources"
    BY <2>1 DEF Ask
  <2> QED BY <1>6, <2>3, <2>4
<1>10. ASSUME NEW name, ReadsBack(wire, name) PROVE ReadsBack(wire', name) /\ wire.ask = "GetPar"
  <2>1. PICK i \in 0..(Count - 1) :
          Definition(i).name = name /\ wire \in {Ask("GetPar", i, ""), GetPar(i)}
    BY <1>10 DEF ReadsBack
  <2>2. wire = Ask("GetPar", i, "")
    BY <1>5, <2>1
  <2>3. wire' = GetPar(i)
    BY <1>1, <1>4, <2>2
  <2>4. wire.ask = "GetPar"
    BY <2>2 DEF Ask
  <2> QED BY <2>1, <2>3, <2>4 DEF ReadsBack
<1>11. CASE pc = "experiment"
  <2>1. ReadsBack(wire', "experiment") /\ wire.ask = "GetPar"
    BY <1>2, <1>10, <1>11 DEF Conversation
  <2>2. Conversation(pc, known, wire')
    BY <1>2, <1>11, <2>1 DEF Conversation
  <2> QED BY <1>6, <2>1, <2>2
<1>12. CASE pc = "firmware"
  <2>1. ReadsBack(wire', "firmware") /\ wire.ask = "GetPar"
    BY <1>2, <1>10, <1>12 DEF Conversation
  <2>2. Conversation(pc, known, wire')
    BY <1>2, <1>12, <2>1 DEF Conversation
  <2> QED BY <1>6, <2>1, <2>2
<1>13. pc # "ready"
  BY <1>2, <1>5 DEF Conversation
<1>14. CASE pc = "write"
  <2>1. Writes(wire)
    BY <1>2, <1>14 DEF Conversation
  <2>2. PICK i, name : wire \in {Ask("SetPar", i, name), SetPar(i)}
    BY <2>1 DEF Writes
  <2>3. wire = Ask("SetPar", i, name)
    BY <1>5, <2>2
  <2>4. wire' = SetPar(i)
    BY <1>1, <1>4, <2>3
  <2>5. Writes(wire')
    BY <2>4 DEF Writes
  <2>6. Conversation(pc, known, wire')
    BY <1>2, <1>14, <2>5 DEF Conversation
  <2>7. held.current => Reached(wire.arg) = {wire.wanted}
    <3> SUFFICES ASSUME held.current PROVE Reached(wire.arg) = {wire.wanted}
      OBVIOUS
    <3>1. PICK j \in 0..(Count - 1) : wire = Ask("SetPar", j, Definition(j).name)
      BY <1>1, <1>14 DEF DiscoveryInv, Holding, Named
    <3>2. wire.arg = j /\ wire.wanted = Definition(j).name
      BY <3>1 DEF Ask
    <3>3. j \in Nat /\ j < Count
      BY <1>2
    <3>4. Reached(j) = {Definition(j).name}
      BY <1>2, <3>3, ReachesOwn
    <3> QED BY <3>2, <3>4
  <2>8. \/ routed' = routed
        \/ routed' = [type |-> "write", wanted |-> wire.wanted, reached |-> Reached(wire.arg),
                      current |-> held.current]
    BY <1>1
  <2>9. WriteReaches'
    <3>1. CASE routed' = routed
      BY <3>1 DEF DiscoveryInv, WriteReaches
    <3>2. CASE routed' = [type |-> "write", wanted |-> wire.wanted, reached |-> Reached(wire.arg),
                          current |-> held.current]
      <4>1. /\ routed'.wanted = wire.wanted /\ routed'.reached = Reached(wire.arg)
            /\ routed'.current = held.current
        BY <3>2
      <4> QED BY <2>7, <4>1, Zenon DEF WriteReaches
    <3> QED BY <2>8, <3>1, <3>2
  <2>10. Conversation(pc', known', wire')
    BY <1>1, <2>6
  <2> QED BY <1>1, <1>2, <1>3, <1>16, <2>9, <2>10, GoesOn
<1>15. pc \in {"status", "params", "sources", "experiment", "firmware", "ready", "write"}
  BY <1>2 DEF DiscoveryInv, Knowledge
<1> QED BY <1>7, <1>8, <1>9, <1>11, <1>12, <1>13, <1>14, <1>15

LEMMA DiscoveryStarts == Init => DiscoveryInv
<1> SUFFICES ASSUME Init PROVE DiscoveryInv
  OBVIOUS
<1>1. Registry
  <2>1. <<>> \in Seq(Groups) /\ Len(<<>>) = 0
    BY EmptySeq
  <2> QED BY <2>1, DiscoveryAssumption DEF Init, Registry
<1>2. Knowledge
  <2>1. Len(<<>>) = 0
    OBVIOUS
  <2> QED BY <2>1, NothingTyped DEF Init, Knowledge
<1>3. Connection /\ WriteReaches /\ calm \in BOOLEAN
  BY DEF Init, Connection, WriteReaches, None
<1>4. Holding
  <2>1. <<>> \in Seq(Item)
    BY EmptySeq
  <2> QED BY <2>1 DEF Init, Unheld, Holding
<1> QED BY <1>1, <1>2, <1>3, <1>4 DEF DiscoveryInv

LEMMA DiscoveryStep ==
  ASSUME DiscoveryInv, [Next]_vars
  PROVE  DiscoveryInv'
<1>1. ASSUME UNCHANGED <<device, link, wire, pc, known, held, routed>>, calm' \in BOOLEAN PROVE DiscoveryInv'
  <2>1. Registry'
    BY <1>1, RegistryStays DEF DiscoveryInv
  <2>2. Knowledge'
    BY <1>1 DEF DiscoveryInv, Knowledge
  <2>3. WriteReaches'
    BY <1>1 DEF DiscoveryInv, WriteReaches
  <2>4. link = "up" => Conversation(pc, known, wire)'
    <3>1. link = "up" => Conversation(pc', known', wire')
      BY <1>1 DEF DiscoveryInv, Connection
    <3> QED BY <1>1, <3>1, ConversationKept
  <2>5. Connection'
    BY <1>1, <2>4 DEF DiscoveryInv, Connection, device
  <2>6. Holding'
    <3>1. Named(wire) => Named(wire)'
      BY <1>1, RegistryKept DEF Named, device
    <3> QED BY <1>1, <3>1 DEF DiscoveryInv, Holding
  <2> QED BY <1>1, <2>1, <2>2, <2>3, <2>5, <2>6 DEF DiscoveryInv
<1>2. CASE UNCHANGED vars
  <2>1. calm \in BOOLEAN
    BY DEF DiscoveryInv
  <2> QED BY <1>1, <1>2, <2>1 DEF vars
<1>3. CASE Push
  BY <1>3, PushKeeps
<1>4. CASE Validate
  BY <1>4, ValidateKeeps
<1>5. CASE Serve
  BY <1>5, ServeKeeps
<1>6. CASE Broker
  <2>1. CASE Connect
    BY <2>1, ConnectKeeps
  <2>2. CASE OnStatus
    BY <2>2, OnStatusKeeps
  <2>3. CASE OnPage
    BY <2>3, OnPageKeeps
  <2>4. CASE OnSources
    BY <2>4, OnSourcesKeeps
  <2>5. CASE OnExperiment
    BY <2>5, OnExperimentKeeps
  <2>6. CASE OnFirmware
    BY <2>6, OnFirmwareKeeps
  <2>7. CASE OnWrite
    BY <2>7, OnWriteKeeps
  <2>8. CASE Notice
    BY <2>8, Dropped DEF Notice
  <2> QED BY <1>6, <2>1, <2>2, <2>3, <2>4, <2>5, <2>6, <2>7, <2>8 DEF Broker
<1>7. ASSUME NEW d \in Range(held.params), Write(d) PROVE DiscoveryInv'
  BY <1>7, WriteKeeps
<1>13. CASE Learn
  BY <1>13, LearnKeeps
<1>14. CASE Close
  BY <1>14, CloseKeeps
<1>8. CASE TimesOut
  BY <1>8, Dropped DEF TimesOut
<1>9. CASE Disconnect
  <2>1. Registry'
    BY <1>9, RegistryStays DEF DiscoveryInv, Disconnect
  <2> QED BY <1>9, <2>1, Lost DEF Disconnect
<1>10. CASE Settle
  BY <1>1, <1>10 DEF Settle
<1>11. CASE Dead
  BY <1>2, <1>11 DEF Dead
<1>12. ASSUME NEW image \in Compositions, Restart(image) PROVE DiscoveryInv'
  <2>1. firmware' = image /\ entries' = <<>> /\ mode' = "booting"
    BY <1>12 DEF Restart
  <2>2. <<>> \in Seq(Groups) /\ Len(<<>>) = 0
    BY EmptySeq
  <2>3. Registry'
    BY <2>1, <2>2, DiscoveryAssumption DEF Registry
  <2> QED BY <1>12, <2>3, Lost DEF Restart
<1> QED BY <1>2, <1>3, <1>4, <1>5, <1>6, <1>7, <1>8, <1>9, <1>10, <1>11, <1>12, <1>13, <1>14 DEF Next

(* The inductive invariant holds in every state. *)
THEOREM DiscoveryInvariance == Spec => []DiscoveryInv
<1>1. Init => DiscoveryInv
  BY DiscoveryStarts
<1>2. DiscoveryInv /\ [Next]_vars => DiscoveryInv'
  BY DiscoveryStep
<1> QED BY <1>1, <1>2, PTL DEF Spec

(* The registry never outgrows ParamStore's fixed capacity, and the        *)
(* broker's count of discovered parameters stays in step with its page     *)
(* cursor, for every set of firmware images.                               *)
THEOREM DiscoveryTypeCorrect == Spec => []TypeOK
<1>1. DiscoveryInv => TypeOK
  BY DEF DiscoveryInv, Registry, Knowledge, Connection, TypeOK
<1> QED BY <1>1, DiscoveryInvariance, PTL

(* Whatever the firmware, its groups and page boundaries, and whenever the *)
(* connection or the device fails, the metadata the broker publishes on a  *)
(* live connection is the registry of the device on it (discover_device).  *)
THEOREM MetadataIsTheDevices == Spec => []DescribesDevice
<1>1. DiscoveryInv => DescribesDevice
  <2> SUFFICES ASSUME DiscoveryInv, pc \in {"ready", "write"}, link = "up"
               PROVE  /\ Len(known.params) = Count
                      /\ \A k \in DOMAIN known.params :
                            /\ known.params[k].index = k - 1
                            /\ known.params[k].name = Definition(k - 1).name
                            /\ known.params[k].count = Definition(k - 1).count
                      /\ known.sources = firmware.sources
                      /\ known.identity = <<Value("experiment"), Value("firmware")>>
    BY DEF DescribesDevice
  <2>1. /\ Conversation(pc, known, wire) /\ known \in Learnt /\ Len(known.params) = known.start
    BY Talking
  <2>2. /\ Counted(known) /\ known.start = Count /\ known.sources = firmware.sources
        /\ known.identity = <<Value("experiment"), Value("firmware")>>
    BY <2>1 DEF Conversation
  <2>3. PICK p \in Seq(Item) : p = known.params
    BY <2>1 DEF Learnt
  <2>4. DOMAIN p = 1..Len(p)
    OBVIOUS
  <2>5. \A k \in DOMAIN p : p[k] = Entry(k - 1)
    BY <2>2, <2>3, <2>4 DEF Counted
  <2>6. \A k \in DOMAIN p : /\ p[k].index = k - 1 /\ p[k].name = Definition(k - 1).name
                            /\ p[k].count = Definition(k - 1).count
    BY <2>5 DEF Entry
  <2> QED BY <2>1, <2>2, <2>3, <2>6
<1> QED BY <1>1, DiscoveryInvariance, PTL

(* A write by an index learnt over this connection reaches the parameter   *)
(* of that name and no other: the index counted over the pages, the        *)
(* store's walk to group and local identifier and the command domain core  *)
(* 1 dispatches on agree, for every composition ParamStore::validate       *)
(* accepts.  A client's index of an earlier connection is not covered: it  *)
(* names what is there by then.                                            *)
THEOREM WritesReachTheirParameter == Spec => []WriteReaches
<1>1. DiscoveryInv => WriteReaches
  BY DEF DiscoveryInv
<1> QED BY <1>1, DiscoveryInvariance, PTL

----------------------------------------------------------------------------
(* The safety half of DiscoverySucceeds: no reply of a device that passed  *)
(* its validation and is describable makes the broker bail out.            *)

(* Every reply of the discovery passes the checks discover_device,         *)
(* discover_parameters, discover_sources and read_char_parameter make on   *)
(* it, and the text to read next is among the parameters.                  *)
RepliesAccepted ==
  Describable /\ link = "up" /\ wire.type \notin {"none", "request"} =>
    /\ pc = "status" => wire.type = "Status"
    /\ pc = "params" =>
          /\ PageSound
          /\ wire.next = known.count =>
                NoDuplicates(known.params \o Numbered(known.start, wire.params))
    /\ pc = "sources" => SourcesSound /\ Chars("experiment") # {}
    /\ pc = "experiment" => wire.type = "GetPar" /\ Chars("firmware") # {}
    /\ pc = "firmware" => wire.type = "GetPar"

LEMMA BaseGrows ==
  ASSUME entries \in Seq(Groups), NEW g \in 1..(Len(entries) + 1), NEW h \in 1..(Len(entries) + 1),
         g <= h
  PROVE  Base(g) <= Base(h)
<1> DEFINE T == {n \in Nat : g + n <= Len(entries) + 1 => Base(g) <= Base(g + n)}
<1>1. Len(entries) \in Nat
  OBVIOUS
<1>2. 0 \in T
  <2>1. g + 0 = g /\ Base(g) \in Nat
    BY BaseFacts
  <2> QED BY <2>1
<1>3. ASSUME NEW n \in Nat, n \in T PROVE n + 1 \in T
  <2> SUFFICES ASSUME g + (n + 1) <= Len(entries) + 1 PROVE Base(g) <= Base(g + (n + 1))
    OBVIOUS
  <2>1. PICK k \in 1..Len(entries) : k = g + n /\ k + 1 = g + (n + 1) /\ k <= Len(entries) + 1
    BY <1>1
  <2>2. Base(g) <= Base(k)
    BY <1>3, <2>1
  <2>3. Base(k + 1) = Base(k) + Len(entries[k].params) /\ Base(k) \in Nat /\ Base(g) \in Nat
    BY <1>1, <2>1, BaseFacts
  <2>4. Len(entries[k].params) \in Nat
    BY DEF Groups
  <2> QED BY <2>1, <2>2, <2>3, <2>4
<1> HIDE DEF T
<1>4. PICK n \in Nat : n = h - g
  OBVIOUS
<1>5. n \in T
  BY <1>2, <1>3, NatInd
<1>6. g + n = h /\ g + n <= Len(entries) + 1
  BY <1>1, <1>4
<1> QED BY <1>5, <1>6 DEF T

(* Every definition of a group has an index. *)
LEMMA Indexed ==
  ASSUME entries \in Seq(Groups), NEW group \in Range(entries), NEW def \in Range(group.params)
  PROVE  \E i \in 0..(Count - 1) : Definition(i) = def
<1>1. PICK g \in 1..Len(entries) : group = entries[g]
  BY DEF Range
<1>2. entries[g].params \in Seq(Param)
  <2>1. entries[g] \in Groups
    OBVIOUS
  <2> QED BY <2>1 DEF Groups
<1>3. PICK l \in 1..Len(entries[g].params) : def = entries[g].params[l]
  BY <1>1, <1>2 DEF Range
<1>4. PICK b \in Nat, m \in Nat : b = Base(g) /\ m = Len(entries[g].params) /\ Base(g + 1) = b + m
  BY <1>2, BaseFacts
<1>5. PICK i \in Nat : i = b + l - 1 /\ b <= i /\ i < b + m
  BY <1>2, <1>3, <1>4
<1>6. i < Count /\ Count \in Nat
  <2>1. /\ Count = Base(Len(entries) + 1) /\ Count \in Nat
        /\ g + 1 \in 1..(Len(entries) + 1) /\ Len(entries) + 1 \in 1..(Len(entries) + 1)
        /\ g + 1 <= Len(entries) + 1
    BY BaseFacts
  <2>2. Base(g + 1) <= Count
    BY <2>1, BaseGrows
  <2> QED BY <1>4, <1>5, <2>1, <2>2
<1>7. PICK x \in 1..Len(entries) : x = Group(i)
  BY <1>6, Located
<1>8. /\ Base(x) \in Nat /\ i = Base(x) + LocalId(i) /\ LocalId(i) \in Nat
      /\ LocalId(i) < Len(entries[x].params)
  BY <1>6, <1>7, Located
<1>9. Base(x) <= i /\ i < Base(x + 1)
  <2>1. Base(x + 1) = Base(x) + Len(entries[x].params)
    BY BaseFacts
  <2>2. Len(entries[x].params) \in Nat
    BY DEF Groups
  <2> QED BY <1>8, <2>1, <2>2
<1>10. \A y \in 1..(Len(entries) + 1) : Base(y) \in Nat
  BY BaseFacts
<1>11. ~(x < g)
  <2> SUFFICES ASSUME x < g PROVE FALSE
    OBVIOUS
  <2>1. x + 1 \in 1..(Len(entries) + 1) /\ g \in 1..(Len(entries) + 1) /\ x + 1 <= g
    OBVIOUS
  <2>2. Base(x + 1) <= Base(g)
    BY <2>1, BaseGrows
  <2>3. PICK n \in Nat : n = Base(x + 1)
    BY <1>10, <2>1
  <2>4. n <= b /\ b <= i /\ i < n
    BY <1>4, <1>5, <1>9, <2>2, <2>3
  <2> QED BY <2>4
<1>12. ~(g < x)
  <2> SUFFICES ASSUME g < x PROVE FALSE
    OBVIOUS
  <2>1. g + 1 \in 1..(Len(entries) + 1) /\ x \in 1..(Len(entries) + 1) /\ g + 1 <= x
    OBVIOUS
  <2>2. Base(g + 1) <= Base(x)
    BY <2>1, BaseGrows
  <2>3. PICK n \in Nat : n = Base(x)
    BY <1>10, <2>1
  <2>4. b + m <= n /\ n <= i /\ i < b + m
    BY <1>4, <1>5, <1>9, <2>2, <2>3
  <2> QED BY <2>4
<1>13. Group(i) = g
  BY <1>7, <1>11, <1>12
<1>14. LocalId(i) + 1 = l
  BY <1>4, <1>5, <1>13 DEF LocalId
<1>15. Definition(i) = def
  BY <1>3, <1>13, <1>14 DEF Definition
<1> QED BY <1>5, <1>6, <1>15

(* The two texts of the identity are found. *)
LEMMA CharsFound ==
  ASSUME entries \in Seq(Groups), known \in Learnt, Counted(known), Len(known.params) = Count,
         Count \in Nat, Describable, NEW name \in {"experiment", "firmware"}
  PROVE  Chars(name) # {}
<1>1. PICK group \in Range(entries) : \E def \in Range(group.params) : def.name = name /\ def.ty = "char"
  BY DEF Describable
<1>2. PICK def \in Range(group.params) : def.name = name /\ def.ty = "char"
  BY <1>1
<1>3. PICK i \in 0..(Count - 1) : Definition(i) = def
  BY Indexed
<1>4. PICK p \in Seq(Item) : p = known.params
  BY DEF Learnt
<1>5. PICK k \in 1..Len(p) : k - 1 = i
  <2>1. i + 1 \in 1..Len(p) /\ (i + 1) - 1 = i
    BY <1>4
  <2> QED BY <2>1
<1>6. p[k] = Entry(i)
  BY <1>4, <1>5 DEF Counted
<1>7. p[k].name = name /\ p[k].ty = "char"
  BY <1>2, <1>3, <1>6 DEF Entry
<1>8. p[k] \in Range(p)
  BY DEF Range
<1> QED BY <1>4, <1>7, <1>8 DEF Chars

LEMMA PageAccepted ==
  ASSUME DiscoveryInv, Describable, link = "up", pc = "params", wire.type # "request"
  PROVE  /\ PageSound
         /\ NoDuplicates(known.params \o Numbered(known.start, wire.params))
<1>1. /\ Conversation(pc, known, wire) /\ entries \in Seq(Groups) /\ Valid
      /\ Count \in Nat /\ known \in Learnt /\ Len(known.params) = known.start
  BY Talking
<1>2. PICK s \in Nat : s = known.start
  BY <1>1 DEF Learnt
<1>3. s < Count /\ known.count = Count /\ wire = GetParams(s)
  <2>1. /\ Counted(known) /\ known.start < Count
        /\ wire \in {Ask("GetParams", known.start, ""), GetParams(known.start)}
    BY <1>1 DEF Conversation
  <2>2. wire # Ask("GetParams", known.start, "")
    BY NotAsked
  <2> QED BY <1>2, <2>1, <2>2 DEF Counted
<1>4. PageEnd(s) > s
  <2>1. s \in 0..(Count - 1)
    BY <1>1, <1>3
  <2>2. FitsPage(Definition(s))
    BY <1>1, <2>1 DEF Valid
  <2> QED BY <1>1, <1>3, <2>2, PageAdvances
<1>5. PageEnd(s) \in s..Count
  <2>1. s <= Count
    BY <1>1, <1>3
  <2> QED BY <1>1, <2>1, PageEndIs
<1>6. PageEnd(s) # s /\ ~(s > Count)
  BY <1>1, <1>3, <1>4, <1>5
<1>7. wire.type = "GetParams"
  BY <1>3, <1>6 DEF GetParams
<1>8. PICK e \in Nat, r \in Seq(Item) :
         /\ e = PageEnd(s) /\ s <= e /\ e <= Count
         /\ wire.start = s /\ wire.next = e /\ Len(wire.params) = e - s
         /\ r = known.params \o Numbered(known.start, wire.params) /\ Len(r) = e
         /\ \A i \in 1..e : r[i] = Entry(i - 1)
  <2>1. PICK x, e \in Nat, r \in Seq(Item) :
         /\ x = known.start /\ e = PageEnd(x) /\ x <= e /\ e <= Count
         /\ wire.start = x /\ wire.next = e /\ Len(wire.params) = e - x
         /\ r = known.params \o Numbered(known.start, wire.params) /\ Len(r) = e
         /\ \A i \in 1..e : r[i] = Entry(i - 1)
    BY <1>7, PageJoined, Zenon
  <2>2. x = s
    BY <1>2, <2>1, Zenon
  <2> QED BY <2>1, <2>2, Zenon
<1>11. \A def \in Range(wire.params) : Readable(def)
  <2>1. wire.params = [k \in 1..(e - s) |-> Definition(s + k - 1)]
    BY <1>3, <1>6, <1>8 DEF GetParams
  <2>2. ASSUME NEW i \in Nat, i < Count PROVE Readable(Definition(i))
    <3>1. PICK g \in DOMAIN entries : g = Group(i)
      BY <1>1, <2>2, Located
    <3>2. PICK l \in Nat : l = LocalId(i) /\ l < Len(entries[g].params)
      BY <1>1, <2>2, <3>1, Located
    <3>3. entries[g] \in Range(entries) /\ entries[g].params \in Seq(Param)
      <4>1. entries[g] \in Groups /\ entries[g] \in Range(entries)
        BY <1>1, <3>1 DEF Range
      <4> QED BY <4>1 DEF Groups
    <3>4. l + 1 \in DOMAIN entries[g].params
      BY <3>2, <3>3
    <3>5. Definition(i) \in Range(entries[g].params)
      BY <3>1, <3>2, <3>4 DEF Definition, Range
    <3> QED BY <3>3, <3>5 DEF Describable
  <2>3. \A k \in 1..(e - s) : s + k - 1 \in Nat /\ s + k - 1 < Count
    BY <1>1, <1>8
  <2>4. \A k \in 1..(e - s) : Readable(Definition(s + k - 1))
    BY <2>2, <2>3
  <2> QED BY <2>1, <2>4 DEF Range
<1>9. PageSound
  BY <1>1, <1>2, <1>3, <1>4, <1>7, <1>8, <1>11 DEF PageSound
<1>10. NoDuplicates(r)
  <2>1. \A k \in DOMAIN r : k \in 1..e /\ k - 1 \in 0..(Count - 1) /\ r[k].name = Definition(k - 1).name
    <3>0. /\ Len(r) = e
          /\ \A i \in 1..e : r[i] = Entry(i - 1)
      BY <1>8, Zenon
    <3>1. DOMAIN r = 1..e
      BY <3>0
    <3>2. \A k \in 1..e : k - 1 \in 0..(Count - 1)
      BY <1>1, <1>8
    <3>3. \A k \in 1..e : r[k].name = Definition(k - 1).name
      BY <3>0 DEF Entry
    <3> QED BY <3>1, <3>2, <3>3
  <2>2. ASSUME NEW a \in DOMAIN r, NEW b \in DOMAIN r, r[a].name = r[b].name PROVE a = b
    <3>1. a - 1 = b - 1
      BY <1>1, <2>1, <2>2 DEF Valid, NamesUnique
    <3> QED BY <2>1, <3>1
  <2> QED BY <2>2 DEF NoDuplicates, IsInjective
<1> QED BY <1>8, <1>9, <1>10

LEMMA SourcesAccepted ==
  ASSUME DiscoveryInv, Describable, link = "up", pc = "sources", wire.type # "request"
  PROVE  SourcesSound
<1>1. Conversation(pc, known, wire) /\ Valid
  BY Talking
<1>2. wire = GetSources /\ known.n_sources = Len(firmware.sources) % 256
  <2>1. /\ wire \in {Ask("GetSources", 0, ""), GetSources}
        /\ known.n_sources = Len(firmware.sources) % 256
    BY <1>1 DEF Conversation
  <2>2. wire # Ask("GetSources", 0, "")
    BY NotAsked
  <2> QED BY <2>1, <2>2
<1>3. firmware.sources \in Seq(Names)
  BY DiscoveryAssumption DEF DiscoveryInv, Registry
<1>4. PICK l \in Nat : l = Len(firmware.sources)
  BY <1>3
<1>5. l <= 255 /\ l % 256 = l
  <2>1. l <= MaxSources
    BY <1>1, <1>4 DEF Valid, ValidSources
  <2>2. l <= 255
    BY <2>1, DiscoveryAssumption
  <2> QED BY <2>2
<1>6. PICK z : z = SourcesLen(firmware.sources)
  OBVIOUS
<1>7. z \in Nat
  <2>1. \A k \in DOMAIN firmware.sources : Width[firmware.sources[k]] + 2 \in Nat
    <3>1. \A k \in DOMAIN firmware.sources : firmware.sources[k] \in Names
      BY <1>3
    <3>2. \A name \in Names : Width[name] + 2 \in Nat
      BY DiscoveryAssumption
    <3> QED BY <3>1, <3>2
  <2>2. DOMAIN firmware.sources = 1..l
    BY <1>3, <1>4
  <2>3. PICK f : f = [k \in DOMAIN firmware.sources |-> Width[firmware.sources[k]] + 2]
    OBVIOUS
  <2>4. f \in Seq(Nat)
    BY <2>1, <2>2, <2>3, IsASeq
  <2>5. z = Total(f)
    BY <1>6, <2>3 DEF SourcesLen
  <2> QED BY <2>4, <2>5, TotalType
<1>8. z <= MaxPayload
  <2>1. z <= (MaxPayload * 3) \div 4
    BY <1>1, <1>6 DEF Valid, ValidSources
  <2>2. PICK m \in Nat : m = MaxPayload
    BY DiscoveryAssumption
  <2>3. (m * 3) \div 4 <= m /\ (m * 3) \div 4 \in Nat
    OBVIOUS
  <2> QED BY <1>7, <2>1, <2>2, <2>3
<1>9. wire = [type |-> "GetSources", sources |-> firmware.sources]
  <2>1. ~(SourcesLen(firmware.sources) > MaxPayload)
    BY <1>6, <1>7, <1>8, DiscoveryAssumption
  <2> QED BY <1>2, <2>1 DEF GetSources
<1>10. wire.type = "GetSources" /\ wire.sources = firmware.sources
  BY <1>9
<1>11. Range(wire.sources) \cap WithNul = {}
  BY <1>10 DEF Describable
<1> QED BY <1>2, <1>4, <1>5, <1>10, <1>11 DEF SourcesSound

(* A registry that passed ParamStore::validate, has no definition of count *)
(* 0, no NUL in a name or a source and the two identity texts is never     *)
(* refused by the broker: every page advances and is whole, no name is     *)
(* found twice, the sources fit their reply and their byte-wide count, and *)
(* the values it reads are there.  What can still end its discovery is a   *)
(* failure of the connection or of the device.                             *)
THEOREM DiscoveryNeverRefused == Spec => []RepliesAccepted
<1>1. DiscoveryInv => RepliesAccepted
  <2> SUFFICES ASSUME DiscoveryInv, Describable, link = "up", wire.type \notin {"none", "request"}
               PROVE  /\ pc = "status" => wire.type = "Status"
                      /\ pc = "params" =>
                            /\ PageSound
                            /\ wire.next = known.count =>
                                  NoDuplicates(known.params \o Numbered(known.start, wire.params))
                      /\ pc = "sources" => SourcesSound /\ Chars("experiment") # {}
                      /\ pc = "experiment" => wire.type = "GetPar" /\ Chars("firmware") # {}
                      /\ pc = "firmware" => wire.type = "GetPar"
    BY DEF RepliesAccepted
  <2>1. /\ wire.type # "request" /\ Conversation(pc, known, wire) /\ Count \in Nat
        /\ entries \in Seq(Groups) /\ known \in Learnt /\ Len(known.params) = known.start
    BY Talking
  <2>2. pc = "status" => wire.type = "Status"
    <3> SUFFICES ASSUME pc = "status" PROVE wire.type = "Status"
      OBVIOUS
    <3>1. wire \in {Ask("Status", 0, ""), Status}
      BY <2>1 DEF Conversation
    <3>2. wire # Ask("Status", 0, "")
      BY <2>1, NotAsked
    <3>3. wire = Status
      BY <3>1, <3>2
    <3> QED BY <3>3 DEF Status
  <2>3. ASSUME NEW name, ReadsBack(wire, name) PROVE wire.type = "GetPar"
    <3>1. PICK i \in 0..(Count - 1) : wire \in {Ask("GetPar", i, ""), GetPar(i)}
      BY <2>3 DEF ReadsBack
    <3>2. wire # Ask("GetPar", i, "")
      BY <2>1, NotAsked
    <3>3. ~(i >= Count)
      BY <2>1
    <3>4. wire = GetPar(i)
      BY <3>1, <3>2
    <3> QED BY <3>3, <3>4 DEF GetPar
  <2>4. pc \in {"experiment", "firmware"} => wire.type = "GetPar"
    BY <2>1, <2>3 DEF Conversation
  <2>5. pc \in {"sources", "experiment"} => Counted(known) /\ Len(known.params) = Count
    BY <2>1 DEF Conversation
  <2>6. pc \in {"sources", "experiment"} => Chars("experiment") # {} /\ Chars("firmware") # {}
    BY <2>1, <2>5, CharsFound
  <2> QED BY <2>1, <2>2, <2>4, <2>6, PageAccepted, SourcesAccepted
<1> QED BY <1>1, DiscoveryInvariance, PTL

=============================================================================
