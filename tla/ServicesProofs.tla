--------------------------- MODULE ServicesProofs ---------------------------
(***************************************************************************)
(* Proofs about six of the daemon's services.                              *)
(*                                                                         *)
(* The group cache, for all addresses, readers, contents and bounds: the   *)
(* array stays sorted, so that the binary search finds what is in it; the  *)
(* cache holds the last telegram of each address; and an answer that comes *)
(* while a Read waits is not lost.                                         *)
(*                                                                         *)
(* Clients that give addresses to devices: no two get the same.            *)
(*                                                                         *)
(* And what clients get, in order (Ordered): a program with an open        *)
(* connection stays in step with the daemon; a client of an endpoint gets  *)
(* each frame for it once; the parts of the daemon outlast who calls them; *)
(* a question on a configuration channel gets its own answer.              *)
(***************************************************************************)
EXTENDS GroupCache, Daemon, Addresses, NumberFacts, TLAPS

----------------------------------------------------------------------------
(* The group cache.                                                        *)

(* Entries of the array, sorted by address.                                *)
Record == [dst : Addr, val : Val \cup {None}, old : BOOLEAN]
Sorted(c) == \A i, j \in DOMAIN c : i < j => c[i].dst < c[j].dst

(* The stretches of a list that find looks at.                                 *)
Stretch(c) == (1 .. Len(c) + 1) \X (0 .. Len(c))

(* One turn of the loop of find, s being what the rest of the loop finds.      *)
Halve(c, dst, s, l, r) ==
  LET p == (l + r) \div 2 IN
  IF l > r THEN 0
  ELSE IF c[p].dst = dst THEN p
  ELSE IF dst > c[p].dst THEN s[<<p + 1, r>>] ELSE s[<<l, p - 1>>]

(* Where an address is in a stretch of the list.                               *)
PlaceOf(c, dst, l, r) ==
  IF \E p \in l .. r : c[p].dst = dst
  THEN CHOOSE p : p \in l .. r /\ c[p].dst = dst
  ELSE 0
Finds(c, dst) == [x \in Stretch(c) |-> PlaceOf(c, dst, x[1], x[2])]

(* The list as numbers. *)
LEMMA ListNumbers ==
  ASSUME NEW c \in Seq(Record), NEW dst \in Addr
  PROVE  /\ Len(c) \in Nat /\ DOMAIN c = 1 .. Len(c) /\ dst \in Nat
         /\ \A k \in 1 .. Len(c) : c[k] \in Record /\ c[k].dst \in Addr /\ c[k].dst \in Nat
<1>1. Len(c) \in Nat /\ DOMAIN c = 1 .. Len(c) /\ \A k \in 1 .. Len(c) : c[k] \in Record
  OBVIOUS
<1>2. \A x \in Record : x.dst \in Addr
  BY DEF Record
<1> QED
  BY <1>1, <1>2, AddrAssumption

(* What is in a stretch of a sorted list can be found by halving it, ...       *)
LEMMA AtHalves ==
  ASSUME NEW c \in Seq(Record), Sorted(c), NEW dst \in Addr,
         NEW l \in 1 .. Len(c) + 1, NEW r \in 0 .. Len(c)
  PROVE  PlaceOf(c, dst, l, r) = Halve(c, dst, Finds(c, dst), l, r)
<1> DEFINE N == Len(c)
           p == (l + r) \div 2
<1>1. /\ N \in Nat /\ dst \in Nat /\ \A k \in 1 .. N : c[k].dst \in Nat
      /\ \A i, j \in 1 .. N : i < j => c[i].dst < c[j].dst
  BY ListNumbers DEF Sorted
<1>2. l \in 1 .. N + 1 /\ r \in 0 .. N
  OBVIOUS
<1>3. \A k \in 1 .. N + 1, q \in 0 .. N : Finds(c, dst)[<<k, q>>] = PlaceOf(c, dst, k, q)
  BY DEF Finds, Stretch
<1> HIDE DEF N
<1>4. CASE l > r
  <2>1. l .. r = {}
    BY <1>1, <1>2, <1>4
  <2> QED
    BY <1>4, <2>1 DEF Halve, PlaceOf
<1>5. CASE ~(l > r)
  <2>1. p \in 1 .. N /\ l <= p /\ p <= r /\ p \in l .. r
    BY <1>1, <1>2, <1>5
  <2>2. Halve(c, dst, Finds(c, dst), l, r) =
          IF c[p].dst = dst THEN p
          ELSE IF dst > c[p].dst THEN Finds(c, dst)[<<p + 1, r>>] ELSE Finds(c, dst)[<<l, p - 1>>]
    BY <1>5 DEF Halve
  <2> HIDE DEF p
  <2>3. \A q \in l .. r : q \in 1 .. N /\ q \in Nat
    BY <1>1, <1>2
  <2>4. CASE c[p].dst = dst
    <3>1. \A q \in l .. r : c[q].dst = dst => q = p
      BY <1>1, <2>1, <2>3, <2>4
    <3>2. (CHOOSE q : q \in l .. r /\ c[q].dst = dst) = p
      BY <2>1, <2>4, <3>1
    <3> QED
      BY <2>1, <2>2, <2>4, <3>2 DEF PlaceOf
  <2>5. CASE dst > c[p].dst
    <3>1. p + 1 \in 1 .. N + 1 /\ r \in 0 .. N
      BY <1>1, <1>2, <2>1
    <3>2. \A q : (q \in l .. r /\ c[q].dst = dst) <=> (q \in p + 1 .. r /\ c[q].dst = dst)
      <4>1. ASSUME NEW q \in l .. r, c[q].dst = dst PROVE q \in p + 1 .. r
        <5>1. q \in 1 .. N /\ q \in Nat /\ p \in Nat /\ c[q].dst > c[p].dst
          BY <1>1, <2>1, <2>3, <2>5, <4>1
        <5>2. ~(q < p) /\ q # p
          BY <1>1, <2>1, <5>1
        <5> QED
          BY <1>2, <5>1, <5>2
      <4>2. \A q \in p + 1 .. r : q \in l .. r
        BY <1>2, <2>1
      <4> QED
        BY <4>1, <4>2
    <3>3. PlaceOf(c, dst, l, r) = PlaceOf(c, dst, p + 1, r)
      <4>1. (CHOOSE q : q \in l .. r /\ c[q].dst = dst)
              = (CHOOSE q : q \in p + 1 .. r /\ c[q].dst = dst)
        BY <3>2
      <4>2. (\E q \in l .. r : c[q].dst = dst) <=> (\E q \in p + 1 .. r : c[q].dst = dst)
        BY <3>2
      <4> QED
        BY <4>1, <4>2 DEF PlaceOf
    <3>4. c[p].dst # dst
      BY <1>1, <2>1, <2>5
    <3> QED
      BY <2>2, <2>5, <3>1, <3>3, <3>4, <1>3
  <2>6. CASE dst < c[p].dst
    <3>1. l \in 1 .. N + 1 /\ p - 1 \in 0 .. N
      BY <1>1, <1>2, <2>1
    <3>2. \A q : (q \in l .. r /\ c[q].dst = dst) <=> (q \in l .. p - 1 /\ c[q].dst = dst)
      <4>1. ASSUME NEW q \in l .. r, c[q].dst = dst PROVE q \in l .. p - 1
        BY <1>1, <1>2, <2>1, <2>3, <2>6, <4>1
      <4>2. \A q \in l .. p - 1 : q \in l .. r
        BY <1>2, <2>1
      <4> QED
        BY <4>1, <4>2
    <3>3. PlaceOf(c, dst, l, r) = PlaceOf(c, dst, l, p - 1)
      <4>1. (CHOOSE q : q \in l .. r /\ c[q].dst = dst)
              = (CHOOSE q : q \in l .. p - 1 /\ c[q].dst = dst)
        BY <3>2
      <4>2. (\E q \in l .. r : c[q].dst = dst) <=> (\E q \in l .. p - 1 : c[q].dst = dst)
        BY <3>2
      <4> QED
        BY <4>1, <4>2 DEF PlaceOf
    <3>4. c[p].dst # dst /\ ~(dst > c[p].dst)
      BY <1>1, <2>1, <2>6
    <3> QED
      BY <2>2, <3>1, <3>3, <3>4, <1>3
  <2>7. c[p].dst = dst \/ dst > c[p].dst \/ dst < c[p].dst
    BY <1>1, <2>1
  <2> QED
    BY <2>4, <2>5, <2>6, <2>7
<1> QED
  BY <1>4, <1>5

(* ... and whatever is found by halving is that: the shortest stretch where    *)
(* they differed would be one where the next turn finds the same.              *)
LEMMA HalvingFinds ==
  ASSUME NEW c \in Seq(Record), Sorted(c), NEW dst \in Addr, NEW s,
         \A l \in 1 .. Len(c) + 1, r \in 0 .. Len(c) : s[<<l, r>>] = Halve(c, dst, s, l, r)
  PROVE  \A l \in 1 .. Len(c) + 1, r \in 0 .. Len(c) : s[<<l, r>>] = PlaceOf(c, dst, l, r)
<1> DEFINE N == Len(c)
           g == Finds(c, dst)
           Long(l, r) == IF l > r THEN 0 ELSE r - l + 1
           A == {n \in Nat : \E l \in 1 .. N + 1, r \in 0 .. N :
                                n = Long(l, r) /\ s[<<l, r>>] # PlaceOf(c, dst, l, r)}
<1>1. N \in Nat
  OBVIOUS
<1>2. \A l \in 1 .. N + 1, r \in 0 .. N :
        /\ PlaceOf(c, dst, l, r) = Halve(c, dst, g, l, r)
        /\ g[<<l, r>>] = PlaceOf(c, dst, l, r)
  BY AtHalves DEF Finds, Stretch
<1>3. \A l \in 1 .. N + 1, r \in 0 .. N : s[<<l, r>>] = Halve(c, dst, s, l, r)
  OBVIOUS
<1> HIDE DEF N, g
<1>4. \A l \in 1 .. N + 1, r \in 0 .. N : l \in Int /\ r \in Int /\ Long(l, r) \in Nat
  <2> SUFFICES ASSUME NEW l \in 1 .. N + 1, NEW r \in 0 .. N
               PROVE  l \in Int /\ r \in Int /\ Long(l, r) \in Nat
    OBVIOUS
  <2> QED
    BY <1>1
<1>5. SUFFICES ASSUME A # {} PROVE FALSE
  <2>1. A = {} => \A l \in 1 .. N + 1, r \in 0 .. N : s[<<l, r>>] = PlaceOf(c, dst, l, r)
    BY <1>4
  <2> QED
    BY <2>1 DEF N
<1>6. PICK m \in A : \A n \in A : m <= n
  <2>1. A \in SUBSET Nat
    OBVIOUS
  <2> HIDE DEF A
  <2> QED
    BY <1>5, <2>1, LeastNatural
<1>7. PICK l \in 1 .. N + 1, r \in 0 .. N : m = Long(l, r) /\ s[<<l, r>>] # PlaceOf(c, dst, l, r)
  BY <1>6
<1>8. ASSUME NEW k \in 1 .. N + 1, NEW q \in 0 .. N, Long(k, q) < m
      PROVE  s[<<k, q>>] = g[<<k, q>>]
  <2>1. Long(k, q) \in Nat /\ m \in Nat
    BY <1>4, <1>6
  <2>2. Long(k, q) \notin A
    <3> DEFINE x == Long(k, q)
    <3>1. x \in Nat /\ x < m
      BY <1>8, <2>1
    <3> HIDE DEF x, A
    <3>2. x \in A => m <= x
      BY <1>6
    <3> QED
      BY <2>1, <3>1, <3>2 DEF x
  <2>3. s[<<k, q>>] = PlaceOf(c, dst, k, q)
    BY <2>1, <2>2
  <2> QED
    BY <2>3, <1>2
<1> HIDE DEF A
<1>9. CASE l > r
  <2>1. Halve(c, dst, s, l, r) = Halve(c, dst, g, l, r)
    BY <1>9 DEF Halve
  <2> QED
    BY <1>2, <1>3, <1>7, <2>1
<1>10. CASE ~(l > r)
  <2> DEFINE p == (l + r) \div 2
  <2>1. p \in 1 .. N /\ l <= p /\ p <= r /\ m = r - l + 1 /\ l \in Nat /\ r \in Nat
    BY <1>1, <1>7, <1>10
  <2>2. Halve(c, dst, s, l, r) =
          IF c[p].dst = dst THEN p
          ELSE IF dst > c[p].dst THEN s[<<p + 1, r>>] ELSE s[<<l, p - 1>>]
    BY <1>10 DEF Halve
  <2>3. Halve(c, dst, g, l, r) =
          IF c[p].dst = dst THEN p
          ELSE IF dst > c[p].dst THEN g[<<p + 1, r>>] ELSE g[<<l, p - 1>>]
    BY <1>10 DEF Halve
  <2> HIDE DEF p
  <2>4. p + 1 \in 1 .. N + 1 /\ p - 1 \in 0 .. N /\ Long(p + 1, r) < m /\ Long(l, p - 1) < m
    BY <1>1, <2>1, SMTT(30)
  <2>5. s[<<p + 1, r>>] = g[<<p + 1, r>>]
    BY <2>4, <1>8
  <2>6. s[<<l, p - 1>>] = g[<<l, p - 1>>]
    BY <2>4, <1>8
  <2>7. Halve(c, dst, s, l, r) = Halve(c, dst, g, l, r)
    BY <2>2, <2>3, <2>5, <2>6
  <2> QED
    BY <1>2, <1>3, <1>7, <2>7
<1> QED
  BY <1>9, <1>10

(* find: the binary search finds the entry of an address if there is one.      *)
LEMMA SearchFinds ==
  ASSUME NEW c \in Seq(Record), Sorted(c), NEW dst \in Addr
  PROVE  /\ Search(c, dst) \in 0 .. Len(c)
         /\ Search(c, dst) = 0 => \A i \in DOMAIN c : c[i].dst # dst
         /\ Search(c, dst) # 0 => Search(c, dst) \in DOMAIN c /\ c[Search(c, dst)].dst = dst
<1> DEFINE N == Len(c)
           P(s) == s = [x \in Stretch(c) |-> Halve(c, dst, s, x[1], x[2])]
           s0 == CHOOSE s : P(s)
<1>1. Search(c, dst) = s0[<<1, N>>]
  BY DEF Search, Halve, Stretch
<1>2. P(Finds(c, dst))
  <2>1. \A x \in Stretch(c) :
          PlaceOf(c, dst, x[1], x[2]) = Halve(c, dst, Finds(c, dst), x[1], x[2])
    BY AtHalves DEF Stretch
  <2> QED
    BY <2>1 DEF Finds
<1>3. P(s0)
  <2> HIDE DEF P
  <2> QED
    BY <1>2
<1>4. N \in Nat /\ DOMAIN c = 1 .. N /\ 1 \in 1 .. N + 1 /\ N \in 0 .. N
  OBVIOUS
<1>5. \A l \in 1 .. Len(c) + 1, r \in 0 .. Len(c) : s0[<<l, r>>] = Halve(c, dst, s0, l, r)
  <2> HIDE DEF s0
  <2> SUFFICES ASSUME NEW l \in 1 .. Len(c) + 1, NEW r \in 0 .. Len(c)
               PROVE  s0[<<l, r>>] = Halve(c, dst, s0, l, r)
    OBVIOUS
  <2>1. <<l, r>> \in Stretch(c) /\ <<l, r>>[1] = l /\ <<l, r>>[2] = r
    BY DEF Stretch
  <2> QED
    BY <1>3, <2>1
<1>6. s0[<<1, N>>] = PlaceOf(c, dst, 1, N)
  <2> HIDE DEF s0
  <2> QED
    BY <1>4, <1>5, HalvingFinds
<1> HIDE DEF s0, N
<1>7. CASE \E p \in 1 .. N : c[p].dst = dst
  <2>1. /\ (CHOOSE p : p \in 1 .. N /\ c[p].dst = dst) \in 1 .. N
        /\ c[CHOOSE p : p \in 1 .. N /\ c[p].dst = dst].dst = dst
    BY <1>7
  <2>2. Search(c, dst) \in 1 .. N /\ c[Search(c, dst)].dst = dst
    BY <1>1, <1>6, <1>7, <2>1 DEF PlaceOf
  <2>3. Search(c, dst) # 0 /\ Search(c, dst) \in 0 .. N
    BY <1>4, <2>2
  <2> QED
    BY <1>4, <2>2, <2>3 DEF N
<1>8. CASE ~ \E p \in 1 .. N : c[p].dst = dst
  <2>1. Search(c, dst) = 0
    BY <1>1, <1>6, <1>8 DEF PlaceOf
  <2>2. 0 \in 0 .. N
    BY <1>4
  <2> QED
    BY <1>4, <1>8, <2>1, <2>2 DEF N
<1> QED
  BY <1>7, <1>8

----------------------------------------------------------------------------
(* The array as the set of its entries. *)
Entries(c) == {c[k] : k \in DOMAIN c}

(* c has the entry e in place of any other of its address. *)
With(c, e, d) == \A x : x \in Entries(d) <=> x = e \/ (x \in Entries(c) /\ x.dst # e.dst)

(* add: there is a place behind the entries that are not greater. *)
LEMMA PlaceExists ==
  ASSUME NEW c \in Seq(Record), NEW dst \in Addr
  PROVE  /\ SlotFor(c, dst) \in 0 .. Len(c)
         /\ SlotFor(c, dst) > 0 => c[SlotFor(c, dst)].dst <= dst
         /\ \A k \in SlotFor(c, dst) + 1 .. Len(c) : c[k].dst > dst
<1> DEFINE N == Len(c)
           A == {n \in 0 .. N : \A k \in n + 1 .. N : c[k].dst > dst}
<1>1. N \in Nat /\ dst \in Nat /\ \A k \in 1 .. N : c[k].dst \in Nat
  BY ListNumbers
<1> HIDE DEF N
<1>2. N \in A /\ A \in SUBSET Nat
  BY <1>1
<1>3. PICK m \in A : \A n \in A : m <= n
  <2> HIDE DEF A
  <2> QED
    BY <1>2, LeastNatural
<1>4. m \in 0 .. N /\ \A k \in m + 1 .. N : c[k].dst > dst
  BY <1>3
<1>5. ASSUME m > 0, ~(c[m].dst <= dst) PROVE FALSE
  <2>1. m - 1 \in 0 .. N /\ m \in 1 .. N /\ c[m].dst > dst
    BY <1>1, <1>4, <1>5
  <2>2. \A k \in (m - 1) + 1 .. N : k = m \/ k \in m + 1 .. N
    BY <1>1, <1>4
  <2>3. \A k \in (m - 1) + 1 .. N : c[k].dst > dst
    BY <1>4, <2>1, <2>2
  <2>4. m - 1 \in A
    BY <2>1, <2>3
  <2> HIDE DEF A
  <2> QED
    BY <1>3, <1>4, <2>4, <1>1
<1>6. \E n \in 0 .. N : /\ n > 0 => c[n].dst <= dst
                        /\ \A k \in n + 1 .. N : c[k].dst > dst
  BY <1>4, <1>5
<1> QED
  BY <1>6 DEF SlotFor, N

(* Concatenation, element by element. *)
LEMMA Joined ==
  ASSUME NEW S, NEW a \in Seq(S), NEW b \in Seq(S)
  PROVE  /\ a \o b \in Seq(S) /\ Len(a \o b) = Len(a) + Len(b)
         /\ DOMAIN (a \o b) = 1 .. Len(a) + Len(b)
         /\ \A k \in 1 .. Len(a) : (a \o b)[k] = a[k]
         /\ \A k \in Len(a) + 1 .. Len(a) + Len(b) : (a \o b)[k] = b[k - Len(a)]
OBVIOUS

(* add puts a new address into its place. *)
LEMMA AddKeeps ==
  ASSUME NEW c \in Seq(Record), Sorted(c), NEW e \in Record,
         \A i \in DOMAIN c : c[i].dst # e.dst
  PROVE  /\ Add(c, e) \in Seq(Record)
         /\ Sorted(Add(c, e))
         /\ With(c, e, Add(c, e))
<1> DEFINE N == Len(c)
           n == SlotFor(c, e.dst)
           d == Add(c, e)
<1>1. /\ N \in Nat /\ DOMAIN c = 1 .. N /\ e.dst \in Addr /\ e.dst \in Nat
      /\ \A k \in 1 .. N : c[k] \in Record /\ c[k].dst \in Nat
  BY ListNumbers DEF Record
<1>2. /\ n \in 0 .. N
      /\ n > 0 => c[n].dst <= e.dst
      /\ \A k \in n + 1 .. N : c[k].dst > e.dst
  BY <1>1, PlaceExists
<1>3. /\ d \in Seq(Record) /\ Len(d) = N + 1 /\ DOMAIN d = 1 .. N + 1
      /\ \A k \in 1 .. n : d[k] = c[k]
      /\ d[n + 1] = e
      /\ \A k \in n + 2 .. N + 1 : d[k] = c[k - 1]
  <2> DEFINE a == SubSeq(c, 1, n)
             b == SubSeq(c, n + 1, N)
  <2>1. d = a \o <<e>> \o b
    BY DEF Add
  <2>2. /\ a \in Seq(Record) /\ Len(a) = n /\ \A k \in 1 .. n : a[k] = c[k]
    BY <1>1, <1>2
  <2>3. /\ b \in Seq(Record) /\ Len(b) = N - n /\ \A k \in 1 .. N - n : b[k] = c[n + k]
    BY <1>1, <1>2
  <2> HIDE DEF a, b, n, N
  <2>4. /\ a \o <<e>> \in Seq(Record) /\ Len(a \o <<e>>) = n + 1
        /\ (a \o <<e>>)[n + 1] = e /\ \A k \in 1 .. n : (a \o <<e>>)[k] = c[k]
    BY <1>2, <2>2
  <2> DEFINE f == a \o <<e>>
  <2>5. d = f \o b
    BY <2>1
  <2>6. /\ f \in Seq(Record) /\ Len(f) = n + 1 /\ f[n + 1] = e
        /\ \A k \in 1 .. n : f[k] = c[k]
    BY <2>4
  <2> HIDE DEF f
  <2>7. /\ f \o b \in Seq(Record) /\ Len(f \o b) = n + 1 + (N - n)
        /\ \A k \in 1 .. n + 1 : (f \o b)[k] = f[k]
        /\ \A k \in n + 2 .. N + 1 : (f \o b)[k] = b[k - (n + 1)]
        /\ DOMAIN (f \o b) = 1 .. n + 1 + (N - n)
    <3>1. /\ f \o b \in Seq(Record) /\ Len(f \o b) = Len(f) + Len(b)
          /\ DOMAIN (f \o b) = 1 .. Len(f) + Len(b)
          /\ \A k \in 1 .. Len(f) : (f \o b)[k] = f[k]
          /\ \A k \in Len(f) + 1 .. Len(f) + Len(b) : (f \o b)[k] = b[k - Len(f)]
      <4>1. f \in Seq(Record) /\ b \in Seq(Record)
        BY <2>3, <2>6
      <4> QED
        BY <4>1, Joined
    <3>2. \A k \in n + 2 .. N + 1 : k \in n + 1 + 1 .. n + 1 + (N - n)
      BY <1>1, <1>2
    <3> QED
      BY <2>3, <2>6, <3>1, <3>2
  <2>8. \A k \in n + 2 .. N + 1 : k - (n + 1) \in 1 .. N - n /\ n + (k - (n + 1)) = k - 1
    BY <1>1, <1>2
  <2>9. \A k \in n + 2 .. N + 1 : b[k - (n + 1)] = c[k - 1]
    BY <2>3, <2>8
  <2>10. /\ n + 1 + (N - n) = N + 1 /\ n + 1 \in 1 .. n + 1
         /\ \A k \in 1 .. n : k \in 1 .. n + 1
    BY <1>1, <1>2
  <2>11. /\ f \o b \in Seq(Record) /\ Len(f \o b) = N + 1 /\ DOMAIN (f \o b) = 1 .. N + 1
    BY <2>7, <2>10
  <2>12. /\ \A k \in 1 .. n : (f \o b)[k] = c[k]
         /\ (f \o b)[n + 1] = e
         /\ \A k \in n + 2 .. N + 1 : (f \o b)[k] = c[k - 1]
    BY <2>6, <2>7, <2>9, <2>10
  <2> HIDE DEF d
  <2> QED
    BY <2>5, <2>11, <2>12
<1> HIDE DEF N, n, d
<1>4. \A i, j \in 1 .. N : i < j => c[i].dst < c[j].dst
  BY <1>1 DEF Sorted
<1>5. /\ \A k \in 1 .. n : k \in 1 .. N /\ d[k] = c[k] /\ c[k].dst < e.dst
      /\ \A k \in n + 2 .. N + 1 :
           k - 1 \in 1 .. N /\ d[k] = c[k - 1] /\ c[k - 1].dst > e.dst
  <2>1. ASSUME NEW k \in 1 .. n PROVE k \in 1 .. N /\ d[k] = c[k] /\ c[k].dst < e.dst
    <3>1. k \in 1 .. N /\ n \in 1 .. N /\ k <= n /\ n > 0
      BY <1>1, <1>2
    <3>2. c[n].dst < e.dst
      BY <1>1, <1>2, <3>1
    <3>3. c[k].dst < e.dst
      BY <1>1, <1>4, <3>1, <3>2
    <3> QED
      BY <1>3, <3>1, <3>3
  <2>2. ASSUME NEW k \in n + 2 .. N + 1
        PROVE  k - 1 \in 1 .. N /\ d[k] = c[k - 1] /\ c[k - 1].dst > e.dst
    <3>1. k - 1 \in 1 .. N /\ k - 1 \in n + 1 .. N
      BY <1>1, <1>2
    <3> QED
      BY <1>2, <1>3, <3>1
  <2> QED
    BY <2>1, <2>2
<1>6. \A k \in 1 .. N + 1 : k \in 1 .. n \/ k = n + 1 \/ k \in n + 2 .. N + 1
  BY <1>1, <1>2
<1>7. Sorted(d)
  <2> SUFFICES ASSUME NEW i \in 1 .. N + 1, NEW j \in 1 .. N + 1, i < j
               PROVE  d[i].dst < d[j].dst
    BY <1>3 DEF Sorted
  <2>1. CASE j \in 1 .. n
    <3>1. i \in 1 .. n
      BY <1>1, <1>2, <2>1
    <3> QED
      BY <2>1, <3>1, <1>4, <1>5
  <2>2. CASE j = n + 1
    <3>1. i \in 1 .. n
      BY <1>1, <1>2, <2>2
    <3> QED
      BY <2>2, <3>1, <1>3, <1>5
  <2>3. CASE j \in n + 2 .. N + 1
    <3>1. CASE i \in 1 .. n
      BY <1>1, <1>5, <2>3, <3>1
    <3>2. CASE i = n + 1
      BY <1>3, <1>5, <2>3, <3>2
    <3>3. CASE i \in n + 2 .. N + 1
      <4>1. i - 1 < j - 1
        BY <1>1, <1>2
      <4> QED
        BY <1>4, <1>5, <2>3, <3>3, <4>1
    <3> QED
      BY <1>6, <3>1, <3>2, <3>3
  <2> QED
    BY <1>6, <2>1, <2>2, <2>3
<1>8. With(c, e, d)
  <2>1. ASSUME NEW k \in 1 .. N + 1
        PROVE  d[k] = e \/ (d[k] \in Entries(c) /\ d[k].dst # e.dst)
    <3>1. CASE k \in 1 .. n
      BY <3>1, <1>1, <1>5 DEF Entries
    <3>2. CASE k = n + 1
      BY <3>2, <1>3
    <3>3. CASE k \in n + 2 .. N + 1
      BY <3>3, <1>1, <1>5 DEF Entries
    <3> QED
      BY <1>6, <3>1, <3>2, <3>3
  <2>2. e \in Entries(d)
    <3>1. n + 1 \in 1 .. N + 1
      BY <1>1, <1>2
    <3> QED
      BY <3>1, <1>3 DEF Entries
  <2>3. ASSUME NEW k \in 1 .. N PROVE c[k] \in Entries(d)
    <3>1. CASE k \in 1 .. n
      <4>1. k \in 1 .. N + 1
        BY <1>1
      <4> QED
        BY <3>1, <4>1, <1>3 DEF Entries
    <3>2. CASE ~(k \in 1 .. n)
      <4>1. k + 1 \in n + 2 .. N + 1 /\ (k + 1) - 1 = k /\ k + 1 \in 1 .. N + 1
        BY <3>2, <1>1, <1>2
      <4>2. d[k + 1] = c[k]
        BY <4>1, <1>3
      <4> QED
        BY <4>1, <4>2, <1>3 DEF Entries
    <3> QED
      BY <3>1, <3>2
  <2> QED
    BY <1>1, <1>3, <2>1, <2>2, <2>3 DEF With, Entries
<1> QED
  BY <1>3, <1>7, <1>8 DEF d

(* Overwriting an entry keeps its place. *)
LEMMA PutKeeps ==
  ASSUME NEW c \in Seq(Record), Sorted(c), NEW i \in DOMAIN c, NEW e \in Record,
         c[i].dst = e.dst
  PROVE  /\ [c EXCEPT ![i] = e] \in Seq(Record)
         /\ Sorted([c EXCEPT ![i] = e])
         /\ With(c, e, [c EXCEPT ![i] = e])
<1> DEFINE d == [c EXCEPT ![i] = e]
<1>1. /\ d \in Seq(Record) /\ DOMAIN d = DOMAIN c /\ d[i] = e
      /\ \A k \in DOMAIN c : k # i => d[k] = c[k]
  OBVIOUS
<1> HIDE DEF d
<1>2. \A k \in DOMAIN c : d[k].dst = c[k].dst
  BY <1>1
<1>3. Sorted(d)
  BY <1>1, <1>2 DEF Sorted
<1>4. \A k \in DOMAIN c : k # i => c[k].dst # e.dst
  <2> SUFFICES ASSUME NEW k \in DOMAIN c, k # i PROVE c[k].dst # c[i].dst
    OBVIOUS
  <2>1. k < i \/ i < k
    BY ListNumbers
  <2>2. c[k].dst < c[i].dst \/ c[i].dst < c[k].dst
    BY <2>1 DEF Sorted
  <2>3. c[k].dst \in Nat /\ c[i].dst \in Nat
    BY ListNumbers, AddrAssumption DEF Record
  <2> QED
    BY <2>2, <2>3
<1>5. With(c, e, d)
  BY <1>1, <1>4 DEF With, Entries
<1> QED
  BY <1>1, <1>3, <1>5 DEF d

(* deletepart of one entry. *)
LEMMA CutKeeps ==
  ASSUME NEW c \in Seq(Record), Sorted(c), NEW i \in DOMAIN c
  PROVE  LET d == SubSeq(c, 1, i - 1) \o SubSeq(c, i + 1, Len(c))
         IN  /\ d \in Seq(Record)
             /\ Sorted(d)
             /\ \A x : x \in Entries(d) <=> x \in Entries(c) /\ x.dst # c[i].dst
<1> DEFINE N == Len(c)
           a == SubSeq(c, 1, i - 1)
           b == SubSeq(c, i + 1, N)
           d == a \o b
<1>1. /\ N \in Nat /\ DOMAIN c = 1 .. N /\ i \in 1 .. N
      /\ \A k \in 1 .. N : c[k] \in Record /\ c[k].dst \in Nat
  <2>1. Len(c) \in Nat /\ DOMAIN c = 1 .. Len(c) /\ \A k \in 1 .. Len(c) : c[k] \in Record
    OBVIOUS
  <2>2. \A x \in Record : x.dst \in Nat
    BY AddrAssumption DEF Record
  <2> QED
    BY <2>1, <2>2
<1>2. /\ a \in Seq(Record) /\ Len(a) = i - 1 /\ \A k \in 1 .. i - 1 : a[k] = c[k]
  BY <1>1
<1>3. /\ b \in Seq(Record) /\ Len(b) = N - i /\ \A k \in 1 .. N - i : b[k] = c[i + k]
  BY <1>1
<1> HIDE DEF a, b, N
<1>4. /\ d \in Seq(Record) /\ Len(d) = N - 1 /\ DOMAIN d = 1 .. N - 1
      /\ \A k \in 1 .. i - 1 : d[k] = c[k]
      /\ \A k \in i .. N - 1 : d[k] = c[k + 1]
  <2>1. /\ d \in Seq(Record) /\ Len(d) = (i - 1) + (N - i)
        /\ \A k \in 1 .. i - 1 : d[k] = a[k]
        /\ \A k \in i .. N - 1 : d[k] = b[k - (i - 1)]
        /\ DOMAIN d = 1 .. (i - 1) + (N - i)
    <3>1. /\ d \in Seq(Record) /\ Len(d) = Len(a) + Len(b)
          /\ DOMAIN d = 1 .. Len(a) + Len(b)
          /\ \A k \in 1 .. Len(a) : d[k] = a[k]
          /\ \A k \in Len(a) + 1 .. Len(a) + Len(b) : d[k] = b[k - Len(a)]
      BY <1>2, <1>3, Joined
    <3>2. \A k \in i .. N - 1 : k \in (i - 1) + 1 .. (i - 1) + (N - i)
      BY <1>1
    <3> QED
      BY <1>2, <1>3, <3>1, <3>2
  <2>2. \A k \in i .. N - 1 : k - (i - 1) \in 1 .. N - i /\ i + (k - (i - 1)) = k + 1
    BY <1>1
  <2>3. (i - 1) + (N - i) = N - 1
    BY <1>1
  <2> HIDE DEF d
  <2> QED
    BY <1>2, <1>3, <2>1, <2>2, <2>3
<1> HIDE DEF d
<1>5. \A k \in 1 .. N - 1 : k \in 1 .. N /\ k + 1 \in 1 .. N /\ (k \in 1 .. i - 1 \/ k \in i .. N - 1)
  BY <1>1
<1>6. \A p, q \in 1 .. N : p < q => c[p].dst < c[q].dst
  BY <1>1 DEF Sorted
<1>7. Sorted(d)
  <2> SUFFICES ASSUME NEW p \in 1 .. N - 1, NEW q \in 1 .. N - 1, p < q
               PROVE  d[p].dst < d[q].dst
    BY <1>4 DEF Sorted
  <2>1. CASE q \in 1 .. i - 1
    <3>1. p \in 1 .. i - 1
      BY <1>1, <2>1
    <3> QED
      BY <2>1, <3>1, <1>4, <1>5, <1>6
  <2>2. CASE p \in 1 .. i - 1 /\ q \in i .. N - 1
    <3>1. p < q + 1 /\ q + 1 \in 1 .. N /\ p \in 1 .. N
      BY <1>1, <1>5
    <3> QED
      BY <2>2, <3>1, <1>4, <1>6
  <2>3. CASE p \in i .. N - 1 /\ q \in i .. N - 1
    <3>1. p + 1 < q + 1 /\ q + 1 \in 1 .. N /\ p + 1 \in 1 .. N
      BY <1>1, <1>5
    <3> QED
      BY <2>3, <3>1, <1>4, <1>6
  <2> QED
    BY <1>5, <2>1, <2>2, <2>3
<1>8. \A k \in 1 .. N : k # i => c[k].dst # c[i].dst
  <2> SUFFICES ASSUME NEW k \in 1 .. N, k # i PROVE c[k].dst # c[i].dst
    OBVIOUS
  <2>1. k < i \/ i < k
    BY <1>1
  <2> QED
    BY <2>1, <1>1, <1>6
<1>9. \A x : x \in Entries(d) <=> x \in Entries(c) /\ x.dst # c[i].dst
  <2>1. ASSUME NEW k \in 1 .. N - 1 PROVE d[k] \in Entries(c) /\ d[k].dst # c[i].dst
    <3>1. CASE k \in 1 .. i - 1
      <4>1. k # i /\ k \in 1 .. N
        BY <3>1, <1>1
      <4> QED
        BY <3>1, <4>1, <1>1, <1>4, <1>8 DEF Entries
    <3>2. CASE k \in i .. N - 1
      <4>1. k + 1 # i /\ k + 1 \in 1 .. N
        BY <3>2, <1>1
      <4> QED
        BY <3>2, <4>1, <1>1, <1>4, <1>8 DEF Entries
    <3> QED
      BY <1>5, <3>1, <3>2
  <2>2. ASSUME NEW k \in 1 .. N, k # i PROVE c[k] \in Entries(d)
    <3>1. CASE k < i
      <4>1. k \in 1 .. i - 1 /\ k \in 1 .. N - 1
        BY <3>1, <1>1
      <4> QED
        BY <4>1, <1>4 DEF Entries
    <3>2. CASE k > i
      <4>1. k - 1 \in i .. N - 1 /\ k - 1 \in 1 .. N - 1 /\ (k - 1) + 1 = k
        BY <3>2, <1>1
      <4>2. d[k - 1] = c[k]
        BY <4>1, <1>4
      <4> QED
        BY <4>1, <4>2, <1>4 DEF Entries
    <3> QED
      BY <3>1, <3>2, <2>2, <1>1
  <2>3. ASSUME NEW x, x \in Entries(d) PROVE x \in Entries(c) /\ x.dst # c[i].dst
    BY <2>1, <2>3, <1>4 DEF Entries
  <2>4. ASSUME NEW x, x \in Entries(c), x.dst # c[i].dst PROVE x \in Entries(d)
    <3>1. PICK k \in 1 .. N : x = c[k]
      BY <2>4, <1>1 DEF Entries
    <3> QED
      BY <2>2, <2>4, <3>1
  <2> QED
    BY <2>3, <2>4
<1> QED
  BY <1>4, <1>7, <1>9 DEF a, b, d, N

----------------------------------------------------------------------------
(* The entries of c are the last telegrams l. *)
Agrees(c, l) ==
  /\ \A x \in Entries(c) : x.val = l[x.dst]
  /\ \A a \in Addr : l[a] # None => \E x \in Entries(c) : x.dst = a

CacheInv == cache \in Seq(Record) /\ Sorted(cache) /\ Agrees(cache, last)

ReadersTyped ==
  /\ pc \in [Reader -> {"idle", "asked", "waiting", "woken"}]
  /\ arg \in [Reader -> [addr : Addr \cup {0}, age : BOOLEAN]]
  /\ timedout \in [Reader -> BOOLEAN]
  /\ result \in [Reader -> Val \cup {None, "ENODEV", "ENOENT"}]
  /\ answered \in [Reader -> BOOLEAN]

OthersTyped ==
  /\ enable \in BOOLEAN /\ last \in [Addr -> Val \cup {None}]
  /\ tels \in 0 .. MaxTel /\ admin \in 0 .. MaxAdmin

(* A Read that waits waits for an address and has returned nothing; what it    *)
(* waits for is in the cache once it was heard.                                *)
ReaderOK(r) ==
  /\ pc[r] # "idle" => arg[r].addr \in Addr /\ result[r] = None
  /\ answered[r] => pc[r] # "idle" /\ last[arg[r].addr] # None

GCInv == CacheInv /\ ReadersTyped /\ OthersTyped /\ \A r \in Reader : ReaderOK(r)

(* The values of a record. *)
LEMMA EntryTyped ==
  ASSUME NEW a \in Addr, NEW v \in Val \cup {None}
  PROVE  Entry(a, v) \in Record /\ Entry(a, v).dst = a /\ Entry(a, v).val = v
BY DEF Entry, Record

LEMMA EntriesTyped ==
  ASSUME NEW c \in Seq(Record), NEW x \in Entries(c)
  PROVE  x \in Record /\ x.dst \in Addr /\ x.val \in Val \cup {None}
<1>1. x \in Record
  BY DEF Entries
<1> QED
  BY <1>1 DEF Record

(* An entry written, and noted as the last telegram. *)
LEMMA AgreesWith ==
  ASSUME NEW c \in Seq(Record), NEW d, NEW e \in Record, With(c, e, d),
         NEW l \in [Addr -> Val \cup {None}], Agrees(c, l)
  PROVE  Agrees(d, [l EXCEPT ![e.dst] = e.val])
<1> DEFINE m == [l EXCEPT ![e.dst] = e.val]
<1>1. e.dst \in Addr
  BY DEF Record
<1>2. m[e.dst] = e.val /\ \A a \in Addr : a # e.dst => m[a] = l[a]
  BY <1>1
<1> HIDE DEF m
<1>3. ASSUME NEW x \in Entries(d) PROVE x.val = m[x.dst]
  <2>1. CASE x = e
    BY <2>1, <1>2
  <2>2. CASE x \in Entries(c) /\ x.dst # e.dst
    <3>1. x.dst \in Addr
      BY <2>2, EntriesTyped
    <3> QED
      BY <2>2, <3>1, <1>2 DEF Agrees
  <2> QED
    BY <2>1, <2>2, <1>3 DEF With
<1>4. ASSUME NEW a \in Addr, m[a] # None PROVE \E x \in Entries(d) : x.dst = a
  <2>1. CASE a = e.dst
    <3>1. e \in Entries(d)
      BY DEF With
    <3> QED
      BY <2>1, <3>1
  <2>2. CASE a # e.dst
    <3>1. PICK x \in Entries(c) : x.dst = a
      BY <2>2, <1>2, <1>4 DEF Agrees
    <3>2. x \in Entries(d)
      BY <3>1, <2>2 DEF With
    <3> QED
      BY <3>1, <3>2
  <2> QED
    BY <2>1, <2>2
<1> QED
  BY <1>3, <1>4 DEF Agrees, m

(* Get_L_Data writes the entry of the address. *)
LEMMA StoreKeeps ==
  ASSUME CacheInv, NEW dst \in Addr, NEW val \in Val, Store(dst, val)
  PROVE  cache' \in Seq(Record) /\ Sorted(cache') /\ With(cache, Entry(dst, val), cache')
<1> DEFINE i == Search(cache, dst)
           e == Entry(dst, val)
<1>1. e \in Record /\ e.dst = dst /\ cache \in Seq(Record) /\ Sorted(cache)
  BY EntryTyped DEF CacheInv
<1>2. /\ i = 0 => \A k \in DOMAIN cache : cache[k].dst # dst
      /\ i # 0 => i \in DOMAIN cache /\ cache[i].dst = dst
  BY <1>1, SearchFinds
<1>3. cache' = IF i # 0 THEN [cache EXCEPT ![i] = e] ELSE Add(cache, e)
  BY DEF Store
<1> HIDE DEF i, e
<1>4. CASE i = 0
  <2>1. cache' = Add(cache, e) /\ \A k \in DOMAIN cache : cache[k].dst # e.dst
    BY <1>1, <1>2, <1>3, <1>4
  <2> QED
    BY <1>1, <2>1, AddKeeps DEF e
<1>5. CASE i # 0
  <2>1. cache' = [cache EXCEPT ![i] = e] /\ i \in DOMAIN cache /\ cache[i].dst = e.dst
    BY <1>1, <1>2, <1>3, <1>5
  <2> QED
    BY <1>1, <2>1, PutKeeps DEF e
<1> QED
  BY <1>4, <1>5

(* An empty cache has heard nothing. *)
LEMMA EmptyAgrees ==
  ASSUME NEW l, \A a \in Addr : l[a] = None
  PROVE  <<>> \in Seq(Record) /\ Sorted(<<>>) /\ Agrees(<<>>, l)
BY DEF Sorted, Agrees, Entries

LEMMA InitGCInv == Init => GCInv
<1> SUFFICES ASSUME Init PROVE GCInv
  OBVIOUS
<1>1. CacheInv
  BY EmptyAgrees DEF Init, CacheInv
<1>2. ReadersTyped
  BY DEF Init, ReadersTyped, NoArg
<1>3. OthersTyped
  <2>1. last = [a \in Addr |-> None] /\ tels = 0 /\ admin = 0 /\ enable = FALSE
    BY DEF Init
  <2> QED
    <3>1. tels \in 0 .. MaxTel /\ admin \in 0 .. MaxAdmin
      BY <2>1, GroupCacheBounds
    <3>2. last \in [Addr -> Val \cup {None}] /\ enable \in BOOLEAN
      BY <2>1
    <3> QED
      BY <3>1, <3>2 DEF OthersTyped
<1>4. \A r \in Reader : ReaderOK(r)
  BY DEF Init, ReaderOK
<1> QED
  BY <1>1, <1>2, <1>3, <1>4 DEF GCInv

(* Get_L_Data. *)
LEMMA TelegramKeeps ==
  ASSUME GCInv, NEW dst \in Addr, NEW val \in Val, Telegram(dst, val)
  PROVE  GCInv'
<1> DEFINE e == Entry(dst, val)
<1>1. e \in Record /\ e.dst = dst /\ e.val = val
  BY EntryTyped
<1>2. cache' \in Seq(Record) /\ Sorted(cache') /\ With(cache, e, cache')
  BY StoreKeeps DEF GCInv, Telegram
<1>3. last' = [last EXCEPT ![e.dst] = e.val] /\ last \in [Addr -> Val \cup {None}]
  BY <1>1 DEF Telegram, GCInv, OthersTyped
<1> HIDE DEF e
<1>4. CacheInv'
  <2>1. Agrees(cache', last')
    BY <1>1, <1>2, <1>3, AgreesWith DEF GCInv, CacheInv
  <2> QED
    BY <1>2, <2>1 DEF CacheInv
<1>5. ReadersTyped'
  <2>1. UNCHANGED <<arg, timedout, result>>
        /\ pc' = [r \in Reader |-> IF pc[r] = "waiting" THEN "woken" ELSE pc[r]]
        /\ answered' = [r \in Reader |-> answered[r] \/ (pc[r] # "idle" /\ arg[r].addr = dst)]
    BY DEF Telegram, NotifyAll
  <2>2. pc' \in [Reader -> {"idle", "asked", "waiting", "woken"}]
    BY <2>1 DEF GCInv, ReadersTyped
  <2>3. answered' \in [Reader -> BOOLEAN]
    BY <2>1 DEF GCInv, ReadersTyped
  <2> QED
    BY <2>1, <2>2, <2>3 DEF GCInv, ReadersTyped
<1>6. OthersTyped'
  <2>1. tels' \in 0 .. MaxTel
    BY GroupCacheBounds DEF Telegram, GCInv, OthersTyped
  <2>2. last' \in [Addr -> Val \cup {None}]
    BY <1>1, <1>3
  <2> QED
    BY <2>1, <2>2 DEF Telegram, GCInv, OthersTyped
<1>7. ASSUME NEW r \in Reader PROVE ReaderOK(r)'
  <2>1. /\ (pc'[r] # "idle") <=> (pc[r] # "idle")
        /\ arg' = arg /\ result' = result
        /\ answered'[r] <=> (answered[r] \/ (pc[r] # "idle" /\ arg[r].addr = dst))
    BY DEF Telegram, NotifyAll, GCInv, ReadersTyped
  <2>2. ReaderOK(r)
    BY DEF GCInv
  <2>3. arg[r].addr \in Addr => last'[arg[r].addr] = (IF arg[r].addr = dst THEN val ELSE last[arg[r].addr])
    BY <1>1, <1>3
  <2>4. val # None
    BY ValAssumption DEF None
  <2> QED
    BY <2>1, <2>2, <2>3, <2>4 DEF ReaderOK
<1> QED
  BY <1>4, <1>5, <1>6, <1>7 DEF GCInv

(* Time makes an entry old and changes nothing else of it. *)
LEMMA AgeKeeps ==
  ASSUME GCInv, Age
  PROVE  GCInv'
<1>1. PICK i \in DOMAIN cache : cache' = [cache EXCEPT ![i].old = TRUE]
  BY DEF Age
<1> DEFINE e == [cache[i] EXCEPT !.old = TRUE]
<1>2. cache \in Seq(Record) /\ Sorted(cache) /\ Agrees(cache, last)
      /\ last \in [Addr -> Val \cup {None}]
  BY DEF GCInv, CacheInv, OthersTyped
<1>3. cache[i] \in Record
  BY <1>2
<1>4. e \in Record /\ e.dst = cache[i].dst /\ e.val = cache[i].val
  BY <1>3 DEF Record
<1>5. cache' = [cache EXCEPT ![i] = e]
  BY <1>1
<1> HIDE DEF e
<1>6. cache' \in Seq(Record) /\ Sorted(cache') /\ With(cache, e, cache')
  BY <1>2, <1>4, <1>5, PutKeeps
<1>7. [last EXCEPT ![e.dst] = e.val] = last
  <2>1. cache[i] \in Entries(cache)
    BY DEF Entries
  <2>2. last[e.dst] = e.val
    BY <1>2, <1>4, <2>1 DEF Agrees
  <2> QED
    BY <1>2, <2>2
<1>8. UNCHANGED <<enable, pc, arg, timedout, result, last, answered, tels, admin>>
  BY DEF Age, readers
<1>9. CacheInv'
  <2>1. Agrees(cache', last)
    BY <1>2, <1>4, <1>6, <1>7, AgreesWith
  <2> QED
    BY <1>6, <1>8, <2>1 DEF CacheInv
<1>10. ReadersTyped' /\ OthersTyped'
  BY <1>8 DEF GCInv, ReadersTyped, OthersTyped
<1>11. \A r \in Reader : ReaderOK(r)'
  BY <1>8 DEF GCInv, ReaderOK
<1> QED
  BY <1>9, <1>10, <1>11 DEF GCInv

(* Enable, Clear, Disable and remove: what is forgotten is no longer awaited.  *)
LEMMA ForgetKeeps ==
  ASSUME GCInv, NEW F \in SUBSET Addr, Forget(F), UNCHANGED readers
  PROVE  /\ ReadersTyped'
         /\ \A r \in Reader : ReaderOK(r)'
         /\ last' \in [Addr -> Val \cup {None}]
         /\ \A a \in F : last'[a] = None
         /\ \A a \in Addr \ F : last'[a] = last[a]
<1>1. /\ last' = [a \in Addr |-> IF a \in F THEN None ELSE last[a]]
      /\ answered' = [r \in Reader |-> answered[r] /\ (pc[r] = "idle" \/ arg[r].addr \notin F)]
      /\ UNCHANGED <<pc, arg, timedout, result>>
  BY DEF Forget, readers
<1>2. answered' \in [Reader -> BOOLEAN]
  BY <1>1 DEF GCInv, ReadersTyped
<1>3. ReadersTyped'
  BY <1>1, <1>2 DEF GCInv, ReadersTyped
<1>4. /\ last' \in [Addr -> Val \cup {None}]
      /\ \A a \in F : last'[a] = None
      /\ \A a \in Addr \ F : last'[a] = last[a]
  BY <1>1 DEF GCInv, OthersTyped
<1>5. ASSUME NEW r \in Reader PROVE ReaderOK(r)'
  <2>1. ReaderOK(r)
    BY DEF GCInv
  <2>2. answered'[r] => answered[r] /\ (pc[r] = "idle" \/ arg[r].addr \notin F)
    BY <1>1
  <2> QED
    BY <1>1, <1>4, <2>1, <2>2 DEF ReaderOK
<1> QED
  BY <1>3, <1>4, <1>5

LEMMA AdministerKeeps ==
  ASSUME GCInv, Start \/ Clear \/ Stop \/ \E group \in Addr : Remove(group)
  PROVE  GCInv'
<1>1. UNCHANGED readers /\ enable' \in BOOLEAN /\ tels' \in 0 .. MaxTel /\ admin' \in 0 .. MaxAdmin
  <2>1. admin < MaxAdmin /\ admin' = admin + 1 /\ UNCHANGED <<readers, tels>>
    BY DEF Start, Clear, Stop, Remove, Administer
  <2>2. enable' \in BOOLEAN
    BY DEF Start, Clear, Stop, Remove, GCInv, OthersTyped
  <2>3. admin' \in 0 .. MaxAdmin /\ tels' \in 0 .. MaxTel
    BY <2>1, GroupCacheBounds DEF GCInv, OthersTyped
  <2> QED
    BY <2>1, <2>2, <2>3
<1>2. CASE Start
  <2>1. UNCHANGED <<cache, last, answered, pc, arg, timedout, result>>
    BY <1>1, <1>2 DEF Start, readers
  <2>2. CacheInv' /\ ReadersTyped' /\ OthersTyped'
    BY <1>1, <2>1 DEF GCInv, CacheInv, ReadersTyped, OthersTyped
  <2>3. \A r \in Reader : ReaderOK(r)'
    BY <2>1 DEF GCInv, ReaderOK
  <2> QED
    BY <2>2, <2>3 DEF GCInv
<1>3. CASE Clear \/ Stop
  <2>1. cache' = <<>> /\ Forget(Addr)
    BY <1>3 DEF Clear, Stop
  <2>2. /\ ReadersTyped' /\ \A r \in Reader : ReaderOK(r)'
        /\ last' \in [Addr -> Val \cup {None}] /\ \A a \in Addr : last'[a] = None
    BY <1>1, <2>1, ForgetKeeps
  <2>3. CacheInv'
    BY <2>1, <2>2, EmptyAgrees DEF CacheInv
  <2>4. OthersTyped'
    BY <1>1, <2>2 DEF OthersTyped
  <2> QED
    BY <2>2, <2>3, <2>4 DEF GCInv
<1>4. ASSUME NEW group \in Addr, Remove(group) PROVE GCInv'
  <2> DEFINE i == Search(cache, group)
             d == SubSeq(cache, 1, i - 1) \o SubSeq(cache, i + 1, Len(cache))
  <2>1. cache' = (IF i = 0 THEN cache ELSE d) /\ Forget({group})
    BY <1>4 DEF Remove
  <2>2. cache \in Seq(Record) /\ Sorted(cache) /\ Agrees(cache, last)
    BY DEF GCInv, CacheInv
  <2>3. /\ i = 0 => \A k \in DOMAIN cache : cache[k].dst # group
        /\ i # 0 => i \in DOMAIN cache /\ cache[i].dst = group
    BY <2>2, SearchFinds
  <2>4. /\ ReadersTyped' /\ \A r \in Reader : ReaderOK(r)'
        /\ last' \in [Addr -> Val \cup {None}] /\ last'[group] = None
        /\ \A a \in Addr \ {group} : last'[a] = last[a]
    BY <1>1, <2>1, ForgetKeeps
  <2>5. /\ cache' \in Seq(Record) /\ Sorted(cache')
        /\ \A x : x \in Entries(cache') <=> x \in Entries(cache) /\ x.dst # group
    <3> HIDE DEF i
    <3>1. CASE i = 0
      BY <2>1, <2>2, <2>3, <3>1 DEF Entries
    <3>2. CASE i # 0
      <4>1. cache' = d /\ i \in DOMAIN cache /\ cache[i].dst = group
        BY <2>1, <2>3, <3>2
      <4>2. d \in Seq(Record) /\ Sorted(d)
            /\ \A x : x \in Entries(d) <=> x \in Entries(cache) /\ x.dst # cache[i].dst
        BY <2>2, <4>1, CutKeeps
      <4> HIDE DEF d
      <4> QED
        BY <4>1, <4>2
    <3> QED
      BY <3>1, <3>2
  <2>6. Agrees(cache', last')
    <3>1. ASSUME NEW x \in Entries(cache') PROVE x.val = last'[x.dst]
      <4>1. x \in Entries(cache) /\ x.dst \in Addr \ {group}
        BY <2>2, <2>5, EntriesTyped
      <4> QED
        BY <4>1, <2>2, <2>4 DEF Agrees
    <3>2. ASSUME NEW a \in Addr, last'[a] # None PROVE \E x \in Entries(cache') : x.dst = a
      <4>1. a # group /\ last[a] # None
        BY <3>2, <2>4
      <4>2. PICK x \in Entries(cache) : x.dst = a
        BY <4>1, <2>2 DEF Agrees
      <4> QED
        BY <4>1, <4>2, <2>5
    <3> QED
      BY <3>1, <3>2 DEF Agrees
  <2>7. CacheInv' /\ OthersTyped'
    BY <1>1, <2>4, <2>5, <2>6 DEF CacheInv, OthersTyped
  <2> QED
    BY <2>4, <2>7 DEF GCInv
<1> QED
  BY <1>2, <1>3, <1>4

(* A Read that returns. *)
LEMMA ReturnKeeps ==
  ASSUME GCInv, NEW r \in Reader, NEW v \in Val \cup {None, "ENODEV", "ENOENT"}, Return(r, v),
         UNCHANGED last
  PROVE  ReadersTyped' /\ \A q \in Reader : ReaderOK(q)'
<1>1. /\ result' = [result EXCEPT ![r] = v] /\ pc' = [pc EXCEPT ![r] = "idle"]
      /\ arg' = [arg EXCEPT ![r] = NoArg] /\ timedout' = [timedout EXCEPT ![r] = FALSE]
      /\ answered' = [answered EXCEPT ![r] = FALSE]
  BY DEF Return
<1>2. ReadersTyped
  BY DEF GCInv
<1>3. NoArg \in [addr : Addr \cup {0}, age : BOOLEAN]
  BY DEF NoArg
<1>4. ReadersTyped'
  BY <1>1, <1>2, <1>3 DEF ReadersTyped
<1>5. ASSUME NEW q \in Reader PROVE ReaderOK(q)'
  <2>1. ReaderOK(q)
    BY DEF GCInv
  <2>2. CASE q = r
    <3>1. pc'[q] = "idle" /\ answered'[q] = FALSE
      BY <1>1, <1>2, <2>2 DEF ReadersTyped
    <3> QED
      BY <3>1 DEF ReaderOK
  <2>3. CASE q # r
    <3>1. pc'[q] = pc[q] /\ answered'[q] = answered[q] /\ arg'[q] = arg[q] /\ result'[q] = result[q]
      BY <1>1, <1>2, <2>3 DEF ReadersTyped
    <3> QED
      BY <2>1, <3>1 DEF ReaderOK
  <2> QED
    BY <2>2, <2>3
<1> QED
  BY <1>4, <1>5

(* A reader that goes on waiting, or is woken. *)
LEMMA WaitKeeps ==
  ASSUME GCInv, NEW r \in Reader, NEW s \in {"waiting", "woken"}, pc[r] # "idle",
         pc' = [pc EXCEPT ![r] = s], timedout' \in [Reader -> BOOLEAN],
         UNCHANGED <<arg, result, answered, last>>
  PROVE  ReadersTyped' /\ \A q \in Reader : ReaderOK(q)'
<1>1. ReadersTyped
  BY DEF GCInv
<1>2. ReadersTyped'
  BY <1>1 DEF ReadersTyped
<1>3. ASSUME NEW q \in Reader PROVE ReaderOK(q)'
  <2>1. pc'[q] # "idle" <=> pc[q] # "idle"
    BY <1>1 DEF ReadersTyped
  <2>2. ReaderOK(q)
    BY DEF GCInv
  <2> QED
    BY <2>1, <2>2 DEF ReaderOK
<1> QED
  BY <1>2, <1>3

(* What a hit returns. *)
LEMMA HitTyped ==
  ASSUME CacheInv, NEW group \in Addr, NEW age \in BOOLEAN, NEW sync \in BOOLEAN,
         Hit(cache, group, age) # 0
  PROVE  LET v == cache[Hit(cache, group, age)].val
         IN  v = last[group] /\ AsResult(v, sync) \in Val \cup {None, "ENODEV", "ENOENT"}
<1> DEFINE i == Search(cache, group)
<1>1. Hit(cache, group, age) = i /\ i # 0
  BY DEF Hit
<1>2. i \in DOMAIN cache /\ cache[i].dst = group
  BY <1>1, SearchFinds DEF CacheInv
<1>3. cache[i] \in Entries(cache)
  BY <1>2 DEF Entries
<1>4. cache[i].val = last[group] /\ cache[i].val \in Val \cup {None}
  BY <1>2, <1>3, EntriesTyped DEF CacheInv, Agrees
<1> QED
  BY <1>1, <1>4 DEF AsResult

(* Read. *)
LEMMA ReadKeeps ==
  ASSUME GCInv, NEW r \in Reader, NEW group \in Addr, NEW age \in BOOLEAN, NEW sync \in BOOLEAN,
         Read(r, group, age, sync)
  PROVE  GCInv'
<1> DEFINE i == Hit(cache, group, age)
<1>1. UNCHANGED <<enable, cache, last, tels, admin>>
  BY DEF Read
<1>2. CacheInv' /\ OthersTyped'
  BY <1>1 DEF GCInv, CacheInv, OthersTyped
<1>3. CASE ~enable /\ Return(r, "ENODEV")
  <2>1. ReadersTyped' /\ \A q \in Reader : ReaderOK(q)'
    BY <1>1, <1>3, ReturnKeeps
  <2> QED
    BY <1>2, <2>1 DEF GCInv
<1>4. CASE i # 0 /\ Return(r, AsResult(cache[i].val, sync))
  <2>1. AsResult(cache[i].val, sync) \in Val \cup {None, "ENODEV", "ENOENT"}
    BY <1>4, HitTyped DEF GCInv
  <2>2. ReadersTyped' /\ \A q \in Reader : ReaderOK(q)'
    BY <1>1, <1>4, <2>1, ReturnKeeps
  <2> QED
    BY <1>2, <2>2 DEF GCInv
<1>5. CASE Return(r, None)
  <2>1. ReadersTyped' /\ \A q \in Reader : ReaderOK(q)'
    BY <1>1, <1>5, ReturnKeeps
  <2> QED
    BY <1>2, <2>1 DEF GCInv
<1>6. CASE /\ pc[r] = "idle"
           /\ pc' = [pc EXCEPT ![r] = "asked"]
           /\ arg' = [arg EXCEPT ![r] = [addr |-> group, age |-> age]]
           /\ result' = [result EXCEPT ![r] = None]
           /\ UNCHANGED <<timedout, answered>>
  <2>1. ReadersTyped
    BY DEF GCInv
  <2>2. ReadersTyped'
    <3>1. [addr |-> group, age |-> age] \in [addr : Addr \cup {0}, age : BOOLEAN]
      OBVIOUS
    <3> QED
      BY <1>6, <2>1, <3>1 DEF ReadersTyped
  <2>3. ASSUME NEW q \in Reader PROVE ReaderOK(q)'
    <3>1. ReaderOK(q)
      BY DEF GCInv
    <3>2. CASE q = r
      <4>1. arg'[q].addr = group /\ result'[q] = None /\ answered'[q] = answered[q] /\ pc[q] = "idle"
        BY <1>6, <2>1, <3>2 DEF ReadersTyped
      <4> QED
        BY <3>1, <4>1 DEF ReaderOK
    <3>3. CASE q # r
      <4>1. pc'[q] = pc[q] /\ answered'[q] = answered[q] /\ arg'[q] = arg[q] /\ result'[q] = result[q]
        BY <1>6, <2>1, <3>3 DEF ReadersTyped
      <4> QED
        BY <1>1, <3>1, <4>1 DEF ReaderOK
    <3> QED
      BY <3>2, <3>3
  <2> QED
    BY <1>2, <2>2, <2>3 DEF GCInv
<1> QED
  BY <1>3, <1>4, <1>5, <1>6 DEF Read

(* One turn of the loop of Read. *)
LEMMA ReadLoopKeeps ==
  ASSUME GCInv, NEW r \in Reader, ReadLoop(r)
  PROVE  GCInv'
<1> DEFINE group == arg[r].addr
           i == Hit(cache, group, arg[r].age)
<1>1. UNCHANGED <<enable, last, tels, admin>> /\ pc[r] # "idle"
  BY DEF ReadLoop
<1>2. group \in Addr /\ arg[r].age \in BOOLEAN /\ timedout \in [Reader -> BOOLEAN]
  BY <1>1 DEF GCInv, ReaderOK, ReadersTyped
<1>3. OthersTyped'
  BY <1>1 DEF GCInv, OthersTyped
<1>4. CASE i # 0 /\ Return(r, AsResult(cache[i].val, TRUE)) /\ UNCHANGED cache
  <2>1. AsResult(cache[i].val, TRUE) \in Val \cup {None, "ENODEV", "ENOENT"}
    BY <1>2, <1>4, HitTyped DEF GCInv
  <2>2. ReadersTyped' /\ \A q \in Reader : ReaderOK(q)'
    BY <1>1, <1>4, <2>1, ReturnKeeps
  <2>3. CacheInv'
    BY <1>1, <1>4 DEF GCInv, CacheInv
  <2> QED
    BY <1>3, <2>2, <2>3 DEF GCInv
<1>5. CASE /\ Return(r, "ENOENT")
           /\ cache' = IF Search(cache, group) # 0 THEN cache ELSE Add(cache, Entry(group, None))
  <2>1. ReadersTyped' /\ \A q \in Reader : ReaderOK(q)'
    BY <1>1, <1>5, ReturnKeeps
  <2>2. CASE Search(cache, group) # 0
    <3>1. CacheInv'
      BY <1>1, <1>5, <2>2 DEF GCInv, CacheInv
    <3> QED
      BY <1>3, <2>1, <3>1 DEF GCInv
  <2>3. CASE Search(cache, group) = 0
    <3> DEFINE e == Entry(group, None)
    <3>1. e \in Record /\ e.dst = group /\ e.val = None
      BY <1>2, EntryTyped
    <3>2. cache \in Seq(Record) /\ Sorted(cache) /\ Agrees(cache, last)
          /\ last \in [Addr -> Val \cup {None}]
      BY DEF GCInv, CacheInv, OthersTyped
    <3>3. \A k \in DOMAIN cache : cache[k].dst # group
      BY <1>2, <2>3, <3>2, SearchFinds
    <3>4. cache' = Add(cache, e)
      BY <1>5, <2>3
    <3> HIDE DEF e, group
    <3>5. cache' \in Seq(Record) /\ Sorted(cache') /\ With(cache, e, cache')
      BY <3>1, <3>2, <3>3, <3>4, AddKeeps
    <3>6. last[group] = None
      <4>1. \A x \in Entries(cache) : x.dst # group
        BY <3>3 DEF Entries
      <4> QED
        BY <1>2, <3>2, <4>1 DEF Agrees
    <3>7. [last EXCEPT ![e.dst] = e.val] = last
      BY <1>2, <3>1, <3>2, <3>6
    <3>8. Agrees(cache', last)
      BY <3>1, <3>2, <3>5, <3>7, AgreesWith
    <3>9. CacheInv'
      BY <1>1, <3>5, <3>8 DEF CacheInv
    <3> QED
      BY <1>3, <2>1, <3>9 DEF GCInv
  <2> QED
    BY <2>2, <2>3
<1>6. CASE /\ pc' = [pc EXCEPT ![r] = "waiting"]
           /\ UNCHANGED <<cache, arg, timedout, result, answered>>
  <2>1. ReadersTyped' /\ \A q \in Reader : ReaderOK(q)'
    <3>1. timedout' \in [Reader -> BOOLEAN]
      BY <1>2, <1>6
    <3> QED
      BY <1>1, <1>6, <3>1, WaitKeeps
  <2>2. CacheInv'
    BY <1>1, <1>6 DEF GCInv, CacheInv
  <2> QED
    BY <1>3, <2>1, <2>2 DEF GCInv
<1> QED
  BY <1>4, <1>5, <1>6 DEF ReadLoop

LEMMA TimeoutKeeps ==
  ASSUME GCInv, NEW r \in Reader, TimeoutOccurs(r)
  PROVE  GCInv'
<1>1. /\ pc[r] # "idle" /\ pc' = [pc EXCEPT ![r] = "woken"]
      /\ timedout' = [timedout EXCEPT ![r] = TRUE]
      /\ UNCHANGED <<enable, cache, arg, result, last, answered, tels, admin>>
  BY DEF TimeoutOccurs
<1>2. timedout' \in [Reader -> BOOLEAN]
  BY <1>1 DEF GCInv, ReadersTyped
<1>3. ReadersTyped' /\ \A q \in Reader : ReaderOK(q)'
  BY <1>1, <1>2, WaitKeeps
<1>4. CacheInv' /\ OthersTyped'
  BY <1>1 DEF GCInv, CacheInv, OthersTyped
<1> QED
  BY <1>3, <1>4 DEF GCInv

(* Every step keeps the invariant. *)
LEMMA NextGCInv == GCInv /\ [Next]_vars => GCInv'
<1> SUFFICES ASSUME GCInv, [Next]_vars PROVE GCInv'
  OBVIOUS
<1>1. CASE UNCHANGED vars
  <2>1. CacheInv' /\ ReadersTyped' /\ OthersTyped'
    BY <1>1 DEF vars, readers, GCInv, CacheInv, ReadersTyped, OthersTyped
  <2>2. \A r \in Reader : ReaderOK(r)'
    BY <1>1 DEF vars, readers, GCInv, ReaderOK
  <2> QED
    BY <2>1, <2>2 DEF GCInv
<1>2. CASE Next
  BY <1>2, TelegramKeeps, AgeKeeps, AdministerKeeps, ReadKeeps, ReadLoopKeeps, TimeoutKeeps
     DEF Next, ReaderStep
<1> QED
  BY <1>1, <1>2

(* The array is sorted and agrees with what was heard in every reachable state. *)
THEOREM GroupCacheInvariant == Spec => []GCInv
<1> QED
  BY InitGCInv, NextGCInv, PTL DEF Spec

(* GroupCache::find finds the last telegram of every address, and nothing for  *)
(* an address that was not heard of since the cache was enabled or cleared.    *)
THEOREM CacheHoldsLast == Spec => []HoldsLast
<1>1. GCInv => HoldsLast
  <2> SUFFICES ASSUME GCInv PROVE HoldsLast
    OBVIOUS
  <2>1. cache \in Seq(Record) /\ Sorted(cache) /\ Agrees(cache, last)
    BY DEF GCInv, CacheInv
  <2>2. TypeOK
    BY DEF GCInv, CacheInv, ReadersTyped, OthersTyped, TypeOK, Record
  <2>3. StrictlySorted
    BY <2>1 DEF Sorted, StrictlySorted
  <2>4. ASSUME NEW a \in Addr
        PROVE  last[a] = IF Search(cache, a) = 0 THEN None ELSE cache[Search(cache, a)].val
    <3> DEFINE i == Search(cache, a)
    <3>1. /\ i = 0 => \A k \in DOMAIN cache : cache[k].dst # a
          /\ i # 0 => i \in DOMAIN cache /\ cache[i].dst = a
      BY <2>1, SearchFinds
    <3> HIDE DEF i
    <3>2. CASE i = 0
      <4>1. \A x \in Entries(cache) : x.dst # a
        BY <3>1, <3>2 DEF Entries
      <4>2. last[a] = None
        BY <2>1, <4>1 DEF Agrees
      <4> QED
        BY <3>2, <4>2 DEF i
    <3>3. CASE i # 0
      <4>1. cache[i] \in Entries(cache) /\ cache[i].dst = a
        BY <3>1, <3>3 DEF Entries
      <4>2. last[a] = cache[i].val
        BY <2>1, <4>1 DEF Agrees
      <4> QED
        BY <3>3, <4>2 DEF i
    <3> QED
      BY <3>2, <3>3
  <2> QED
    BY <2>2, <2>3, <2>4 DEF HoldsLast
<1> QED
  BY <1>1, GroupCacheInvariant, PTL

(* GroupCache::Read: a telegram for its address that arrives while it waits is *)
(* its answer, whether the notification or the timeout wakes it.               *)
THEOREM AnswersKept == Spec => NoLostAnswer
<1>1. GCInv /\ [Next]_vars =>
        [\A r \in Reader :
           pc[r] # "idle" /\ result'[r] = "ENOENT" /\ ~arg[r].age => ~answered[r]]_vars
  <2> SUFFICES ASSUME GCInv, Next, NEW r \in Reader, pc[r] # "idle", result'[r] = "ENOENT",
                      ~arg[r].age, answered[r]
               PROVE  FALSE
    OBVIOUS
  <2>1. result[r] = None /\ arg[r].addr \in Addr /\ last[arg[r].addr] # None
    BY DEF GCInv, ReaderOK
  <2>2. result[r] # "ENOENT" /\ None # "ENOENT"
    BY <2>1 DEF None
  <2>3. result \in [Reader -> Val \cup {None, "ENODEV", "ENOENT"}]
    BY DEF GCInv, ReadersTyped
  <2>4. ReadLoop(r)
    <3>1. ~UNCHANGED result
      BY <2>2
    <3>2. ASSUME NEW q \in Reader, NEW group \in Addr, NEW age \in BOOLEAN, NEW sync \in BOOLEAN,
                 Read(q, group, age, sync)
          PROVE  FALSE
      <4>1. q # r
        BY <3>2 DEF Read
      <4>2. \E v : result' = [result EXCEPT ![q] = v]
        BY <3>2 DEF Read, Return
      <4> QED
        BY <4>1, <4>2, <2>2, <2>3
    <3>3. ASSUME NEW q \in Reader, ReadLoop(q), q # r PROVE FALSE
      <4>1. result' = result \/ \E v : result' = [result EXCEPT ![q] = v]
        BY <3>3 DEF ReadLoop, Return
      <4> QED
        BY <3>3, <4>1, <2>2, <2>3
    <3>4. ~(Age \/ Start \/ Clear \/ Stop \/ \E group \in Addr : Remove(group))
      BY <3>1 DEF Age, Start, Clear, Stop, Remove, Administer, readers
    <3>5. ~ \E dst \in Addr, val \in Val : Telegram(dst, val)
      BY <3>1 DEF Telegram
    <3>6. ~ \E q \in Reader : TimeoutOccurs(q)
      BY <3>1 DEF TimeoutOccurs
    <3> QED
      BY <3>2, <3>3, <3>4, <3>5, <3>6 DEF Next, ReaderStep
  <2> DEFINE group == arg[r].addr
             i == Hit(cache, group, arg[r].age)
  <2>5. cache \in Seq(Record) /\ Sorted(cache) /\ Agrees(cache, last) /\ CacheInv
    BY DEF GCInv, CacheInv
  <2>6. CASE i # 0 /\ Return(r, AsResult(cache[i].val, TRUE))
    <3>1. cache[i].val = last[group]
      <4>1. arg[r].age \in BOOLEAN
        BY DEF GCInv, ReadersTyped
      <4> QED
        BY <4>1, <2>1, <2>5, <2>6, HitTyped
    <3>2. AsResult(cache[i].val, TRUE) = last[group]
      BY <2>1, <3>1 DEF AsResult
    <3>3. result'[r] = last[group]
      BY <2>3, <2>6, <3>2 DEF Return
    <3>4. last[group] \in Val
      BY <2>1 DEF GCInv, OthersTyped
    <3> QED
      BY <3>3, <3>4, ValAssumption
  <2>7. CASE i = 0 /\ Return(r, "ENOENT")
    <3>1. Search(cache, group) = 0
      BY <2>7 DEF Hit
    <3>2. \A k \in DOMAIN cache : cache[k].dst # group
      BY <2>1, <2>5, <3>1, SearchFinds
    <3>3. \A x \in Entries(cache) : x.dst # group
      BY <3>2 DEF Entries
    <3> QED
      BY <2>1, <2>5, <3>3 DEF Agrees
  <2>8. CASE UNCHANGED result
    BY <2>2, <2>8
  <2> QED
    BY <2>4, <2>6, <2>7, <2>8 DEF ReadLoop
<1> QED
  BY <1>1, GroupCacheInvariant, PTL DEF Spec, NoLostAnswer

----------------------------------------------------------------------------
(* Management clients, and the connections of clients.                     *)

AddressesSpec == AddressesInit /\ [][AddressesNext]_advars

(* A client that gives an address and could notice everything so far: no   *)
(* device has the address before it assigns it, the answers it counts are  *)
(* at least as many as there are devices in programming mode, and when it  *)
(* assigns the address at most one device takes it.                        *)
Places == {"idle", "check", "ask", "collect", "assign", "verify", "read", "write", "confirm",
           "mask", "list", "listen"}
Modes == {"none", "give", "on", "off", "toggle", "status"}
Replies == {"none", "ADDR_EXISTS", "PROCESSING_ERROR", "mask", "failed", "addresses", "MORE_DEVICE",
            "TIMEOUT", "given", "switched", "status"}
Jobs == [at : Places, dest : Address \cup {0}, mode : Modes, count : Nat, want : BOOLEAN,
         reply : Replies, sure : BOOLEAN]

On == {d \in Device : prog[d]}
Alone(c, j) ==
  /\ j.at \in {"ask", "collect", "assign"} => \A d \in Device : addr[d] # Given[c]
  /\ j.at = "collect" => Cardinality(On) <= j.count
  /\ j.at = "assign" => Cardinality(On) <= 1
  /\ j.at \in {"verify", "read", "write", "confirm"} =>
       \A d, e \in Device : addr[d] = Given[c] /\ addr[e] = Given[c] => d = e
Gives(c, j) ==
  /\ j.at \in {"check", "ask", "collect", "assign", "verify"} => j.mode = "give"
  /\ j.mode = "give" => j.dest = Given[c] /\ ~j.want
  /\ j.at # "idle" => j.reply = "none"
  /\ j.mode = "give" /\ j.sure => Alone(c, j)

GiveInv ==
  /\ job \in [Admin -> Jobs] /\ addr \in [Device -> Address] /\ prog \in [Device -> BOOLEAN]
  /\ \A c \in Admin : Gives(c, job[c])

LEMMA JobTyped ==
  ASSUME NEW at \in Places, NEW dest \in Address \cup {0}, NEW mode \in Modes
  PROVE  /\ Job(at, dest, mode) \in Jobs
         /\ Job(at, dest, mode).at = at /\ Job(at, dest, mode).mode = mode
         /\ Job(at, dest, mode).dest = dest /\ ~Job(at, dest, mode).want
         /\ Job(at, dest, mode).reply = "none"
BY DEF Job, Jobs, Replies

(* A step of one client that leaves the devices as they are.               *)
LEMMA OwnStep ==
  ASSUME GiveInv, NEW b \in Admin, NEW j \in Jobs, job' = [job EXCEPT ![b] = j],
         UNCHANGED <<addr, prog>>, Gives(b, j)
  PROVE  GiveInv'
<1>1. /\ job' \in [Admin -> Jobs] /\ job'[b] = j
      /\ \A c \in Admin : c # b => job'[c] = job[c]
  BY DEF GiveInv
<1>2. \A c \in Admin : Gives(c, job[c])
  BY DEF GiveInv
<1>3. (\A c \in Admin : Gives(c, job[c]))'
  BY <1>1, <1>2 DEF Gives, Alone, On
<1> QED
  BY <1>1, <1>3 DEF GiveInv

LEMMA FinishStep ==
  ASSUME GiveInv, NEW b \in Admin, NEW r \in Replies, Finish(b, r), UNCHANGED <<addr, prog>>
  PROVE  GiveInv'
<1> DEFINE j == [Job("idle", 0, "none") EXCEPT !.reply = r]
<1>1. Job("idle", 0, "none") \in Jobs /\ Job("idle", 0, "none").at = "idle" /\ Job("idle", 0, "none").mode = "none"
  <2>1. "idle" \in Places /\ 0 \in Address \cup {0} /\ "none" \in Modes
    BY DEF Places, Modes
  <2> QED
    BY <2>1, JobTyped
<1>2. j \in Jobs /\ j.at = "idle" /\ j.mode = "none"
  BY <1>1 DEF Jobs
<1>3. job' = [job EXCEPT ![b] = j]
  BY DEF Finish
<1> HIDE DEF j
<1>4. Gives(b, j)
  BY <1>2 DEF Gives
<1> QED
  BY <1>2, <1>3, <1>4, OwnStep

(* A client starts. *)
LEMMA StartStep ==
  ASSUME GiveInv, NEW b \in Admin,
         \/ WriteIndividualAddress(b) \/ ChangeProgMode(b) \/ GetMaskVersion(b)
         \/ ReadIndividualAddresses(b)
  PROVE  GiveInv'
<1>1. ASSUME NEW at \in Places, NEW dest \in Address \cup {0}, NEW mode \in Modes,
             Starts(b, Job(at, dest, mode)), at \notin {"ask", "collect", "assign", "verify"},
             mode = "give" => at = "check" /\ dest = Given[b],
             at = "check" => mode = "give"
      PROVE  GiveInv'
  <2> DEFINE j == Job(at, dest, mode)
  <2>1. /\ j \in Jobs /\ j.at = at /\ j.mode = mode /\ j.dest = dest /\ ~j.want
        /\ j.reply = "none"
    BY JobTyped
  <2>2. job' = [job EXCEPT ![b] = j] /\ UNCHANGED <<addr, prog>>
    BY <1>1 DEF Starts, bus
  <2> HIDE DEF j
  <2>3. Gives(b, j)
    BY <1>1, <2>1 DEF Gives, Alone
  <2> QED
    BY <2>1, <2>2, <2>3, OwnStep
<1>2. CASE WriteIndividualAddress(b)
  <2>1. Given[b] \in Address
    BY AddressesAssumption
  <2> QED
    BY <1>1, <1>2, <2>1 DEF WriteIndividualAddress, Places, Modes
<1>3. CASE ChangeProgMode(b)
  <2>1. PICK a \in Address, m \in {"on", "off", "toggle", "status"} : Starts(b, Job("read", a, m))
    BY <1>3 DEF ChangeProgMode
  <2> QED
    BY <1>1, <2>1 DEF Places, Modes
<1>4. CASE GetMaskVersion(b)
  BY <1>1, <1>4 DEF GetMaskVersion, Places, Modes
<1>5. CASE ReadIndividualAddresses(b)
  BY <1>1, <1>5 DEF ReadIndividualAddresses, Places, Modes
<1> QED
  BY <1>2, <1>3, <1>4, <1>5

(* Steps of one client between its question and its report. *)
LEMMA CheckStep ==
  ASSUME GiveInv, NEW b \in Admin, Check(b)
  PROVE  GiveInv'
<1>1. job[b] \in Jobs /\ Gives(b, job[b]) /\ job[b].at = "check" /\ UNCHANGED <<addr, prog>>
  BY DEF GiveInv, Check, At, bus
<1>2. CASE Finish(b, "ADDR_EXISTS")
  BY <1>1, <1>2, FinishStep DEF Replies
<1>3. CASE NoDevice(b) /\ Goto(b, "ask")
  <2> DEFINE j == [job[b] EXCEPT !.at = "ask"]
  <2>1. /\ j \in Jobs /\ j.at = "ask" /\ j.mode = job[b].mode /\ j.reply = job[b].reply /\ j.dest = job[b].dest
        /\ j.want = job[b].want /\ j.sure = job[b].sure
    BY <1>1 DEF Jobs, Places
  <2>2. job' = [job EXCEPT ![b] = j]
    BY <1>1, <1>3 DEF Goto, GiveInv
  <2>3. \A d \in Device : addr[d] # job[b].dest
    BY <1>3 DEF NoDevice, There
  <2> HIDE DEF j
  <2>4. Gives(b, j)
    BY <1>1, <2>1, <2>3 DEF Gives, Alone
  <2> QED
    BY <1>1, <2>1, <2>2, <2>4, OwnStep
<1>4. CASE job' = [job EXCEPT ![b].at = "ask", ![b].sure = FALSE]
  <2> DEFINE j == [job[b] EXCEPT !.at = "ask", !.sure = FALSE]
  <2>1. /\ j \in Jobs /\ j.at = "ask" /\ j.mode = job[b].mode /\ j.reply = job[b].reply /\ j.dest = job[b].dest
        /\ j.want = job[b].want /\ j.sure = FALSE
    BY <1>1 DEF Jobs, Places
  <2>2. job' = [job EXCEPT ![b] = j]
    BY <1>1, <1>4 DEF GiveInv
  <2> HIDE DEF j
  <2>4. Gives(b, j)
    BY <1>1, <2>1 DEF Gives
  <2> QED
    BY <1>1, <2>1, <2>2, <2>4, OwnStep
<1> QED
  BY <1>2, <1>3, <1>4 DEF Check

LEMMA ReportStep ==
  ASSUME GiveInv, NEW b \in Admin, Verify(b) \/ Mask(b) \/ Confirm(b)
  PROVE  GiveInv'
<1>1. job[b] \in Jobs /\ Gives(b, job[b]) /\ UNCHANGED <<addr, prog>>
  BY DEF GiveInv, Verify, Mask, Confirm, bus
<1>2. CASE At(b, "verify") /\ Goto(b, "read")
  <2> DEFINE j == [job[b] EXCEPT !.at = "read"]
  <2>1. /\ j \in Jobs /\ j.at = "read" /\ j.mode = job[b].mode /\ j.reply = job[b].reply /\ j.dest = job[b].dest
        /\ j.want = job[b].want /\ j.sure = job[b].sure
    BY <1>1 DEF Jobs, Places
  <2>2. job' = [job EXCEPT ![b] = j]
    BY <1>1, <1>2 DEF Goto, GiveInv
  <2> HIDE DEF j
  <2>4. Gives(b, j)
    BY <1>1, <1>2, <2>1 DEF Gives, Alone, At
  <2> QED
    BY <1>1, <2>1, <2>2, <2>4, OwnStep
<1>3. CASE \E r \in Replies : Finish(b, r)
  BY <1>1, <1>3, FinishStep
<1>4. Verify(b) => (At(b, "verify") /\ Goto(b, "read")) \/ \E r \in Replies : Finish(b, r)
  <2>1. "PROCESSING_ERROR" \in Replies
    BY DEF Replies
  <2> QED
    BY <2>1 DEF Verify
<1>5. Mask(b) => \E r \in Replies : Finish(b, r)
  <2>1. "mask" \in Replies /\ "failed" \in Replies
    BY DEF Replies
  <2> QED
    BY <2>1 DEF Mask
<1>6. Confirm(b) => \E r \in Replies : Finish(b, r)
  <2>1. {"failed", "given", "switched"} \subseteq Replies
    BY DEF Replies
  <2>2. ASSUME NEW m, Finish(b, IF m # job[b].want THEN "failed"
                                ELSE IF job[b].mode = "give" THEN "given" ELSE "switched")
        PROVE  \E r \in Replies : Finish(b, r)
    BY <2>1, <2>2
  <2> QED
    BY <2>1, <2>2 DEF Confirm
<1> QED
  BY <1>2, <1>3, <1>4, <1>5, <1>6

LEMMA CollectedStep ==
  ASSUME GiveInv, NEW b \in Admin, Collected(b)
  PROVE  GiveInv'
<1>1. job[b] \in Jobs /\ Gives(b, job[b]) /\ UNCHANGED <<addr, prog>>
  BY DEF GiveInv, Collected, bus
<1>2. CASE \E r \in Replies : Finish(b, r)
  BY <1>1, <1>2, FinishStep
<1>3. CASE At(b, "collect") /\ ~TooMany(b) /\ Goto(b, "assign")
  <2> DEFINE j == [job[b] EXCEPT !.at = "assign"]
  <2>1. /\ j \in Jobs /\ j.at = "assign" /\ j.mode = job[b].mode /\ j.reply = job[b].reply /\ j.dest = job[b].dest
        /\ j.want = job[b].want /\ j.sure = job[b].sure
    BY <1>1 DEF Jobs, Places
  <2>2. job' = [job EXCEPT ![b] = j]
    BY <1>1, <1>3 DEF Goto, GiveInv
  <2>3. job[b].count \in Nat /\ job[b].count <= 1
    BY <1>1, <1>3 DEF TooMany, Jobs
  <2>4. Cardinality(On) \in Nat
    BY AddressesAssumption, FS_Subset, FS_CardinalityType DEF On
  <2> HIDE DEF j
  <2>5. Gives(b, j)
    BY <1>1, <1>3, <2>1, <2>3, <2>4 DEF Gives, Alone, At
  <2> QED
    BY <1>1, <2>1, <2>2, <2>5, OwnStep
<1>4. \/ \E r \in Replies : Finish(b, r)
      \/ At(b, "collect") /\ ~TooMany(b) /\ Goto(b, "assign")
  <2>1. {"addresses", "MORE_DEVICE", "TIMEOUT"} \subseteq Replies
    BY DEF Replies
  <2> QED
    BY <2>1 DEF Collected, Listens, At
<1> QED
  BY <1>2, <1>3, <1>4

LEMMA ProgReadStep ==
  ASSUME GiveInv, NEW b \in Admin, ProgRead(b)
  PROVE  GiveInv'
<1>1. job[b] \in Jobs /\ Gives(b, job[b]) /\ job[b].at = "read" /\ UNCHANGED <<addr, prog>>
  BY DEF GiveInv, ProgRead, At, bus
<1>2. CASE Finish(b, "status") \/ Finish(b, "failed")
  BY <1>1, <1>2, FinishStep DEF Replies
<1>3. ASSUME NEW w \in BOOLEAN, job[b].mode = "give" => ~w,
             job' = [job EXCEPT ![b].at = "write", ![b].want = w]
      PROVE  GiveInv'
  <2> DEFINE j == [job[b] EXCEPT !.at = "write", !.want = w]
  <2>1. /\ j \in Jobs /\ j.at = "write" /\ j.mode = job[b].mode /\ j.reply = job[b].reply /\ j.dest = job[b].dest
        /\ j.want = w /\ j.sure = job[b].sure
    BY <1>1 DEF Jobs, Places
  <2>2. job' = [job EXCEPT ![b] = j]
    BY <1>1, <1>3 DEF GiveInv
  <2> HIDE DEF j
  <2>4. Gives(b, j)
    BY <1>1, <1>3, <2>1 DEF Gives, Alone
  <2> QED
    BY <1>1, <2>1, <2>2, <2>4, OwnStep
<1>4. CASE \E m \in ModesAt(b) :
             job' = [job EXCEPT ![b].at = "write",
                       ![b].want = CASE job[b].mode = "on" -> TRUE
                                     [] job[b].mode = "toggle" -> ~m
                                     [] OTHER -> FALSE]
  <2>1. PICK m \in ModesAt(b) :
             job' = [job EXCEPT ![b].at = "write",
                       ![b].want = CASE job[b].mode = "on" -> TRUE
                                     [] job[b].mode = "toggle" -> ~m
                                     [] OTHER -> FALSE]
    BY <1>4
  <2> DEFINE w == CASE job[b].mode = "on" -> TRUE
                    [] job[b].mode = "toggle" -> ~m
                    [] OTHER -> FALSE
  <2>2. w \in BOOLEAN /\ (job[b].mode = "give" => ~w)
    OBVIOUS
  <2>3. job' = [job EXCEPT ![b].at = "write", ![b].want = w]
    BY <2>1
  <2> HIDE DEF w
  <2> QED
    BY <1>3, <2>2, <2>3
<1> QED
  BY <1>2, <1>4 DEF ProgRead

(* Steps that concern every client. *)
LEMMA DevicesFinite == /\ IsFiniteSet(On) /\ Cardinality(On) \in Nat
                       /\ \A S \in SUBSET On : /\ IsFiniteSet(S) /\ Cardinality(S) \in Nat
                                              /\ Cardinality(S) <= Cardinality(On)
<1>1. IsFiniteSet(On)
  BY AddressesAssumption, FS_Subset DEF On
<1> QED
  BY <1>1, FS_Subset, FS_CardinalityType

LEMMA AskStep ==
  ASSUME GiveInv, NEW b \in Admin, Ask(b)
  PROVE  GiveInv'
<1>1. PICK heard \in SUBSET On :
        job' = [c \in Admin |->
            IF c = b
            THEN [job[b] EXCEPT !.at = IF @ = "ask" THEN "collect" ELSE "listen",
                                !.count = Cardinality(heard),
                                !.sure = @ /\ Cardinality(On \ heard) = 0]
            ELSE IF Listens(c) THEN [job[c] EXCEPT !.count = @ + Cardinality(heard)]
            ELSE job[c]]
  BY DEF Ask, On
<1>2. /\ job \in [Admin -> Jobs] /\ \A c \in Admin : job[c] \in Jobs /\ Gives(c, job[c])
      /\ UNCHANGED <<addr, prog>> /\ (job[b].at = "ask" \/ job[b].at = "list")
  BY DEF GiveInv, Ask, At, bus
<1>3. Cardinality(heard) \in Nat /\ Cardinality(On) \in Nat
  BY DevicesFinite
<1>4. Cardinality(On \ heard) = 0 => Cardinality(On) <= Cardinality(heard)
  <2>1. IsFiniteSet(On \ heard)
    BY DevicesFinite
  <2>2. Cardinality(On \ heard) = 0 => On = heard
    BY <2>1, FS_EmptySet
  <2> QED
    BY <1>3, <2>2
<1>5. ASSUME NEW c \in Admin, c # b PROVE job'[c] \in Jobs /\ Gives(c, job'[c])
  <2>1. CASE Listens(c)
    <3> DEFINE j == [job[c] EXCEPT !.count = @ + Cardinality(heard)]
    <3>1. job'[c] = j
      BY <1>1, <1>5, <2>1
    <3>2. job[c].count \in Nat /\ job[c].count + Cardinality(heard) \in Nat
      BY <1>2, <1>3 DEF Jobs
    <3>3. /\ j \in Jobs /\ j.at = job[c].at /\ j.mode = job[c].mode /\ j.reply = job[c].reply /\ j.dest = job[c].dest
          /\ j.want = job[c].want /\ j.sure = job[c].sure
          /\ j.count = job[c].count + Cardinality(heard)
      BY <1>2, <3>2 DEF Jobs
    <3> HIDE DEF j
    <3>4. Cardinality(On) <= job[c].count => Cardinality(On) <= j.count
      BY <1>3, <3>2, <3>3
    <3>5. Gives(c, job[c])
      BY <1>2
    <3>6. Gives(c, j)
      BY <3>3, <3>4, <3>5 DEF Gives, Alone
    <3> QED
      BY <3>1, <3>3, <3>6
  <2>2. CASE ~Listens(c)
    <3>1. job'[c] = job[c]
      BY <1>1, <1>5, <2>2
    <3> QED
      BY <1>2, <3>1
  <2> QED
    BY <2>1, <2>2
<1>6. job'[b] \in Jobs /\ Gives(b, job'[b])
  <2> DEFINE place == IF job[b].at = "ask" THEN "collect" ELSE "listen"
             sure == job[b].sure /\ Cardinality(On \ heard) = 0
             j == [job[b] EXCEPT !.at = place, !.count = Cardinality(heard), !.sure = sure]
  <2>1. job'[b] = j
    BY <1>1
  <2>2. place \in Places /\ sure \in BOOLEAN
    BY DEF Places
  <2>3. place = "collect" => job[b].at = "ask"
    OBVIOUS
  <2>4. place \in {"collect", "listen"}
    OBVIOUS
  <2>5. sure => job[b].sure /\ Cardinality(On) <= Cardinality(heard)
    BY <1>4
  <2> HIDE DEF place, sure
  <2>6. /\ j \in Jobs /\ j.at = place /\ j.mode = job[b].mode /\ j.reply = job[b].reply /\ j.dest = job[b].dest
        /\ j.want = job[b].want /\ j.sure = sure /\ j.count = Cardinality(heard)
    BY <1>2, <1>3, <2>2 DEF Jobs
  <2> HIDE DEF j
  <2>7. Gives(b, job[b])
    BY <1>2
  <2>8. Gives(b, j)
    BY <1>2, <2>3, <2>4, <2>5, <2>6, <2>7 DEF Gives, Alone
  <2> QED
    BY <2>1, <2>6, <2>8
<1>7. job' \in [Admin -> Jobs]
  <2>1. \A c \in Admin : job'[c] \in Jobs
    BY <1>5, <1>6
  <2> QED
    BY <1>1, <2>1
<1>8. \A c \in Admin : Gives(c, job'[c])
  BY <1>5, <1>6
<1>9. (\A c \in Admin : Gives(c, job[c]))'
  BY <1>2, <1>8 DEF Gives, Alone, On
<1> QED
  BY <1>2, <1>7, <1>9 DEF GiveInv

(* The devices in programming mode take the address: nobody else gives it, *)
(* and the client that does has asked whether somebody had it.             *)
LEMMA AssignStep ==
  ASSUME GiveInv, NEW b \in Admin, Assign(b)
  PROVE  GiveInv'
<1>1. /\ job \in [Admin -> Jobs] /\ \A c \in Admin : job[c] \in Jobs /\ Gives(c, job[c])
      /\ job[b].at = "assign" /\ UNCHANGED prog
  BY DEF GiveInv, Assign, At
<1>2. job[b].mode = "give" /\ job[b].dest = Given[b] /\ Given[b] \in Address
  BY <1>1, AddressesAssumption DEF Gives
<1>3. addr' = [d \in Device |-> IF prog[d] THEN Given[b] ELSE addr[d]]
  BY <1>2 DEF Assign
<1>4. addr' \in [Device -> Address]
  BY <1>2, <1>3 DEF GiveInv
<1> DEFINE j == [job[b] EXCEPT !.at = "verify"]
<1>5. /\ j \in Jobs /\ j.at = "verify" /\ j.mode = job[b].mode /\ j.reply = job[b].reply /\ j.dest = job[b].dest
      /\ j.want = job[b].want /\ j.sure = job[b].sure
  BY <1>1 DEF Jobs, Places
<1>6. job' = [job EXCEPT ![b] = j]
  BY <1>1 DEF Goto, Assign
<1> HIDE DEF j
<1>7. job' \in [Admin -> Jobs] /\ job'[b] = j /\ \A c \in Admin : c # b => job'[c] = job[c]
  BY <1>1, <1>5, <1>6
<1>8. ASSUME NEW c \in Admin, c # b PROVE Gives(c, job[c])'
  <2>1. Given[c] # Given[b]
    BY <1>8, AddressesAssumption
  <2>2. \A d \in Device : addr'[d] = Given[c] => addr[d] = Given[c]
    BY <1>3, <2>1
  <2>3. Gives(c, job[c]) /\ job'[c] = job[c]
    BY <1>1, <1>7, <1>8
  <2> QED
    BY <1>1, <2>2, <2>3 DEF Gives, Alone, On
<1>9. Gives(b, job[b])'
  <2>1. ASSUME job[b].sure, NEW d \in Device, NEW e \in Device, addr'[d] = Given[b], addr'[e] = Given[b]
        PROVE  d = e
    <3>1. /\ \A x \in Device : addr[x] # Given[b]
          /\ Cardinality(On) <= 1
      BY <1>1, <1>2, <2>1 DEF Gives, Alone
    <3>2. d \in On /\ e \in On
      BY <1>3, <2>1, <3>1 DEF On
    <3>3. Cardinality(On) = 0 \/ Cardinality(On) = 1
      BY <3>1, DevicesFinite
    <3>4. CASE Cardinality(On) = 0
      BY <3>2, <3>4, DevicesFinite, FS_EmptySet
    <3>5. CASE Cardinality(On) = 1
      <4>1. \E x : On = {x}
        BY <3>5, DevicesFinite, FS_Singleton
      <4> QED
        BY <3>2, <4>1
    <3> QED
      BY <3>3, <3>4, <3>5
  <2>2. Gives(b, job[b])
    BY <1>1
  <2> QED
    BY <1>1, <1>2, <1>5, <1>7, <2>1, <2>2 DEF Gives, Alone
<1>10. (\A c \in Admin : Gives(c, job[c]))'
  BY <1>8, <1>9
<1>11. prog' \in [Device -> BOOLEAN]
  BY <1>1 DEF GiveInv
<1> QED
  BY <1>4, <1>7, <1>10, <1>11 DEF GiveInv

(* A step that switches modes.  A client that counts answers or assigns an *)
(* address is in doubt when a device was switched on; otherwise there are  *)
(* at most as many devices in programming mode as before.                  *)
LEMMA DoubtStep ==
  ASSUME GiveInv, UNCHANGED addr, prog' \in [Device -> BOOLEAN], NEW c \in Admin,
         job'[c] = Doubt(job[c], {d \in Device : prog'[d] /\ ~prog[d]})
  PROVE  job'[c] \in Jobs /\ Gives(c, job[c])'
<1> DEFINE on == {d \in Device : prog'[d] /\ ~prog[d]}
           kept == ~(job[c].at \in {"collect", "assign"} /\ on # {})
           j == [job[c] EXCEPT !.sure = @ /\ kept]
<1>1. job[c] \in Jobs /\ Gives(c, job[c])
  BY DEF GiveInv
<1>2. job'[c] = j
  BY DEF Doubt
<1>3. kept => on = {} \/ job[c].at \notin {"collect", "assign"}
  OBVIOUS
<1>4. on = {} => /\ Cardinality(On') <= Cardinality(On) /\ Cardinality(On) \in Nat
                 /\ Cardinality(On') \in Nat
  <2>1. on = {} => On' \in SUBSET On
    BY DEF On
  <2> QED
    BY <2>1, DevicesFinite
<1>5. kept \in BOOLEAN
  OBVIOUS
<1> HIDE DEF kept
<1>6. /\ j \in Jobs /\ j.at = job[c].at /\ j.mode = job[c].mode /\ j.reply = job[c].reply
      /\ j.dest = job[c].dest /\ j.want = job[c].want /\ j.count = job[c].count
      /\ j.sure => job[c].sure /\ kept
  BY <1>1, <1>5 DEF Jobs
<1> HIDE DEF j, on
<1>7. ASSUME j.mode = "give", j.sure PROVE Alone(c, job[c])'
  <2>1. Alone(c, job[c]) /\ (on = {} \/ job[c].at \notin {"collect", "assign"})
    BY <1>1, <1>3, <1>6, <1>7 DEF Gives
  <2>2. job[c].count \in Nat
    BY <1>1 DEF Jobs
  <2>3. job[c].at = "collect" => Cardinality(On') <= job[c].count
    BY <1>4, <2>1, <2>2 DEF Alone
  <2>4. job[c].at = "assign" => Cardinality(On') <= 1
    BY <1>4, <2>1 DEF Alone
  <2> QED
    BY <1>2, <1>6, <2>1, <2>3, <2>4 DEF Alone
<1> QED
  BY <1>1, <1>2, <1>6, <1>7 DEF Gives

LEMMA ProgWriteStep ==
  ASSUME GiveInv, NEW b \in Admin, ProgWrite(b)
  PROVE  GiveInv'
<1> DEFINE on == {d \in Device : prog'[d] /\ ~prog[d]}
           j == [job[b] EXCEPT !.at = "confirm"]
<1>1. /\ UNCHANGED addr /\ job[b].at = "write"
      /\ job[b] \in Jobs /\ Gives(b, job[b])
      /\ prog' = [d \in Device |-> IF addr[d] = job[b].dest THEN job[b].want ELSE prog[d]]
      /\ job' = [c \in Admin |-> IF c = b THEN j ELSE Doubt(job[c], on)]
  BY DEF GiveInv, ProgWrite, At
<1>2. prog' \in [Device -> BOOLEAN]
  <2>1. job[b].want \in BOOLEAN
    BY <1>1 DEF Jobs
  <2> QED
    BY <1>1, <2>1 DEF GiveInv
<1>3. ASSUME NEW c \in Admin, c # b PROVE job'[c] \in Jobs /\ Gives(c, job[c])'
  <2>1. job'[c] = Doubt(job[c], on)
    BY <1>1, <1>3
  <2> QED
    BY <1>1, <1>2, <2>1, DoubtStep
<1>4. job'[b] \in Jobs /\ Gives(b, job[b])'
  <2>1. job'[b] = j
    BY <1>1
  <2>2. /\ j \in Jobs /\ j.at = "confirm" /\ j.mode = job[b].mode /\ j.reply = job[b].reply
        /\ j.dest = job[b].dest /\ j.want = job[b].want /\ j.sure = job[b].sure
    BY <1>1 DEF Jobs, Places
  <2> HIDE DEF j
  <2> QED
    BY <1>1, <2>1, <2>2 DEF Gives, Alone
<1>5. job' \in [Admin -> Jobs]
  BY <1>1, <1>3, <1>4
<1>6. (\A c \in Admin : Gives(c, job[c]))'
  BY <1>3, <1>4
<1>7. addr' \in [Device -> Address]
  BY <1>1 DEF GiveInv
<1> QED
  BY <1>2, <1>5, <1>6, <1>7 DEF GiveInv

LEMMA PressStep ==
  ASSUME GiveInv, NEW d \in Device, Press(d)
  PROVE  GiveInv'
<1> DEFINE on == {e \in Device : prog'[e] /\ ~prog[e]}
<1>1. /\ UNCHANGED addr /\ addr \in [Device -> Address] /\ prog \in [Device -> BOOLEAN]
      /\ prog' = [prog EXCEPT ![d] = ~@]
      /\ job' = [c \in Admin |-> Doubt(job[c], IF prog[d] THEN {} ELSE {d})]
  BY DEF GiveInv, Press
<1>2. prog' \in [Device -> BOOLEAN]
  BY <1>1
<1>3. (IF prog[d] THEN {} ELSE {d}) = on
  BY <1>1
<1>4. ASSUME NEW c \in Admin PROVE job'[c] \in Jobs /\ Gives(c, job[c])'
  <2>1. job'[c] = Doubt(job[c], on)
    BY <1>1, <1>3
  <2> QED
    BY <1>1, <1>2, <2>1, DoubtStep
<1>5. job' \in [Admin -> Jobs]
  BY <1>1, <1>4
<1>6. (\A c \in Admin : Gives(c, job[c]))'
  BY <1>4
<1> QED
  BY <1>1, <1>2, <1>5, <1>6 DEF GiveInv

LEMMA GiveInit == AddressesInit => GiveInv
<1> SUFFICES ASSUME AddressesInit PROVE GiveInv
  OBVIOUS
<1> DEFINE j == Job("idle", 0, "none")
<1>1. j \in Jobs /\ j.at = "idle" /\ j.mode = "none"
  <2>1. "idle" \in Places /\ 0 \in Address \cup {0} /\ "none" \in Modes
    BY DEF Places, Modes
  <2> QED
    BY <2>1, JobTyped
<1>2. job = [c \in Admin |-> j]
  BY DEF AddressesInit
<1> HIDE DEF j
<1>3. \A c \in Admin : Gives(c, job[c])
  BY <1>1, <1>2 DEF Gives
<1> QED
  BY <1>1, <1>2, <1>3 DEF GiveInv, AddressesInit

LEMMA GiveStep == GiveInv /\ [AddressesNext]_advars => GiveInv'
<1> SUFFICES ASSUME GiveInv, [AddressesNext]_advars PROVE GiveInv'
  OBVIOUS
<1>1. CASE UNCHANGED advars
  BY <1>1 DEF GiveInv, Gives, Alone, On, advars
<1>2. ASSUME NEW c \in Admin,
             \/ WriteIndividualAddress(c) \/ ChangeProgMode(c) \/ GetMaskVersion(c)
             \/ ReadIndividualAddresses(c)
             \/ Check(c) \/ Verify(c) \/ Mask(c) \/ Ask(c) \/ Collected(c) \/ Assign(c)
             \/ ProgRead(c) \/ ProgWrite(c) \/ Confirm(c)
      PROVE  GiveInv'
  BY <1>2, StartStep, CheckStep, ReportStep, AskStep, CollectedStep, AssignStep, ProgReadStep,
     ProgWriteStep
<1>3. ASSUME NEW d \in Device, Press(d) PROVE GiveInv'
  BY <1>3, PressStep
<1> QED
  BY <1>1, <1>2, <1>3 DEF AddressesNext

THEOREM AddressesInvariant == AddressesSpec => []GiveInv
<1> QED
  BY GiveInit, GiveStep, PTL DEF AddressesSpec

(* Only the last exchange of a client reports that it has given an         *)
(* address: while it waits for that, nobody else writes its reply.         *)
LEMMA OnlyConfirmReports ==
  ASSUME GiveInv, [AddressesNext]_advars, NEW c \in Admin, At(c, "confirm"),
         job'[c].reply = "given"
  PROVE  Confirm(c)
<1>1. /\ job \in [Admin -> Jobs] /\ job[c] \in Jobs /\ job[c].at = "confirm"
      /\ job[c].reply = "none"
  BY DEF GiveInv, Gives, At
<1>2. ~UNCHANGED advars
  BY <1>1 DEF advars
<1>3. ASSUME NEW d \in Device, Press(d) PROVE FALSE
  <2>1. \E ds : job'[c] = Doubt(job[c], ds)
    BY <1>3 DEF Press
  <2> QED
    BY <1>1, <2>1 DEF Doubt, Jobs
<1>4. ASSUME NEW b \in Admin, b # c, NEW j, job' = [job EXCEPT ![b] = j] PROVE FALSE
  BY <1>1, <1>4
<1>5. ASSUME NEW b \in Admin, NEW j, Starts(b, j) PROVE FALSE
  <2>1. b # c /\ job' = [job EXCEPT ![b] = j]
    BY <1>1, <1>5 DEF Starts, At
  <2> QED
    BY <1>4, <2>1
<1>6. ASSUME NEW b \in Admin, Check(b) \/ Verify(b) \/ Mask(b) \/ Collected(b) \/ ProgRead(b)
      PROVE  FALSE
  <2>1. b # c
    BY <1>1, <1>6 DEF Check, Verify, Mask, Collected, ProgRead, At, Listens
  <2>2. job'[c] = job[c]
    BY <1>1, <1>6, <2>1 DEF Check, Verify, Mask, Collected, ProgRead, Finish, Goto
  <2> QED
    BY <1>1, <2>2
<1>7. ASSUME NEW b \in Admin, Assign(b) PROVE FALSE
  <2>1. b # c
    BY <1>1, <1>7 DEF Assign, At
  <2>2. job'[c] = job[c]
    BY <1>1, <1>7, <2>1 DEF Assign, Goto
  <2> QED
    BY <1>1, <2>2
<1>8. ASSUME NEW b \in Admin, Ask(b) PROVE FALSE
  <2>1. b # c /\ ~Listens(c)
    BY <1>1, <1>8 DEF Ask, At, Listens
  <2>2. job'[c] = job[c]
    BY <1>8, <2>1 DEF Ask
  <2> QED
    BY <1>1, <2>2
<1>9. ASSUME NEW b \in Admin, ProgWrite(b) PROVE FALSE
  <2>1. b # c
    BY <1>1, <1>9 DEF ProgWrite, At
  <2>2. \E ds : job'[c] = Doubt(job[c], ds)
    BY <1>9, <2>1 DEF ProgWrite
  <2> QED
    BY <1>1, <2>2 DEF Doubt, Jobs
<1>10. ASSUME NEW b \in Admin, Confirm(b) PROVE b = c
  <2>1. b # c => job'[c] = job[c]
    BY <1>1, <1>10 DEF Confirm, Finish
  <2> QED
    BY <1>1, <2>1
<1> QED
  BY <1>2, <1>3, <1>5, <1>6, <1>7, <1>8, <1>9, <1>10
  DEF AddressesNext, WriteIndividualAddress, ChangeProgMode, GetMaskVersion,
      ReadIndividualAddresses

LEMMA ConfirmedAlone ==
  ASSUME GiveInv, NEW c \in Admin, Confirm(c), job'[c].reply = "given", job[c].sure
  PROVE  \E d \in Device : HasOnly(d, job[c].dest) /\ ~prog[d]
<1>1. /\ job \in [Admin -> Jobs] /\ job[c] \in Jobs /\ Gives(c, job[c])
      /\ job[c].at = "confirm" /\ prog \in [Device -> BOOLEAN]
  BY DEF GiveInv, Confirm, At
<1>2. ASSUME NEW r, Finish(c, r) PROVE job'[c].reply = r
  BY <1>1, <1>2 DEF Finish, Job
<1>3. PICK m \in ModesAt(c) :
        Finish(c, IF m # job[c].want THEN "failed"
                  ELSE IF job[c].mode = "give" THEN "given" ELSE "switched")
  <2>1. ~Finish(c, "failed")
    BY <1>2
  <2> QED
    BY <2>1 DEF Confirm
<1>4. job'[c].reply = IF m # job[c].want THEN "failed"
                      ELSE IF job[c].mode = "give" THEN "given" ELSE "switched"
  BY <1>2, <1>3
<1>5. m = job[c].want /\ job[c].mode = "give"
  BY <1>4
<1>6. ~m /\ job[c].dest = Given[c] /\ Alone(c, job[c])
  BY <1>1, <1>5 DEF Gives
<1>7. PICK d \in Device : addr[d] = job[c].dest /\ m = prog[d]
  BY <1>3 DEF ModesAt
<1>8. \A e \in Device \ {d} : addr[e] # job[c].dest
  BY <1>1, <1>6, <1>7 DEF Alone
<1> QED
  BY <1>6, <1>7, <1>8 DEF HasOnly

(* Whatever the number of clients and devices, the presses of buttons and  *)
(* the answers lost: a client that hears it has given an address, and      *)
(* could notice all that happened, has given it to exactly one device,     *)
(* which is no longer in programming mode.                                 *)
THEOREM AddressesUnique == AddressesSpec => AddressUnique
<1>1. GiveInv /\ [AddressesNext]_advars =>
        [\A c \in Admin :
           At(c, "confirm") /\ job'[c].reply = "given" /\ job[c].sure
             => \E d \in Device : HasOnly(d, job[c].dest) /\ ~prog[d]]_advars
  BY OnlyConfirmReports, ConfirmedAlone
<1> QED
  BY AddressesInvariant, <1>1, PTL DEF AddressesSpec, AddressUnique

----------------------------------------------------------------------------
(* A connection stays until its forwarder has ended and Layer3 has         *)
(* forgotten it.                                                           *)
ClientsSpec == ClientsInit /\ [][ClientsNext]_clvars

Forwarding == {"none", "register", "idle", "write", "refused", "done"}
KindInv ==
  /\ kind \in [Peer -> {"none", "apdu", "monitor"}] /\ fwd \in [Peer -> Forwarding]
  /\ NoDangling

(* A step that leaves kind, fwd and reg of the other programs alone.       *)
LEMMA OnePeer ==
  ASSUME KindInv, NEW p \in Peer,
         kind' \in [Peer -> {"none", "apdu", "monitor"}], fwd' \in [Peer -> Forwarding],
         \A q \in Peer \ {p} : kind'[q] = kind[q] /\ fwd'[q] = fwd[q] /\ (q \in reg' => q \in reg),
         p \in reg' \/ fwd'[p] \notin {"none", "done"} => kind'[p] # "none"
  PROVE  KindInv'
BY DEF KindInv, NoDangling, Exists

LEMMA MainStepKeeps ==
  ASSUME KindInv, NEW p \in Peer, MainStep(p)
  PROVE  KindInv'
<1>1. /\ kind \in [Peer -> {"none", "apdu", "monitor"}] /\ fwd \in [Peer -> Forwarding]
      /\ p \in reg \/ fwd[p] \notin {"none", "done"} => kind[p] # "none"
  BY DEF KindInv, NoDangling, Exists
<1>2. CASE UNCHANGED <<kind, fwd, reg>>
  BY <1>2 DEF KindInv, NoDangling, Exists
<1>3. CASE Opens(p)
  <2>1. /\ kind' = [kind EXCEPT ![p] = "apdu"] /\ fwd' = [fwd EXCEPT ![p] = "idle"]
        /\ reg' = reg \cup {p}
    BY <1>3 DEF Opens
  <2> QED
    BY <1>1, <2>1, OnePeer DEF Forwarding
<1>4. CASE OpensMonitor(p)
  <2>1. /\ kind' = [kind EXCEPT ![p] = "monitor"] /\ fwd' = [fwd EXCEPT ![p] = "register"]
        /\ reg' = reg
    BY <1>4 DEF OpensMonitor
  <2> QED
    BY <1>1, <2>1, OnePeer DEF Forwarding
<1>5. CASE Join(p)
  <2>1. /\ kind' = [kind EXCEPT ![p] = "none"] /\ fwd' = fwd /\ fwd[p] \in {"none", "done"}
        /\ reg' = reg \ {p}
    BY <1>5 DEF Join, Joinable
  <2> QED
    BY <1>1, <2>1, OnePeer
<1> QED
  BY <1>2, <1>3, <1>4, <1>5
  DEF MainStep, SayOn, ServeRequest, EndClient, PassOn, Close, LeaveDo, OpenFails, Answers,
      AnswersReset, daemon

LEMMA ForwarderStepKeeps ==
  ASSUME KindInv, NEW p \in Peer, ForwarderStep(p)
  PROVE  KindInv'
<1>1. /\ kind \in [Peer -> {"none", "apdu", "monitor"}] /\ fwd \in [Peer -> Forwarding]
      /\ p \in reg \/ fwd[p] \notin {"none", "done"} => kind[p] # "none"
  BY DEF KindInv, NoDangling, Exists
<1>2. /\ kind' = kind /\ fwd[p] \notin {"none", "done"}
      /\ \A q \in Peer \ {p} : q \in reg' => q \in reg
  BY DEF ForwarderStep, RegisterMonitor, TakeFrame, ForwardOn, EndForwarder, ForwarderUnchanged
<1>3. \E f \in Forwarding : fwd' = [fwd EXCEPT ![p] = f]
  <2>1. CASE RegisterMonitor(p)
    BY <2>1 DEF RegisterMonitor, Forwarding
  <2>2. CASE TakeFrame(p) \/ EndForwarder(p)
    BY <2>2 DEF TakeFrame, EndForwarder, Forwarding
  <2>3. CASE ForwardOn(p)
    <3>1. CASE left[p]["fwd"] # <<>>
      <4>1. fwd' = [fwd EXCEPT ![p] = fwd[p]] /\ fwd[p] \in Forwarding
        BY <1>1, <2>3, <3>1 DEF ForwardOn
      <4> QED
        BY <4>1
    <3>2. CASE left[p]["fwd"] = <<>>
      <4>1. fwd' = [fwd EXCEPT ![p] = IF fwd[p] = "write" /\ ~fstop[p] THEN "idle" ELSE "done"]
        BY <2>3, <3>2 DEF ForwardOn
      <4> QED
        BY <4>1 DEF Forwarding
    <3> QED
      BY <3>1, <3>2
  <2> QED
    BY <2>1, <2>2, <2>3 DEF ForwarderStep
<1> QED
  BY <1>1, <1>2, <1>3, OnePeer

LEMMA KindStep == KindInv /\ [ClientsNext]_clvars => KindInv'
<1> SUFFICES ASSUME KindInv, [ClientsNext]_clvars PROVE KindInv'
  OBVIOUS
<1>1. CASE UNCHANGED <<kind, fwd, reg>>
  BY <1>1 DEF KindInv, NoDangling, Exists
<1>2. UNCHANGED clvars \/ StopServer \/ ServerStep => UNCHANGED <<kind, fwd, reg>>
  BY DEF clvars, daemon, StopServer, ServerStep, StopClients, EndServer
<1>3. ASSUME NEW p \in Peer, ProgramStep(p) \/ Accept(p) \/ BusFrame(p)
      PROVE  UNCHANGED <<kind, fwd, reg>>
  BY <1>3
  DEF ProgramStep, Accept, BusFrame, ConnectDaemon, AskDaemon, SendData, Reset, Hangup, ReadPiece,
      Sends, daemon
<1> QED
  BY <1>1, <1>2, <1>3, MainStepKeeps, ForwarderStepKeeps DEF ClientsNext

(* Whatever the number of programs and the room in their sockets: a        *)
(* connection that Layer3 may call, or whose forwarder runs, exists.       *)
THEOREM NoDanglingConnections == ClientsSpec => []NoDangling
<1>1. ClientsInit => KindInv
  BY DEF ClientsInit, KindInv, NoDangling, Forwarding
<1>2. KindInv => NoDangling
  BY DEF KindInv
<1> QED
  BY <1>1, <1>2, KindStep, PTL DEF ClientsSpec

----------------------------------------------------------------------------
(* A program is in step with the daemon.                                   *)

HeadOf(w) == [what |-> w, part |-> "head"]
BodyOf(w) == [what |-> w, part |-> "body"]

(* The pieces of a stream, by their places: data; data behind an answer;   *)
(* and a reset behind n pieces of data.                                    *)
PieceOf(w, k) == IF k % 2 = 1 THEN HeadOf(w) ELSE BodyOf(w)
DataPieces == [k \in Nat |-> PieceOf("data", k)]
AnswerPieces == [k \in Nat |-> PieceOf(IF k <= 2 THEN "answer" ELSE "data", k)]
ResetPieces(n) ==
  [k \in Nat |-> IF k <= n THEN PieceOf("data", k)
                 ELSE IF k = n + 1 THEN HeadOf("reset") ELSE BodyOf("reset")]
Matches(s, P, a) == \A i \in DOMAIN s : s[i] = P[i + a]

(* A head that is read belongs to the stream.                              *)
Ahead(p) == IF half[p] = "none" THEN 0 ELSE 1
Size(p) == Len(sock[p]) + Ahead(p)
Silent(p) == sock[p] = <<>> /\ half[p] = "none"
Says(p, w) ==
  \/ half[p] = "none" /\ sock[p] = Message(w)
  \/ half[p] = w /\ sock[p] = <<BodyOf(w)>>

(* What the forwarder has still to write follows what is on the way.  Only *)
(* when it is stopped a message is cut off, and none follows.              *)
Follows(p) ==
  /\ fwd[p] # "register"
  /\ \/ left[p].fwd = <<>> /\ Size(p) % 2 = 0
     \/ left[p].fwd = <<>> /\ fwd[p] \in {"write", "done"} /\ (fwd[p] = "write" => fstop[p])
     \/ left[p].fwd = <<BodyOf("data")>> /\ Size(p) % 2 = 1 /\ fwd[p] = "write"
     \/ left[p].fwd = Message("data") /\ Size(p) % 2 = 0 /\ fwd[p] = "write"
DataStream(p) ==
  /\ half[p] \in {"none", "data"}
  /\ Matches(sock[p], DataPieces, Ahead(p))
  /\ Follows(p)
AnswerStream(p) ==
  /\ half[p] \in {"none", "answer"} /\ Size(p) >= 2
  /\ Matches(sock[p], AnswerPieces, Ahead(p))
  /\ Follows(p)
ResetStream(p) ==
  \E n \in Nat :
    /\ Size(p) \in {n, n + 1, n + 2}
    /\ half[p] \in {"none", IF n = 0 THEN "reset" ELSE "data"}
    /\ Matches(sock[p], ResetPieces(n), Ahead(p))
    /\ \/ left[p].main = <<>>
       \/ left[p].main = <<BodyOf("reset")>> /\ Size(p) = n + 1
       \/ left[p].main = Message("reset") /\ Size(p) = n

Away == {"off", "read", "write", "end", "gone"}
Within == {"do", "join"}
Past == {"end", "gone"}

(* Whoever serves a connection exists; whoever is done has written all.    *)
Serves(p) ==
  /\ kind[p] # "none" <=> main[p] \in Within
  /\ fwd[p] \notin {"none", "done"} \/ p \in reg => main[p] \in Within
  /\ left[p].main # <<>> => main[p] = "write"
  /\ fwd[p] \in {"none", "register", "idle", "refused", "done"} => left[p].fwd = <<>>
  /\ main[p] = "join" => then[p] = "reset" \/ stopped[p]
  /\ main[p] = "join" => then[p] = "read" \/ (then[p] = "reset" /\ app[p] = "resetting")
  /\ main[p] = "write" => then[p] = "read"

OnlyData(s) == \A i \in DOMAIN s : s[i] = "data"
ThenReset(s) ==
  s # <<>> /\ \A i \in DOMAIN s : s[i] = IF i = Len(s) THEN "reset" ELSE "data"

IsOff(p) == main[p] = "off" /\ Silent(p) /\ inp[p] = <<>> /\ fwd[p] \in {"none", "done"}
IsPristine(p) == main[p] \in Away /\ left[p].main = <<>> /\ Silent(p) /\ inp[p] = <<>>
IsAsking(p) ==
  /\ main[p] \in Away /\ left[p].main = <<>>
  /\ \/ inp[p] = <<"command">> /\ Silent(p)
     \/ inp[p] = <<>> /\ Says(p, "answer")
IsOpening(p) ==
  /\ left[p].main = <<>>
  /\ \/ main[p] \in Away /\ Silent(p) /\ inp[p] \in {<<"apdu">>, <<"monitor">>}
     \/ main[p] \in Away /\ Says(p, "refusal") /\ inp[p] = <<>>
     \/ main[p] \in Within \cup Past /\ AnswerStream(p) /\ inp[p] = <<>>
     \/ /\ main[p] \in Within /\ fwd[p] = "register" /\ Silent(p)
        /\ inp[p] = <<>> /\ p \notin reg /\ kind[p] = "monitor"
     \/ /\ main[p] \in Within /\ fwd[p] \in {"refused", "done"} /\ Says(p, "refusal")
        /\ inp[p] = <<>> /\ p \notin reg /\ kind[p] = "monitor"
IsOpen(p) ==
  main[p] \in Within \cup Past /\ left[p].main = <<>> /\ DataStream(p) /\ OnlyData(inp[p])
IsRefused(p) ==
  /\ main[p] \in Within \cup Past /\ left[p].main = <<>> /\ Silent(p) /\ inp[p] = <<>>
  /\ fwd[p] \in {"refused", "done"} /\ p \notin reg
Leaves(p) ==
  \/ main[p] = "do" /\ ThenReset(inp[p])
  \/ main[p] = "join" /\ (then[p] = "reset" => inp[p] = <<>>)
  \/ main[p] \in Past
  \/ main[p] \in Away /\ Silent(p) /\ inp[p] = <<"reset">>
IsResetting(p) ==
  \/ left[p].main = <<>> /\ DataStream(p) /\ Leaves(p)
  \/ main[p] \in Away /\ inp[p] = <<>> /\ ResetStream(p)

PhaseOf(p) ==
  /\ app[p] \in {"off", "pristine", "asking", "opening", "open", "refused", "resetting"}
  /\ app[p] = "off" => IsOff(p)
  /\ app[p] = "pristine" => IsPristine(p)
  /\ app[p] = "asking" => IsAsking(p)
  /\ app[p] = "opening" => IsOpening(p)
  /\ app[p] = "open" => IsOpen(p)
  /\ app[p] = "refused" => IsRefused(p)
  /\ app[p] = "resetting" => IsResetting(p)

ClTyped ==
  /\ main = [p \in Peer |-> main[p]] /\ then = [p \in Peer |-> then[p]]
  /\ kind = [p \in Peer |-> kind[p]] /\ fwd = [p \in Peer |-> fwd[p]]
  /\ fstop = [p \in Peer |-> fstop[p]] /\ half = [p \in Peer |-> half[p]]
  /\ app = [p \in Peer |-> app[p]] /\ waiting = [p \in Peer |-> waiting[p]]
  /\ sent = [p \in Peer |-> sent[p]] /\ stopped = [p \in Peer |-> stopped[p]]
  /\ inp \in [Peer -> Seq(Request \cup {"data", "reset", "eof"})]
  /\ sock \in [Peer -> Seq(Piece)] /\ \A p \in Peer : Len(sock[p]) <= Room
  /\ left \in [Peer -> [main : Seq(Piece), fwd : Seq(Piece)]]

Live(p) == app[p] \notin {"closed", "broken"}
ClInv == ClTyped /\ \A p \in Peer : Live(p) => Serves(p) /\ PhaseOf(p)

----------------------------------------------------------------------------
Whats == {"answer", "refusal", "data", "reset"}

LEMMA MessagePieces ==
  ASSUME NEW w \in Whats
  PROVE  /\ Message(w) = <<HeadOf(w), BodyOf(w)>>
         /\ HeadOf(w) \in Piece /\ BodyOf(w) \in Piece
         /\ Message(w) \in Seq(Piece) /\ Len(Message(w)) = 2
         /\ <<BodyOf(w)>> \in Seq(Piece) /\ <<HeadOf(w)>> \in Seq(Piece)
<1>1. HeadOf(w) \in Piece /\ BodyOf(w) \in Piece
  BY DEF HeadOf, BodyOf, Piece, Whats
<1>2. Message(w) = <<HeadOf(w), BodyOf(w)>>
  BY DEF HeadOf, BodyOf, Message
<1> QED
  BY <1>1, <1>2

(* What a thread says, some of it is sent at once.                         *)
SendsUpTo(p, t, pieces, k) ==
  /\ sock' = [sock EXCEPT ![p] = sock[p] \o SubSeq(pieces, 1, k)]
  /\ left' = [left EXCEPT ![p][t] =
       IF app[p] = "closed" THEN <<>> ELSE SubSeq(pieces, k + 1, Len(pieces))]
  /\ Len(sock[p]) + k <= Room
  /\ Len(sock[p]) + Len(pieces) <= Room => k = Len(pieces)

LEMMA SendsPart ==
  ASSUME ClTyped, NEW p \in Peer, NEW t \in {"main", "fwd"}, NEW pieces \in Seq(Piece),
         sendmessage(p, t, pieces)
  PROVE  \E k \in 0 .. Len(pieces) : SendsUpTo(p, t, pieces, k)
<1> DEFINE m == Len(sock[p])
           n == Len(pieces)
           k == IF n <= Room - m THEN n ELSE Room - m
<1>1. m \in Nat /\ m <= Room /\ Room \in Nat /\ n \in Nat
  BY ClientsAssumption DEF ClTyped
<1>2. k \in 0 .. n /\ m + k <= Room /\ (m + n <= Room => k = n)
  <2> HIDE DEF m, n
  <2> QED
    BY <1>1
<1>3. /\ sock' = [sock EXCEPT ![p] = sock[p] \o SubSeq(pieces, 1, k)]
      /\ left' = [left EXCEPT ![p][t] =
           IF app[p] = "closed" THEN <<>> ELSE SubSeq(pieces, k + 1, Len(pieces))]
  BY DEF sendmessage
<1> HIDE DEF k
<1>4. SendsUpTo(p, t, pieces, k)
  BY <1>2, <1>3 DEF SendsUpTo
<1> QED
  BY <1>2, <1>4


LEMMA PairCut ==
  ASSUME NEW S, NEW s \in Seq(S), Len(s) = 2
  PROVE  /\ SubSeq(s, 1, 0) = <<>> /\ SubSeq(s, 1, 2) = s
         /\ SubSeq(s, 1, 1) = <<s[1]>> /\ SubSeq(s, 2, 2) = <<s[2]>>
         /\ SubSeq(s, 3, 2) = <<>>
<1>1. SubSeq(s, 1, 0) = <<>>
  OBVIOUS
<1>2. SubSeq(s, 1, 2) = s
  OBVIOUS
<1>3. SubSeq(s, 3, 2) = <<>>
  OBVIOUS
<1> DEFINE x == SubSeq(s, 1, 1)
           y == SubSeq(s, 2, 2)
<1>4. x \in Seq(S) /\ Len(x) = 1 /\ x[1] = s[1]
  OBVIOUS
<1>5. y \in Seq(S) /\ Len(y) = 1 /\ y[1] = s[2]
  OBVIOUS
<1> HIDE DEF x, y
<1>6. x = <<s[1]>> /\ y = <<s[2]>>
  BY <1>4, <1>5
<1> QED
  BY <1>1, <1>2, <1>3, <1>6 DEF x, y

LEMMA OneCut ==
  ASSUME NEW S, NEW s \in Seq(S), Len(s) = 1
  PROVE  SubSeq(s, 1, 0) = <<>> /\ SubSeq(s, 2, 1) = <<>> /\ SubSeq(s, 1, 1) = s
OBVIOUS

Becomes(p, t, x, y) ==
  sock' = [sock EXCEPT ![p] = x] /\ left' = [left EXCEPT ![p][t] = y]

(* What of a message, or of its rest, is on the way then.                  *)
LEMMA SendsMessage ==
  ASSUME ClTyped, NEW p \in Peer, NEW t \in {"main", "fwd"}, NEW w \in Whats,
         sendmessage(p, t, Message(w)), app[p] # "closed"
  PROVE  /\ \/ Becomes(p, t, sock[p], Message(w))
            \/ Becomes(p, t, Append(sock[p], HeadOf(w)), <<BodyOf(w)>>)
            \/ Becomes(p, t, Append(Append(sock[p], HeadOf(w)), BodyOf(w)), <<>>)
         /\ sock[p] = <<>> => Becomes(p, t, Message(w), <<>>)
<1> DEFINE s == sock[p]
           h == HeadOf(w)
           b == BodyOf(w)
           m == Message(w)
<1>m. m = <<h, b>> /\ h \in Piece /\ b \in Piece /\ m \in Seq(Piece) /\ Len(m) = 2
  BY MessagePieces
<1>s. s \in Seq(Piece) /\ sock = [q \in Peer |-> sock[q]]
  BY DEF ClTyped
<1>1. \E k \in 0 .. 2 :
           /\ sock' = [sock EXCEPT ![p] = s \o SubSeq(m, 1, k)]
           /\ left' = [left EXCEPT ![p][t] = SubSeq(m, k + 1, 2)]
           /\ Len(s) + 2 <= Room => k = 2
  <2>1. sendmessage(p, t, m)
    OBVIOUS
  <2> HIDE DEF m
  <2>2. PICK k \in 0 .. Len(m) : SendsUpTo(p, t, m, k)
    BY <2>1, <1>m, SendsPart
  <2>3. left' = [left EXCEPT ![p][t] = SubSeq(m, k + 1, 2)]
    BY <2>2, <1>m, Zenon DEF SendsUpTo
  <2> QED
    BY <2>2, <2>3, <1>m DEF SendsUpTo
<1> HIDE DEF h, b, m
<1>2. PICK k \in 0 .. 2 :
           /\ sock' = [sock EXCEPT ![p] = s \o SubSeq(m, 1, k)]
           /\ left' = [left EXCEPT ![p][t] = SubSeq(m, k + 1, 2)]
           /\ Len(s) + 2 <= Room => k = 2
  BY <1>1
<1>c. /\ SubSeq(m, 1, 0) = <<>> /\ SubSeq(m, 1, 2) = m
      /\ SubSeq(m, 1, 1) = <<h>> /\ SubSeq(m, 2, 2) = <<b>> /\ SubSeq(m, 3, 2) = <<>>
  <2>1. m[1] = h /\ m[2] = b
    BY <1>m
  <2>2. /\ SubSeq(m, 1, 0) = <<>> /\ SubSeq(m, 1, 2) = m
        /\ SubSeq(m, 1, 1) = <<m[1]>> /\ SubSeq(m, 2, 2) = <<m[2]>> /\ SubSeq(m, 3, 2) = <<>>
    BY <1>m, PairCut, Zenon
  <2> QED
    BY <2>1, <2>2, Zenon
<1>a. s \o <<>> = s /\ s \o <<h>> = Append(s, h) /\ s \o <<h, b>> = Append(Append(s, h), b)
  BY <1>m, <1>s
<1>3. CASE k = 0
  <2>1. sock' = [sock EXCEPT ![p] = s]
    BY <1>2, <1>3, <1>c, <1>a, <1>s
  <2>2. left' = [left EXCEPT ![p][t] = m]
    <3>1. SubSeq(m, k + 1, 2) = m
      BY <1>3, <1>c
    <3> QED
      BY <1>2, <3>1, Zenon
  <2>3. s # <<>>
    BY <1>2, <1>3, ClientsAssumption
  <2> QED
    BY <2>1, <2>2, <2>3, Zenon DEF m, Becomes
<1>4. CASE k = 1
  <2>1. sock' = [sock EXCEPT ![p] = Append(s, h)]
    BY <1>2, <1>4, <1>c, <1>a
  <2>2. left' = [left EXCEPT ![p][t] = <<b>>]
    <3>1. SubSeq(m, k + 1, 2) = <<b>>
      BY <1>4, <1>c
    <3> QED
      BY <1>2, <3>1, Zenon
  <2>3. s # <<>>
    BY <1>2, <1>4, ClientsAssumption
  <2> QED
    BY <2>1, <2>2, <2>3, Zenon DEF h, b, Becomes
<1>5. CASE k = 2
  <2>1. sock' = [sock EXCEPT ![p] = Append(Append(s, h), b)]
    BY <1>2, <1>5, <1>c, <1>a, <1>m
  <2>2. left' = [left EXCEPT ![p][t] = <<>>]
    <3>1. SubSeq(m, k + 1, 2) = <<>>
      BY <1>5, <1>c
    <3> QED
      BY <1>2, <3>1, Zenon
  <2>3. s = <<>> => Append(Append(s, h), b) = m
    <3>1. <<>> \o m = m
      BY <1>m
    <3> QED
      BY <1>m, <1>a, <3>1, Zenon
  <2>4. s = <<>> => sock' = [sock EXCEPT ![p] = m]
    BY <2>1, <2>3
  <2> QED
    BY <2>1, <2>2, <2>4, Zenon DEF h, b, m, Becomes
<1> QED
  BY <1>2, <1>3, <1>4, <1>5

(* The rest of a message is one piece, or all of it.                       *)
LEMMA SendsRest ==
  ASSUME ClTyped, NEW p \in Peer, NEW t \in {"main", "fwd"}, NEW b \in Piece,
         sendmessage(p, t, <<b>>), app[p] # "closed"
  PROVE  Becomes(p, t, sock[p], <<b>>) \/ Becomes(p, t, Append(sock[p], b), <<>>)
<1> DEFINE s == sock[p]
           m == <<b>>
<1>m. m \in Seq(Piece) /\ Len(m) = 1
  OBVIOUS
<1>s. s \in Seq(Piece) /\ sock = [q \in Peer |-> sock[q]]
  BY DEF ClTyped
<1>1. sendmessage(p, t, m)
  OBVIOUS
<1>a. s \o <<>> = s /\ s \o m = Append(s, b)
  BY <1>s
<1> HIDE DEF m
<1>6. PICK k \in 0 .. Len(m) : SendsUpTo(p, t, m, k)
  BY <1>1, <1>m, SendsPart
<1>2. sock' = [sock EXCEPT ![p] = s \o SubSeq(m, 1, k)]
  BY <1>6 DEF SendsUpTo
<1>3. left' = [left EXCEPT ![p][t] = SubSeq(m, k + 1, 1)]
  BY <1>6, <1>m, Zenon DEF SendsUpTo
<1>c. SubSeq(m, 1, 0) = <<>> /\ SubSeq(m, 2, 1) = <<>> /\ SubSeq(m, 1, 1) = m
  BY <1>m, OneCut
<1>4. CASE k = 0
  <2>1. sock' = [sock EXCEPT ![p] = s]
    BY <1>2, <1>4, <1>c, <1>a, <1>s
  <2>2. left' = [left EXCEPT ![p][t] = m]
    <3>1. SubSeq(m, k + 1, 1) = m
      BY <1>4, <1>c
    <3> QED
      BY <1>3, <3>1, Zenon
  <2> QED
    BY <2>1, <2>2, Zenon DEF m, Becomes
<1>5. CASE k = 1
  <2>1. sock' = [sock EXCEPT ![p] = Append(s, b)]
    BY <1>2, <1>5, <1>c, <1>a
  <2>2. left' = [left EXCEPT ![p][t] = <<>>]
    <3>1. SubSeq(m, k + 1, 1) = <<>>
      BY <1>5, <1>c
    <3> QED
      BY <1>3, <3>1, Zenon
  <2> QED
    BY <2>1, <2>2, Zenon DEF Becomes
<1> QED
  BY <1>6, <1>4, <1>5, <1>m

LEMMA TypedSends ==
  ASSUME ClTyped, NEW p \in Peer, NEW t \in {"main", "fwd"}, NEW pieces \in Seq(Piece),
         sendmessage(p, t, pieces)
  PROVE  /\ sock' \in [Peer -> Seq(Piece)] /\ \A q \in Peer : Len(sock'[q]) <= Room
         /\ left' \in [Peer -> [main : Seq(Piece), fwd : Seq(Piece)]]
         /\ \A q \in Peer : q # p => sock'[q] = sock[q] /\ left'[q] = left[q]
         /\ t = "main" => left'[p].fwd = left[p].fwd
         /\ t = "fwd" => left'[p].main = left[p].main
<1>1. PICK k \in 0 .. Len(pieces) : SendsUpTo(p, t, pieces, k)
  BY SendsPart
<1> DEFINE x == SubSeq(pieces, 1, k)
           y == IF app[p] = "closed" THEN <<>> ELSE SubSeq(pieces, k + 1, Len(pieces))
<1>2. x \in Seq(Piece) /\ Len(x) = k /\ y \in Seq(Piece)
  OBVIOUS
<1>3. sock' = [sock EXCEPT ![p] = sock[p] \o x] /\ left' = [left EXCEPT ![p][t] = y]
        /\ Len(sock[p]) + k <= Room
  BY <1>1 DEF SendsUpTo
<1> HIDE DEF x, y
<1>4. sock \in [Peer -> Seq(Piece)] /\ \A q \in Peer : Len(sock[q]) <= Room
  BY DEF ClTyped
<1>5. left \in [Peer -> [main : Seq(Piece), fwd : Seq(Piece)]]
  BY DEF ClTyped
<1>6. sock[p] \o x \in Seq(Piece) /\ Len(sock[p] \o x) <= Room
  <2>0. \A a, b \in Seq(Piece) : Len(a \o b) = Len(a) + Len(b)
    OBVIOUS
  <2>1. Len(sock[p] \o x) = Len(sock[p]) + k
    BY <1>2, <1>4, <2>0
  <2> QED
    BY <1>2, <1>3, <1>4, <2>1
<1>7. sock' \in [Peer -> Seq(Piece)] /\ \A q \in Peer : Len(sock'[q]) <= Room
  BY <1>3, <1>4, <1>6
<1>8. CASE t = "main"
  <2>1. left' = [left EXCEPT ![p] = [left[p] EXCEPT !.main = y]]
    BY <1>3, <1>8
  <2>2. [left[p] EXCEPT !.main = y] \in [main : Seq(Piece), fwd : Seq(Piece)]
    BY <1>2, <1>5
  <2> QED
    BY <1>3, <1>5, <1>7, <1>8, <2>1, <2>2
<1>9. CASE t = "fwd"
  <2>1. left' = [left EXCEPT ![p] = [left[p] EXCEPT !.fwd = y]]
    BY <1>3, <1>9
  <2>2. [left[p] EXCEPT !.fwd = y] \in [main : Seq(Piece), fwd : Seq(Piece)]
    BY <1>2, <1>5
  <2> QED
    BY <1>3, <1>5, <1>7, <1>9, <2>1, <2>2
<1> QED
  BY <1>8, <1>9

(* What is on the way to a program, and what a thread has still to write.  *)
LEMMA BecomesSo ==
  ASSUME ClTyped, NEW p \in Peer, NEW x, NEW y
  PROVE  /\ Becomes(p, "main", x, y) => sock'[p] = x /\ left'[p].main = y
         /\ Becomes(p, "fwd", x, y) => sock'[p] = x /\ left'[p].fwd = y
<1>1. sock \in [Peer -> Seq(Piece)] /\ left \in [Peer -> [main : Seq(Piece), fwd : Seq(Piece)]]
  BY DEF ClTyped
<1> QED
  BY <1>1 DEF Becomes

LEMMA MainSays ==
  ASSUME ClTyped, NEW p \in Peer, NEW w \in Whats,
         sendmessage(p, "main", Message(w)), app[p] # "closed"
  PROVE  /\ \/ sock'[p] = sock[p] /\ left'[p].main = Message(w)
            \/ sock'[p] = Append(sock[p], HeadOf(w)) /\ left'[p].main = <<BodyOf(w)>>
            \/ sock'[p] = Append(Append(sock[p], HeadOf(w)), BodyOf(w)) /\ left'[p].main = <<>>
         /\ sock[p] = <<>> => sock'[p] = Message(w) /\ left'[p].main = <<>>
<1>1. /\ \/ Becomes(p, "main", sock[p], Message(w))
         \/ Becomes(p, "main", Append(sock[p], HeadOf(w)), <<BodyOf(w)>>)
         \/ Becomes(p, "main", Append(Append(sock[p], HeadOf(w)), BodyOf(w)), <<>>)
      /\ sock[p] = <<>> => Becomes(p, "main", Message(w), <<>>)
  BY SendsMessage
<1> QED
  BY <1>1, BecomesSo, Zenon

LEMMA ForwarderSays ==
  ASSUME ClTyped, NEW p \in Peer, NEW w \in Whats,
         sendmessage(p, "fwd", Message(w)), app[p] # "closed"
  PROVE  /\ \/ sock'[p] = sock[p] /\ left'[p].fwd = Message(w)
            \/ sock'[p] = Append(sock[p], HeadOf(w)) /\ left'[p].fwd = <<BodyOf(w)>>
            \/ sock'[p] = Append(Append(sock[p], HeadOf(w)), BodyOf(w)) /\ left'[p].fwd = <<>>
         /\ sock[p] = <<>> => sock'[p] = Message(w) /\ left'[p].fwd = <<>>
<1>1. /\ \/ Becomes(p, "fwd", sock[p], Message(w))
         \/ Becomes(p, "fwd", Append(sock[p], HeadOf(w)), <<BodyOf(w)>>)
         \/ Becomes(p, "fwd", Append(Append(sock[p], HeadOf(w)), BodyOf(w)), <<>>)
      /\ sock[p] = <<>> => Becomes(p, "fwd", Message(w), <<>>)
  BY SendsMessage
<1> QED
  BY <1>1, BecomesSo, Zenon

LEMMA RestIsSaid ==
  ASSUME ClTyped, NEW p \in Peer, NEW b \in Piece, app[p] # "closed"
  PROVE  /\ sendmessage(p, "main", <<b>>) =>
              \/ sock'[p] = sock[p] /\ left'[p].main = <<b>>
              \/ sock'[p] = Append(sock[p], b) /\ left'[p].main = <<>>
         /\ sendmessage(p, "fwd", <<b>>) =>
              \/ sock'[p] = sock[p] /\ left'[p].fwd = <<b>>
              \/ sock'[p] = Append(sock[p], b) /\ left'[p].fwd = <<>>
BY SendsRest, BecomesSo, Zenon

----------------------------------------------------------------------------
(* Streams.                                                                *)
LEMMA MatchesOn ==
  ASSUME NEW s \in Seq(Piece), NEW P, NEW a \in Nat, Matches(s, P, a), NEW x, x = P[Len(s) + 1 + a]
  PROVE  Matches(Append(s, x), P, a)
<1>1. DOMAIN Append(s, x) = DOMAIN s \cup {Len(s) + 1}
  OBVIOUS
<1>2. \A i \in DOMAIN s : Append(s, x)[i] = s[i]
  OBVIOUS
<1>3. Append(s, x)[Len(s) + 1] = x
  OBVIOUS
<1> QED
  BY <1>1, <1>2, <1>3, Zenon DEF Matches

LEMMA MatchesRest ==
  ASSUME NEW s \in Seq(Piece), NEW P, NEW a \in Nat, Matches(s, P, a), s # <<>>
  PROVE  Head(s) = P[1 + a] /\ Matches(Tail(s), P, a + 1) /\ Len(Tail(s)) = Len(s) - 1
<1>1. \A i \in DOMAIN Tail(s) : i + 1 \in DOMAIN s /\ Tail(s)[i] = s[i + 1] /\ (i + 1) + a = i + (a + 1)
  OBVIOUS
<1>2. 1 \in DOMAIN s /\ Head(s) = s[1] /\ Len(Tail(s)) = Len(s) - 1
  OBVIOUS
<1>3. \A i \in DOMAIN Tail(s) : Tail(s)[i] = P[i + (a + 1)]
  <2> SUFFICES ASSUME NEW i \in DOMAIN Tail(s) PROVE Tail(s)[i] = P[i + (a + 1)]
    OBVIOUS
  <2>1. s[i + 1] = P[(i + 1) + a]
    BY <1>1 DEF Matches
  <2> QED
    BY <1>1, <2>1
<1> QED
  BY <1>2, <1>3 DEF Matches

LEMMA PiecesAre ==
  ASSUME NEW k \in Nat
  PROVE  /\ k % 2 = 1 => DataPieces[k] = HeadOf("data")
         /\ k % 2 = 0 => DataPieces[k] = BodyOf("data")
         /\ k > 2 => AnswerPieces[k] = DataPieces[k]
         /\ AnswerPieces[1] = HeadOf("answer") /\ AnswerPieces[2] = BodyOf("answer")
         /\ \A n \in Nat : /\ k <= n => ResetPieces(n)[k] = DataPieces[k]
                           /\ ResetPieces(n)[n + 1] = HeadOf("reset")
                           /\ ResetPieces(n)[n + 2] = BodyOf("reset")
BY DEF DataPieces, AnswerPieces, ResetPieces, PieceOf

(* Data goes on where the last message has ended, or its head.             *)
LEMMA DataGoesOn ==
  ASSUME NEW s \in Seq(Piece), NEW a \in {0, 1}, NEW P,
         P = DataPieces \/ (P = AnswerPieces /\ Len(s) + a >= 2), Matches(s, P, a)
  PROVE  /\ (Len(s) + a) % 2 = 0 =>
              /\ Matches(Append(s, HeadOf("data")), P, a)
              /\ Matches(Append(Append(s, HeadOf("data")), BodyOf("data")), P, a)
         /\ (Len(s) + a) % 2 = 1 => Matches(Append(s, BodyOf("data")), P, a)
<1> DEFINE n == Len(s)
<1>1. n \in Nat /\ a \in Nat
  OBVIOUS
<1>n. n + 1 + a \in Nat /\ n + 2 + a \in Nat /\ (n + a >= 2 => n + 1 + a > 2 /\ n + 2 + a > 2)
  <2> HIDE DEF n
  <2> QED
    BY <1>1
<1>p. P[n + 1 + a] = DataPieces[n + 1 + a] /\ P[n + 2 + a] = DataPieces[n + 2 + a]
  <2>1. CASE P = DataPieces
    BY <2>1
  <2>2. CASE P = AnswerPieces /\ Len(s) + a >= 2
    <3>1. n + 1 + a > 2 /\ n + 2 + a > 2
      BY <2>2, <1>n
    <3> HIDE DEF n
    <3>2. AnswerPieces[n + 1 + a] = DataPieces[n + 1 + a] /\ AnswerPieces[n + 2 + a] = DataPieces[n + 2 + a]
      BY <3>1, <1>n, PiecesAre
    <3> QED
      BY <2>2, <3>2
  <2> QED
    BY <2>1, <2>2
<1>e. (n + a) % 2 = 0 => P[n + 1 + a] = HeadOf("data") /\ P[n + 2 + a] = BodyOf("data")
  <2> HIDE DEF n
  <2>1. (n + a) % 2 = 0 => (n + 1 + a) % 2 = 1 /\ (n + 2 + a) % 2 = 0
    BY <1>1
  <2>2. n + 1 + a \in Nat /\ n + 2 + a \in Nat
    BY <1>1
  <2> QED
    BY <2>1, <2>2, <1>p, PiecesAre
<1>o. (n + a) % 2 = 1 => P[n + 1 + a] = BodyOf("data")
  <2> HIDE DEF n
  <2>1. (n + a) % 2 = 1 => (n + 1 + a) % 2 = 0
    BY <1>1
  <2>2. n + 1 + a \in Nat
    BY <1>1
  <2> QED
    BY <2>1, <2>2, <1>p, PiecesAre
<1>2. HeadOf("data") \in Piece /\ BodyOf("data") \in Piece
  BY MessagePieces DEF Whats
<1>3. ASSUME (n + a) % 2 = 0
      PROVE /\ Matches(Append(s, HeadOf("data")), P, a)
            /\ Matches(Append(Append(s, HeadOf("data")), BodyOf("data")), P, a)
  <2> DEFINE h == HeadOf("data")
             t == Append(s, h)
  <2>1. Matches(t, P, a)
    BY <1>3, <1>e, <1>1, MatchesOn
  <2>2. t \in Seq(Piece) /\ Len(t) = n + 1
    BY <1>2
  <2>3. BodyOf("data") = P[Len(t) + 1 + a]
    <3>1. Len(t) + 1 + a = n + 2 + a
      <4> HIDE DEF t, n
      <4> QED
        BY <2>2, <1>1
    <3> QED
      BY <3>1, <1>3, <1>e
  <2> HIDE DEF t
  <2>4. Matches(Append(t, BodyOf("data")), P, a)
    BY <2>1, <2>2, <2>3, <1>1, MatchesOn
  <2> QED
    BY <2>1, <2>4 DEF t
<1>4. ASSUME (n + a) % 2 = 1 PROVE Matches(Append(s, BodyOf("data")), P, a)
  BY <1>4, <1>o, <1>1, MatchesOn
<1> QED
  BY <1>3, <1>4

(* A reset follows the data, whole or cut off.                             *)
LEMMA ResetGoesOn ==
  ASSUME NEW s \in Seq(Piece), NEW a \in {0, 1}, NEW n \in Nat
  PROVE  /\ Matches(s, DataPieces, a) /\ n = Len(s) + a =>
              /\ Matches(s, ResetPieces(n), a)
              /\ Matches(Append(s, HeadOf("reset")), ResetPieces(n), a)
              /\ Matches(Append(Append(s, HeadOf("reset")), BodyOf("reset")), ResetPieces(n), a)
         /\ Matches(s, ResetPieces(n), a) /\ n = Len(s) + a =>
              /\ Matches(Append(s, HeadOf("reset")), ResetPieces(n), a)
              /\ Matches(Append(Append(s, HeadOf("reset")), BodyOf("reset")), ResetPieces(n), a)
         /\ Matches(s, ResetPieces(n), a) /\ n + 1 = Len(s) + a =>
              Matches(Append(s, BodyOf("reset")), ResetPieces(n), a)
<1> DEFINE P == ResetPieces(n)
<1>1. a \in Nat /\ Len(s) \in Nat
  OBVIOUS
<1>2. HeadOf("reset") \in Piece /\ BodyOf("reset") \in Piece
  BY MessagePieces DEF Whats
<1>3. P[n + 1] = HeadOf("reset") /\ P[n + 2] = BodyOf("reset")
  BY PiecesAre
<1>4. Matches(s, DataPieces, a) /\ n = Len(s) + a => Matches(s, P, a)
  <2> SUFFICES ASSUME Matches(s, DataPieces, a), n = Len(s) + a, NEW i \in DOMAIN s
               PROVE  s[i] = P[i + a]
    BY DEF Matches
  <2>1. i + a \in Nat /\ i + a <= n
    OBVIOUS
  <2>2. P[i + a] = DataPieces[i + a]
    BY <2>1, PiecesAre
  <2> QED
    BY <2>2 DEF Matches
<1> HIDE DEF P
<1>5. ASSUME Matches(s, P, a), n = Len(s) + a
      PROVE  Matches(Append(s, HeadOf("reset")), P, a)
             /\ Matches(Append(Append(s, HeadOf("reset")), BodyOf("reset")), P, a)
  <2> DEFINE h == HeadOf("reset")
             t == Append(s, h)
             l == Len(s)
  <2>1. h = P[l + 1 + a]
    <3>1. l + 1 + a = n + 1
      <4> HIDE DEF l
      <4>1. l \in Nat /\ n = l + a
        BY <1>1, <1>5 DEF l
      <4> QED
        BY <4>1, <1>1
    <3> QED
      BY <3>1, <1>3
  <2>2. Matches(t, P, a)
    BY <1>1, <1>5, <2>1, MatchesOn
  <2>3. t \in Seq(Piece) /\ Len(t) = l + 1
    BY <1>2
  <2>4. BodyOf("reset") = P[Len(t) + 1 + a]
    <3>1. Len(t) + 1 + a = n + 2
      <4> HIDE DEF l, t
      <4>1. l \in Nat /\ n = l + a
        BY <1>1, <1>5 DEF l
      <4> QED
        BY <4>1, <1>1, <2>3
    <3> QED
      BY <3>1, <1>3
  <2> HIDE DEF t
  <2>5. Matches(Append(t, BodyOf("reset")), P, a)
    BY <2>2, <2>3, <2>4, <1>1, MatchesOn
  <2> QED
    BY <2>2, <2>5 DEF t
<1>6. ASSUME Matches(s, P, a), n + 1 = Len(s) + a PROVE Matches(Append(s, BodyOf("reset")), P, a)
  <2> DEFINE l == Len(s)
  <2>1. l + 1 + a = n + 2
    <3> HIDE DEF l
    <3>1. l \in Nat /\ n + 1 = l + a
      BY <1>1, <1>6 DEF l
    <3> QED
      BY <3>1, <1>1
  <2>2. BodyOf("reset") = P[Len(s) + 1 + a]
    BY <2>1, <1>3
  <2> QED
    BY <1>1, <1>6, <2>2, MatchesOn
<1> QED
  BY <1>4, <1>5, <1>6 DEF P

----------------------------------------------------------------------------
(* What a step leaves alone.                                               *)
Whole(p) ==
  /\ sock'[p] = sock[p] /\ half'[p] = half[p]
  /\ left'[p] = left[p]

Same(p) ==
  /\ Whole(p)
  /\ main'[p] = main[p] /\ then'[p] = then[p]
  /\ main[p] = "join" /\ stopped[p] => stopped'[p]
  /\ inp'[p] = inp[p] /\ kind'[p] = kind[p] /\ fwd'[p] = fwd[p] /\ fstop'[p] = fstop[p]
  /\ p \in reg' <=> p \in reg
  /\ app'[p] = app[p]

LEMMA StreamsStay ==
  ASSUME NEW p \in Peer, sock'[p] = sock[p], half'[p] = half[p]
  PROVE  /\ Silent(p) => Silent(p)'
         /\ \A w : Says(p, w) => Says(p, w)'
         /\ left'[p].main = left[p].main /\ ResetStream(p) => ResetStream(p)'
         /\ left'[p].fwd = left[p].fwd /\ fwd'[p] = fwd[p] /\ (fstop[p] => fstop'[p]) =>
              /\ Follows(p) => Follows(p)'
              /\ DataStream(p) => DataStream(p)'
              /\ AnswerStream(p) => AnswerStream(p)'
<1>1. Ahead(p)' = Ahead(p)
  BY DEF Ahead
<1>2. Size(p)' = Size(p)
  BY <1>1 DEF Size
<1>3. /\ Silent(p) => Silent(p)'
      /\ \A w : Says(p, w) => Says(p, w)'
  BY DEF Silent, Says, BodyOf, Message
<1>4. ASSUME left'[p].main = left[p].main, ResetStream(p) PROVE ResetStream(p)'
  BY <1>1, <1>2, <1>4, Zenon DEF ResetStream, ResetPieces, Matches, BodyOf, Message, PieceOf, HeadOf
<1>5. ASSUME left'[p].fwd = left[p].fwd, fwd'[p] = fwd[p], fstop[p] => fstop'[p]
      PROVE  Follows(p) => Follows(p)'
  BY <1>2, <1>5 DEF Follows, BodyOf, Message
<1>6. ASSUME left'[p].fwd = left[p].fwd, fwd'[p] = fwd[p], fstop[p] => fstop'[p], DataStream(p)
      PROVE  DataStream(p)'
  <2>1. Follows(p)'
    BY <1>5, <1>6 DEF DataStream
  <2> QED
    BY <1>1, <1>6, <2>1, Zenon DEF DataStream, Matches, DataPieces, PieceOf, HeadOf, BodyOf
<1>7. ASSUME left'[p].fwd = left[p].fwd, fwd'[p] = fwd[p], fstop[p] => fstop'[p], AnswerStream(p)
      PROVE  AnswerStream(p)'
  <2>1. Follows(p)'
    BY <1>5, <1>7 DEF AnswerStream
  <2> QED
    BY <1>1, <1>2, <1>7, <2>1, Zenon DEF AnswerStream, Matches, AnswerPieces, PieceOf, HeadOf, BodyOf
<1> QED
  BY <1>3, <1>4, <1>5, <1>6, <1>7

LEMMA PhaseStays ==
  ASSUME NEW p \in Peer, Same(p)
  PROVE  /\ Live(p)' => Live(p)
         /\ Serves(p) => Serves(p)'
         /\ PhaseOf(p) => PhaseOf(p)'
<1>1. Live(p)' => Live(p)
  BY DEF Same, Live
<1>2. Serves(p) => Serves(p)'
  BY DEF Same, Whole, Serves, Within
<1>3. PhaseOf(p) => PhaseOf(p)'
  <2>1. /\ Silent(p) => Silent(p)'
        /\ \A w : Says(p, w) => Says(p, w)'
        /\ ResetStream(p) => ResetStream(p)'
        /\ DataStream(p) => DataStream(p)'
        /\ AnswerStream(p) => AnswerStream(p)'
    BY StreamsStay, Zenon DEF Same, Whole
  <2>2. /\ IsOff(p) => IsOff(p)'
        /\ IsPristine(p) => IsPristine(p)'
        /\ IsAsking(p) => IsAsking(p)'
    BY <2>1 DEF Same, Whole, IsOff, IsPristine, IsAsking, Away
  <2>3. IsOpening(p) => IsOpening(p)'
    BY <2>1 DEF Same, Whole, IsOpening, Away, Within, Past
  <2>4. IsOpen(p) => IsOpen(p)'
    BY <2>1 DEF Same, Whole, IsOpen, Within, Past, OnlyData
  <2>5. IsRefused(p) => IsRefused(p)'
    BY <2>1 DEF Same, Whole, IsRefused, Within, Past
  <2>6. IsResetting(p) => IsResetting(p)'
    BY <2>1 DEF Same, Whole, IsResetting, Leaves, Away, Past, ThenReset
  <2> QED
    BY <2>2, <2>3, <2>4, <2>5, <2>6 DEF Same, PhaseOf
<1> QED
  BY <1>1, <1>2, <1>3

----------------------------------------------------------------------------
(* One lemma per action.                                                   *)
LEMMA OnePeerMoves ==
  ASSUME ClInv, ClTyped', NEW p \in Peer, \A q \in Peer : q # p => Same(q),
         Live(p)' => Serves(p)' /\ PhaseOf(p)'
  PROVE  ClInv'
<1> SUFFICES ASSUME NEW q \in Peer, Live(q)' PROVE Serves(q)' /\ PhaseOf(q)'
  BY DEF ClInv
<1>1. CASE q = p
  BY <1>1
<1>2. CASE q # p
  <2>1. Live(q) /\ (Serves(q) => Serves(q)') /\ (PhaseOf(q) => PhaseOf(q)')
    BY <1>2, PhaseStays
  <2> QED
    BY <2>1 DEF ClInv
<1> QED
  BY <1>1, <1>2

LEMMA AllStay ==
  ASSUME ClInv, ClTyped', \A q \in Peer : Same(q)
  PROVE  ClInv'
<1> SUFFICES ASSUME NEW q \in Peer, Live(q)' PROVE Serves(q)' /\ PhaseOf(q)'
  BY DEF ClInv
<1>1. Live(q) /\ (Serves(q) => Serves(q)') /\ (PhaseOf(q) => PhaseOf(q)')
  BY PhaseStays
<1> QED
  BY <1>1 DEF ClInv

LEMMA EndClientKeeps ==
  ASSUME ClInv, NEW p \in Peer, EndClient(p)
  PROVE  ClInv'
<1>1. /\ main[p] \in {"read", "end"} /\ main' = [main EXCEPT ![p] = "gone"]
      /\ UNCHANGED <<then, kind, fwd, fstop, left, waiting, reg, stopped, inp, sock, app, half, sent>>
  BY DEF EndClient, program
<1>2. ClTyped'
  BY <1>1 DEF ClInv, ClTyped
<1>3. main'[p] = "gone" /\ \A q \in Peer : q # p => Same(q)
  BY <1>1 DEF ClInv, ClTyped, Same, Whole
<1>4. ASSUME Live(p)' PROVE Serves(p)' /\ PhaseOf(p)'
  <2>1. Serves(p) /\ PhaseOf(p)
    BY <1>1, <1>4 DEF ClInv, Live
  <2>2. Serves(p)'
    BY <1>1, <1>3, <2>1 DEF Serves, Within
  <2>3. /\ Silent(p) => Silent(p)'
        /\ \A w : Says(p, w) => Says(p, w)'
        /\ ResetStream(p) => ResetStream(p)'
        /\ DataStream(p) => DataStream(p)'
        /\ AnswerStream(p) => AnswerStream(p)'
    BY <1>1, StreamsStay, Zenon
  <2>4. /\ IsOff(p) => IsOff(p)'
        /\ IsPristine(p) => IsPristine(p)'
        /\ IsAsking(p) => IsAsking(p)'
    BY <1>1, <1>3, <2>3 DEF IsOff, IsPristine, IsAsking, Away
  <2>5. IsOpening(p) => IsOpening(p)'
    BY <1>1, <1>3, <2>3 DEF IsOpening, Away, Within, Past
  <2>6. IsOpen(p) => IsOpen(p)'
    BY <1>1, <1>3, <2>3 DEF IsOpen, Within, Past, OnlyData
  <2>7. IsRefused(p) => IsRefused(p)'
    BY <1>1, <1>3, <2>3 DEF IsRefused, Within, Past
  <2>8. IsResetting(p) => IsResetting(p)'
    BY <1>1, <1>3, <2>3 DEF IsResetting, Leaves, Away, Past, ThenReset
  <2> QED
    BY <1>1, <2>1, <2>2, <2>4, <2>5, <2>6, <2>7, <2>8 DEF PhaseOf
<1> QED
  BY <1>2, <1>3, <1>4, OnePeerMoves

LEMMA Requests ==
  ASSUME NEW S, NEW s \in Seq(S)
  PROVE  /\ s # <<>> /\ OnlyData(s) => Head(s) = "data" /\ OnlyData(Tail(s))
         /\ s # <<>> /\ ThenReset(s) =>
              /\ Head(s) \in {"data", "reset"}
              /\ Head(s) = "reset" => Tail(s) = <<>>
              /\ Head(s) = "data" => ThenReset(Tail(s))
<1> SUFFICES ASSUME s # <<>>
             PROVE  /\ OnlyData(s) => Head(s) = "data" /\ OnlyData(Tail(s))
                    /\ ThenReset(s) =>
                         /\ Head(s) \in {"data", "reset"}
                         /\ Head(s) = "reset" => Tail(s) = <<>>
                         /\ Head(s) = "data" => ThenReset(Tail(s))
  OBVIOUS
<1> DEFINE n == Len(s)
           t == Tail(s)
<1>1. n \in Nat /\ n >= 1 /\ DOMAIN s = 1 .. n /\ Head(s) = s[1]
  OBVIOUS
<1>2. t \in Seq(S) /\ Len(t) = n - 1 /\ DOMAIN t = 1 .. n - 1 /\ \A i \in 1 .. n - 1 : t[i] = s[i + 1]
  OBVIOUS
<1>0. \A x \in Seq(S) : Len(x) = 0 <=> x = <<>>
  OBVIOUS
<1>3. n = 1 <=> t = <<>>
  <2>1. Len(t) = 0 <=> t = <<>>
    BY <1>0, <1>2
  <2> HIDE DEF n, t
  <2> QED
    BY <1>1, <1>2, <2>1
<1>5. OnlyData(s) => Head(s) = "data" /\ OnlyData(t)
  <2> HIDE DEF n, t
  <2> QED
    BY <1>1, <1>2 DEF OnlyData
<1>6. ASSUME ThenReset(s)
      PROVE  /\ Head(s) \in {"data", "reset"}
             /\ Head(s) = "reset" => t = <<>>
             /\ Head(s) = "data" => ThenReset(t)
  <2>1. \A i \in DOMAIN s : s[i] = IF i = n THEN "reset" ELSE "data"
    BY <1>6 DEF ThenReset
  <2> HIDE DEF n, t
  <2>2. Head(s) = IF n = 1 THEN "reset" ELSE "data"
    BY <1>1, <2>1
  <2>3. n # 1 => ThenReset(t)
    <3>1. \A i \in 1 .. n - 1 : t[i] = IF i = n - 1 THEN "reset" ELSE "data"
      BY <1>1, <1>2, <2>1
    <3> QED
      BY <1>1, <1>2, <1>3, <3>1 DEF ThenReset
  <2> QED
    BY <2>2, <2>3, <1>3
<1> QED
  BY <1>5, <1>6

LEMMA MoreRequests ==
  ASSUME NEW S, NEW s \in Seq(S), OnlyData(s)
  PROVE  /\ "data" \in S => OnlyData(Append(s, "data"))
         /\ "reset" \in S => ThenReset(Append(s, "reset"))
<1>1. \A x \in S : /\ DOMAIN Append(s, x) = 1 .. Len(s) + 1 /\ DOMAIN s = 1 .. Len(s)
                   /\ Len(Append(s, x)) = Len(s) + 1 /\ Len(s) \in Nat
                   /\ Append(s, x)[Len(s) + 1] = x
                   /\ \A i \in 1 .. Len(s) : Append(s, x)[i] = s[i]
                   /\ Append(s, x) # <<>>
  OBVIOUS
<1>2. ASSUME "data" \in S PROVE OnlyData(Append(s, "data"))
  <2> DEFINE n == Len(s)
             t == Append(s, "data")
  <2>1. DOMAIN t = 1 .. n + 1 /\ DOMAIN s = 1 .. n /\ n \in Nat /\ t[n + 1] = "data"
        /\ \A i \in 1 .. n : t[i] = s[i]
    BY <1>1, <1>2
  <2> HIDE DEF n, t
  <2>2. OnlyData(t)
    BY <2>1 DEF OnlyData
  <2> QED
    BY <2>2 DEF t
<1>3. ASSUME "reset" \in S PROVE ThenReset(Append(s, "reset"))
  <2> DEFINE n == Len(s)
             t == Append(s, "reset")
  <2>1. DOMAIN t = 1 .. n + 1 /\ DOMAIN s = 1 .. n /\ n \in Nat /\ t[n + 1] = "reset"
        /\ t # <<>> /\ Len(t) = n + 1 /\ \A i \in 1 .. n : t[i] = s[i]
    BY <1>1, <1>3
  <2> HIDE DEF n, t
  <2>2. ThenReset(t)
    BY <2>1 DEF OnlyData, ThenReset
  <2> QED
    BY <2>2 DEF t
<1> QED
  BY <1>2, <1>3

LEMMA AcceptKeeps ==
  ASSUME ClInv, NEW p \in Peer, Accept(p)
  PROVE  ClInv'
<1>1. /\ main[p] = "off" /\ app[p] # "off" /\ main' = [main EXCEPT ![p] = "read"]
      /\ UNCHANGED <<then, kind, fwd, fstop, left, waiting, reg, stopped, inp, sock, app, half, sent>>
  BY DEF Accept, program
<1>2. ClTyped'
  BY <1>1 DEF ClInv, ClTyped
<1>3. main'[p] = "read" /\ \A q \in Peer : q # p => Same(q)
  BY <1>1 DEF ClInv, ClTyped, Same, Whole
<1>4. ASSUME Live(p)' PROVE Serves(p)' /\ PhaseOf(p)'
  <2>1. Serves(p) /\ PhaseOf(p)
    BY <1>1, <1>4 DEF ClInv, Live
  <2>2. Serves(p)'
    BY <1>1, <1>3, <2>1 DEF Serves, Within
  <2>3. /\ Silent(p) => Silent(p)'
        /\ \A w : Says(p, w) => Says(p, w)'
        /\ ResetStream(p) => ResetStream(p)'
        /\ DataStream(p) => DataStream(p)'
        /\ AnswerStream(p) => AnswerStream(p)'
    BY <1>1, StreamsStay, Zenon
  <2>4. /\ IsPristine(p) => IsPristine(p)'
        /\ IsAsking(p) => IsAsking(p)'
    BY <1>1, <1>3, <2>3 DEF IsPristine, IsAsking, Away
  <2>5. IsOpening(p) => IsOpening(p)'
    BY <1>1, <1>3, <2>3 DEF IsOpening, Away, Within, Past
  <2>6. ~IsOpen(p) /\ ~IsRefused(p)
    BY <1>1 DEF IsOpen, IsRefused, Within, Past
  <2>7. IsResetting(p) => IsResetting(p)'
    BY <1>1, <1>3, <2>3 DEF IsResetting, Leaves, Away, Past, ThenReset
  <2> QED
    BY <1>1, <2>1, <2>2, <2>4, <2>5, <2>6, <2>7 DEF PhaseOf
<1> QED
  BY <1>2, <1>3, <1>4, OnePeerMoves

LEMMA ServerKeeps ==
  ASSUME ClInv, StopServer \/ EndServer \/ StopClients \/ (\E p \in Peer : BusFrame(p))
  PROVE  ClInv'
<1>1. CASE StopServer \/ EndServer
  <2>1. UNCHANGED <<main, then, kind, fwd, fstop, left, waiting, reg, stopped, inp, sock, app, half, sent>>
    BY <1>1 DEF StopServer, EndServer, daemon, program
  <2>2. ClTyped'
    BY <2>1 DEF ClInv, ClTyped
  <2>3. \A q \in Peer : Same(q)
    BY <2>1 DEF Same, Whole
  <2> QED
    BY <2>2, <2>3, AllStay
<1>2. CASE StopClients
  <2>1. /\ stopped' = [q \in Peer |-> main[q] \notin {"off", "gone"}]
        /\ UNCHANGED <<main, then, kind, fwd, fstop, left, waiting, reg, inp, sock, app, half, sent>>
    BY <1>2 DEF StopClients, program
  <2>2. ClTyped'
    BY <2>1 DEF ClInv, ClTyped
  <2>3. \A q \in Peer : Same(q)
    BY <2>1 DEF Same, Whole
  <2> QED
    BY <2>2, <2>3, AllStay
<1>3. CASE \E p \in Peer : BusFrame(p)
  <2>0. PICK p \in Peer : BusFrame(p)
    BY <1>3
  <2>1. /\ waiting' = [waiting EXCEPT ![p] = @ + 1]
        /\ UNCHANGED <<main, then, kind, fwd, fstop, left, reg, stopped, inp, sock, app, half, sent>>
    BY <2>0 DEF BusFrame, program
  <2>2. ClTyped'
    BY <2>1 DEF ClInv, ClTyped
  <2>3. \A q \in Peer : Same(q)
    BY <2>1 DEF Same, Whole
  <2> QED
    BY <2>2, <2>3, AllStay
<1> QED
  BY <1>1, <1>2, <1>3

LEMMA PassOnKeeps ==
  ASSUME ClInv, NEW p \in Peer, PassOn(p)
  PROVE  ClInv'
<1>1. /\ main[p] = "do" /\ inp[p] # <<>> /\ Passes(p) /\ inp' = [inp EXCEPT ![p] = Tail(@)]
      /\ UNCHANGED <<main, then, kind, fwd, fstop, left, waiting, reg, stopped, sock, app, half, sent>>
  BY DEF PassOn, Took, daemon, program
<1>0. inp \in [Peer -> Seq(Request \cup {"data", "reset", "eof"})]
  BY DEF ClInv, ClTyped
<1>2. ClTyped'
  <2>1. Tail(inp[p]) \in Seq(Request \cup {"data", "reset", "eof"})
    BY <1>0, <1>1
  <2> QED
    BY <1>0, <1>1, <2>1 DEF ClInv, ClTyped
<1>3. inp'[p] = Tail(inp[p]) /\ \A q \in Peer : q # p => Same(q)
  BY <1>0, <1>1 DEF Same, Whole
<1>4. ASSUME Live(p)' PROVE Serves(p)' /\ PhaseOf(p)'
  <2>1. Serves(p) /\ PhaseOf(p)
    BY <1>1, <1>4 DEF ClInv, Live
  <2>2. Serves(p)'
    BY <1>1, <2>1 DEF Serves, Within
  <2>3. DataStream(p) => DataStream(p)'
    BY <1>1, StreamsStay, Zenon
  <2>4. ~IsOff(p) /\ ~IsPristine(p) /\ ~IsAsking(p) /\ ~IsOpening(p) /\ ~IsRefused(p)
    BY <1>1 DEF IsOff, IsPristine, IsAsking, IsOpening, IsRefused, Away
  <2>5. IsOpen(p) => IsOpen(p)'
    <3>1. OnlyData(inp[p]) => OnlyData(Tail(inp[p]))
      BY <1>0, <1>1, Requests
    <3>2. OnlyData(Tail(inp[p])) => OnlyData(inp[p])'
      BY <1>3 DEF OnlyData
    <3> QED
      BY <1>1, <2>3, <3>1, <3>2 DEF IsOpen
  <2>6. IsResetting(p) => IsResetting(p)'
    <3>1. ThenReset(inp[p]) => ThenReset(Tail(inp[p]))
      <4>1. Head(inp[p]) # "reset"
        BY <1>1 DEF Passes
      <4> QED
        BY <4>1, <1>0, <1>1, Requests
    <3>2. ThenReset(Tail(inp[p])) => ThenReset(inp[p])'
      BY <1>3 DEF ThenReset
    <3> QED
      BY <1>1, <2>3, <3>1, <3>2 DEF IsResetting, Leaves, Away, Past
  <2> QED
    BY <1>1, <2>1, <2>2, <2>4, <2>5, <2>6 DEF PhaseOf
<1> QED
  BY <1>2, <1>3, <1>4, OnePeerMoves

LEMMA CloseKeeps ==
  ASSUME ClInv, NEW p \in Peer, Close(p)
  PROVE  ClInv'
<1>1. /\ main[p] = "do" /\ main' = [main EXCEPT ![p] = "join"] /\ fstop' = [fstop EXCEPT ![p] = TRUE]
      /\ UNCHANGED <<kind, fwd, left, waiting, reg, stopped, sock, app, half, sent>>
  BY DEF Close, LeaveDo, program
<1>c. \/ /\ Unread(p) \/ stopped[p]
         /\ then' = [then EXCEPT ![p] = "read"] /\ inp' = inp
      \/ /\ inp[p] # <<>> /\ Head(inp[p]) # "eof" /\ ~Passes(p)
         /\ then' = [then EXCEPT ![p] = IF Head(inp[p]) = "reset" THEN "reset" ELSE "read"]
         /\ inp' = [inp EXCEPT ![p] = Tail(@)]
  BY DEF Close, LeaveDo, Took
<1>0. inp \in [Peer -> Seq(Request \cup {"data", "reset", "eof"})]
  BY DEF ClInv, ClTyped
<1>t. then = [q \in Peer |-> then[q]] /\ main = [q \in Peer |-> main[q]] /\ fstop = [q \in Peer |-> fstop[q]]
  BY DEF ClInv, ClTyped
<1>2. ClTyped'
  <2>1. inp[p] # <<>> => Tail(inp[p]) \in Seq(Request \cup {"data", "reset", "eof"})
    BY <1>0, <1>1
  <2>2. inp' \in [Peer -> Seq(Request \cup {"data", "reset", "eof"})]
    BY <1>0, <1>c, <2>1
  <2>3. then' = [q \in Peer |-> then'[q]]
    BY <1>c, <1>t
  <2> QED
    BY <1>1, <2>2, <2>3 DEF ClInv, ClTyped
<1>3. main'[p] = "join" /\ fstop'[p] /\ \A q \in Peer : q # p => Same(q)
  BY <1>0, <1>t, <1>1, <1>c DEF Same, Whole
<1>d. \/ (Unread(p) \/ stopped[p]) /\ then'[p] = "read" /\ inp'[p] = inp[p]
      \/ /\ inp[p] # <<>> /\ Head(inp[p]) # "eof" /\ ~Passes(p) /\ inp'[p] = Tail(inp[p])
         /\ then'[p] = IF Head(inp[p]) = "reset" THEN "reset" ELSE "read"
  BY <1>0, <1>t, <1>c
<1>4. ASSUME Live(p)' PROVE Serves(p)' /\ PhaseOf(p)'
  <2>1. Serves(p) /\ PhaseOf(p)
    BY <1>1, <1>4 DEF ClInv, Live
  <2>3. /\ Silent(p) => Silent(p)'
        /\ \A w : Says(p, w) => Says(p, w)'
        /\ DataStream(p) => DataStream(p)'
        /\ AnswerStream(p) => AnswerStream(p)'
    BY <1>1, <1>3, StreamsStay
  <2>4. ~IsOff(p) /\ ~IsPristine(p) /\ ~IsAsking(p)
    BY <1>1 DEF IsOff, IsPristine, IsAsking, Away
  <2>5. inp[p] # <<>> =>
          /\ IsOpen(p) => Head(inp[p]) = "data"
          /\ IsResetting(p) =>
               Head(inp[p]) \in {"data", "reset"} /\ (Head(inp[p]) = "reset" => Tail(inp[p]) = <<>>)
    BY <1>0, <1>1, Requests DEF IsOpen, IsResetting, Leaves, Away, Past
  <2>6. inp[p] # <<>> => app[p] \in {"open", "resetting"}
    BY <1>1, <2>1, <2>4 DEF PhaseOf, IsOpening, IsRefused, Away
  <2>u. Unread(p) => inp[p] = <<>> /\ stopped[p]
    BY <2>1, <2>5, <2>6 DEF Unread, PhaseOf
  <2>7. \/ stopped[p] /\ then'[p] = "read" /\ inp'[p] = inp[p]
        \/ app[p] = "resetting" /\ inp[p] # <<>> /\ then'[p] = "reset" /\ inp'[p] = <<>>
    <3>1. CASE (Unread(p) \/ stopped[p]) /\ then'[p] = "read" /\ inp'[p] = inp[p]
      BY <3>1, <2>u
    <3>2. CASE /\ inp[p] # <<>> /\ Head(inp[p]) # "eof" /\ ~Passes(p) /\ inp'[p] = Tail(inp[p])
               /\ then'[p] = IF Head(inp[p]) = "reset" THEN "reset" ELSE "read"
      <4>1. Head(inp[p]) # "data"
        BY <3>2 DEF Passes
      <4>2. app[p] = "resetting"
        BY <3>2, <4>1, <2>1, <2>5, <2>6 DEF PhaseOf
      <4>3. Head(inp[p]) = "reset" /\ Tail(inp[p]) = <<>>
        BY <3>2, <4>1, <4>2, <2>1, <2>5 DEF PhaseOf
      <4> QED
        BY <3>2, <4>2, <4>3
    <3> QED
      BY <1>d, <3>1, <3>2
  <2>2. Serves(p)'
    BY <1>1, <1>3, <2>1, <2>7 DEF Serves, Within
  <2>8. app[p] = "opening" => IsOpening(p)'
    BY <1>1, <1>3, <2>1, <2>3, <2>7 DEF PhaseOf, IsOpening, Away, Within, Past
  <2>9. app[p] = "open" => IsOpen(p)'
    BY <1>1, <1>3, <2>1, <2>3, <2>7 DEF PhaseOf, IsOpen, Within, Past, OnlyData
  <2>10. app[p] = "refused" => IsRefused(p)'
    BY <1>1, <1>3, <2>1, <2>3, <2>7 DEF PhaseOf, IsRefused, Within, Past
  <2>11. app[p] = "resetting" => IsResetting(p)'
    <3>1. IsResetting(p) => left[p].main = <<>> /\ DataStream(p)
      BY <1>1 DEF IsResetting, Away
    <3> QED
      BY <1>1, <1>3, <2>1, <2>3, <2>7, <3>1 DEF PhaseOf, IsResetting, Leaves
  <2> QED
    BY <1>1, <2>1, <2>2, <2>4, <2>8, <2>9, <2>10, <2>11 DEF PhaseOf
<1> QED
  BY <1>2, <1>3, <1>4, OnePeerMoves

LEMMA EndForwarderKeeps ==
  ASSUME ClInv, NEW p \in Peer, EndForwarder(p)
  PROVE  ClInv'
<1>1. /\ fwd[p] = "idle" /\ fwd' = [fwd EXCEPT ![p] = "done"]
      /\ UNCHANGED <<main, then, kind, fstop, left, waiting, reg, stopped, inp, sock, app, half, sent>>
  BY DEF EndForwarder, ForwarderUnchanged, program
<1>2. ClTyped'
  BY <1>1 DEF ClInv, ClTyped
<1>3. fwd'[p] = "done" /\ \A q \in Peer : q # p => Same(q)
  BY <1>1 DEF ClInv, ClTyped, Same, Whole
<1>4. ASSUME Live(p)' PROVE Serves(p)' /\ PhaseOf(p)'
  <2>1. Serves(p) /\ PhaseOf(p)
    BY <1>1, <1>4 DEF ClInv, Live
  <2>2. Serves(p)'
    BY <1>1, <1>3, <2>1 DEF Serves, Within
  <2>3. main[p] \in Within
    BY <1>1, <2>1 DEF Serves
  <2>4. Follows(p) => Follows(p)'
    <3>1. Size(p)' = Size(p)
      BY <1>1 DEF Size, Ahead
    <3> QED
      BY <1>1, <1>3, <3>1 DEF Follows, BodyOf, Message
  <2>5. DataStream(p) => DataStream(p)'
    BY <1>1, <2>4, Zenon DEF DataStream, Matches, DataPieces, PieceOf, HeadOf, BodyOf, Ahead
  <2>6. AnswerStream(p) => AnswerStream(p)'
    <3>1. Size(p)' = Size(p)
      BY <1>1 DEF Size, Ahead
    <3> QED
      BY <1>1, <2>4, <3>1, Zenon DEF AnswerStream, Matches, AnswerPieces, PieceOf, HeadOf, BodyOf, Ahead
  <2>7. ~IsOff(p) /\ ~IsPristine(p) /\ ~IsAsking(p) /\ ~IsRefused(p)
    BY <1>1, <2>3 DEF IsOff, IsPristine, IsAsking, IsRefused, Within, Away
  <2>8. IsOpening(p) => IsOpening(p)'
    BY <1>1, <2>3, <2>6 DEF IsOpening, Within, Past, Away
  <2>9. IsOpen(p) => IsOpen(p)'
    BY <1>1, <2>5 DEF IsOpen, OnlyData
  <2>10. IsResetting(p) => IsResetting(p)'
    BY <1>1, <2>3, <2>5 DEF IsResetting, Leaves, Within, Past, Away, ThenReset
  <2> QED
    BY <1>1, <2>1, <2>2, <2>7, <2>8, <2>9, <2>10 DEF PhaseOf
<1> QED
  BY <1>2, <1>3, <1>4, OnePeerMoves

----------------------------------------------------------------------------
(* The program.                                                            *)
LEMMA ConnectKeeps ==
  ASSUME ClInv, NEW p \in Peer, ConnectDaemon(p)
  PROVE  ClInv'
<1>1. /\ app[p] = "off" /\ app' = [app EXCEPT ![p] = "pristine"]
      /\ UNCHANGED <<main, then, kind, fwd, fstop, left, waiting, reg, stopped, inp, sock, half, sent>>
  BY DEF ConnectDaemon, daemon
<1>2. ClTyped'
  BY <1>1 DEF ClInv, ClTyped
<1>3. app'[p] = "pristine" /\ \A q \in Peer : q # p => Same(q)
  BY <1>1 DEF ClInv, ClTyped, Same, Whole
<1>4. ASSUME Live(p)' PROVE Serves(p)' /\ PhaseOf(p)'
  <2>1. Serves(p) /\ IsOff(p)
    BY <1>1 DEF ClInv, Live, PhaseOf
  <2>2. Serves(p)'
    BY <1>1, <1>3, <2>1 DEF Serves, Within, IsOff
  <2>3. IsPristine(p)'
    BY <1>1, <2>1 DEF Serves, IsOff, IsPristine, Silent, Away
  <2> QED
    BY <1>3, <2>2, <2>3 DEF PhaseOf
<1> QED
  BY <1>2, <1>3, <1>4, OnePeerMoves

LEMMA SendsTyped ==
  ASSUME ClInv, NEW p \in Peer, NEW r \in Request \cup {"data", "reset"}, NEW s, Sends(p, r, s)
  PROVE  /\ ClTyped' /\ \A q \in Peer : q # p => Same(q)
         /\ app'[p] = s /\ inp'[p] = Append(inp[p], r)
         /\ UNCHANGED <<main, then, kind, fwd, fstop, left, waiting, reg, stopped, sock, half>>
<1>1. /\ sent' = [sent EXCEPT ![p] = @ + 1] /\ inp' = [inp EXCEPT ![p] = Append(@, r)]
      /\ app' = [app EXCEPT ![p] = s]
      /\ UNCHANGED <<main, then, kind, fwd, fstop, left, waiting, reg, stopped, sock, half>>
  BY DEF Sends, daemon
<1>0. inp \in [Peer -> Seq(Request \cup {"data", "reset", "eof"})] /\ app = [q \in Peer |-> app[q]]
  BY DEF ClInv, ClTyped
<1>2. inp' \in [Peer -> Seq(Request \cup {"data", "reset", "eof"})] /\ inp'[p] = Append(inp[p], r)
  <2>1. Append(inp[p], r) \in Seq(Request \cup {"data", "reset", "eof"})
    BY <1>0
  <2> QED
    BY <1>0, <1>1, <2>1
<1>3. ClTyped'
  BY <1>1, <1>2 DEF ClInv, ClTyped
<1>4. app'[p] = s /\ \A q \in Peer : q # p => Same(q)
  BY <1>0, <1>1 DEF Same, Whole
<1> QED
  BY <1>1, <1>2, <1>3, <1>4

LEMMA AskKeeps ==
  ASSUME ClInv, NEW p \in Peer, AskDaemon(p)
  PROVE  ClInv'
<1>1. PICK r \in Request : Sends(p, r, IF r = "command" THEN "asking" ELSE "opening")
  BY DEF AskDaemon
<1>2. /\ ClTyped' /\ \A q \in Peer : q # p => Same(q)
      /\ app'[p] = IF r = "command" THEN "asking" ELSE "opening"
      /\ inp'[p] = Append(inp[p], r)
      /\ UNCHANGED <<main, then, kind, fwd, fstop, left, waiting, reg, stopped, sock, half>>
  BY <1>1, SendsTyped
<1>3. Serves(p) /\ IsPristine(p)
  BY DEF AskDaemon, ClInv, Live, PhaseOf
<1>4. Serves(p)'
  BY <1>2, <1>3 DEF Serves, Within, IsPristine, Away
<1>5. inp'[p] = <<r>> /\ Silent(p)'
  BY <1>2, <1>3 DEF IsPristine, Silent
<1>6. CASE r = "command"
  <2>1. IsAsking(p)'
    BY <1>2, <1>3, <1>5, <1>6 DEF IsPristine, IsAsking, Away
  <2> QED
    BY <1>2, <1>4, <1>6, <2>1, OnePeerMoves DEF PhaseOf
<1>7. CASE r # "command"
  <2>1. IsOpening(p)'
    BY <1>2, <1>3, <1>5, <1>7 DEF IsPristine, IsOpening, Away, Request
  <2> QED
    BY <1>2, <1>4, <1>7, <2>1, OnePeerMoves DEF PhaseOf
<1> QED
  BY <1>6, <1>7

LEMMA SendDataKeeps ==
  ASSUME ClInv, NEW p \in Peer, SendData(p)
  PROVE  ClInv'
<1>1. Sends(p, "data", "open") /\ app[p] = "open"
  BY DEF SendData
<1>2. /\ ClTyped' /\ \A q \in Peer : q # p => Same(q)
      /\ app'[p] = "open" /\ inp'[p] = Append(inp[p], "data")
      /\ UNCHANGED <<main, then, kind, fwd, fstop, left, waiting, reg, stopped, sock, half>>
  BY <1>1, SendsTyped
<1>3. Serves(p) /\ IsOpen(p)
  BY <1>1 DEF ClInv, Live, PhaseOf
<1>4. Serves(p)'
  BY <1>1, <1>2, <1>3 DEF Serves
<1>5. DataStream(p)'
  BY <1>2, <1>3, StreamsStay DEF IsOpen
<1>6. OnlyData(inp[p])'
  <2>1. OnlyData(Append(inp[p], "data"))
    BY <1>3, MoreRequests DEF IsOpen, ClInv, ClTyped
  <2> QED
    BY <1>2, <2>1 DEF OnlyData
<1>7. IsOpen(p)'
  BY <1>2, <1>3, <1>5, <1>6 DEF IsOpen
<1> QED
  BY <1>2, <1>4, <1>7, OnePeerMoves DEF PhaseOf

LEMMA SilentIsData ==
  ASSUME NEW p \in Peer, Silent(p), fwd[p] # "register", left[p].fwd = <<>>
  PROVE  DataStream(p)
<1>1. Size(p) = 0 /\ Ahead(p) = 0 /\ DOMAIN sock[p] = {}
  BY DEF Silent, Size, Ahead
<1>2. Follows(p)
  BY <1>1 DEF Follows
<1>3. Matches(sock[p], DataPieces, Ahead(p))
  BY <1>1, Zenon DEF Matches
<1> QED
  BY <1>2, <1>3 DEF DataStream, Silent

LEMMA ResetKeeps ==
  ASSUME ClInv, NEW p \in Peer, Reset(p)
  PROVE  ClInv'
<1>1. Sends(p, "reset", "resetting") /\ app[p] \in {"open", "refused", "pristine"}
  BY DEF Reset
<1>2. /\ ClTyped' /\ \A q \in Peer : q # p => Same(q)
      /\ app'[p] = "resetting" /\ inp'[p] = Append(inp[p], "reset")
      /\ UNCHANGED <<main, then, kind, fwd, fstop, left, waiting, reg, stopped, sock, half>>
  BY <1>1, SendsTyped
<1>3. Serves(p) /\ PhaseOf(p)
  BY <1>1 DEF ClInv, Live
<1>4. Serves(p)'
  BY <1>1, <1>2, <1>3 DEF Serves
<1>5. DataStream(p) /\ left[p].main = <<>>
  <2>1. CASE app[p] = "open"
    BY <2>1, <1>3 DEF PhaseOf, IsOpen
  <2>2. CASE app[p] = "refused"
    BY <2>2, <1>3, SilentIsData DEF PhaseOf, IsRefused, Serves
  <2>3. CASE app[p] = "pristine"
    BY <2>3, <1>3, SilentIsData DEF PhaseOf, IsPristine, Serves, Away, Within
  <2> QED
    BY <1>1, <2>1, <2>2, <2>3
<1>6. DataStream(p)'
  BY <1>2, <1>5, StreamsStay
<1>7. Leaves(p)'
  <2>1. main[p] = "join" => then[p] = "read"
    BY <1>1, <1>3 DEF Serves
  <2>2. OnlyData(inp[p]) => ThenReset(Append(inp[p], "reset"))
    BY MoreRequests DEF ClInv, ClTyped
  <2>3. inp[p] = <<>> => OnlyData(inp[p]) /\ Append(inp[p], "reset") = <<"reset">>
    BY DEF OnlyData
  <2>4. ThenReset(Append(inp[p], "reset")) => ThenReset(inp[p])'
    BY <1>2 DEF ThenReset
  <2>5. Silent(p) => Silent(p)'
    BY <1>2 DEF Silent
  <2>6. CASE app[p] = "open"
    BY <2>6, <1>2, <1>3, <2>1, <2>2, <2>4 DEF PhaseOf, IsOpen, Leaves, Within, Past
  <2>7. CASE app[p] = "refused"
    BY <2>7, <1>2, <1>3, <2>1, <2>2, <2>3, <2>4 DEF PhaseOf, IsRefused, Leaves, Within, Past
  <2>8. CASE app[p] = "pristine"
    BY <2>8, <1>2, <1>3, <2>3, <2>5 DEF PhaseOf, IsPristine, Leaves
  <2> QED
    BY <1>1, <2>6, <2>7, <2>8
<1>8. IsResetting(p)'
  BY <1>2, <1>5, <1>6, <1>7 DEF IsResetting
<1> QED
  BY <1>2, <1>4, <1>8, OnePeerMoves DEF PhaseOf

LEMMA HangupKeeps ==
  ASSUME ClInv, NEW p \in Peer, Hangup(p)
  PROVE  ClInv'
<1>1. /\ inp' = [inp EXCEPT ![p] = Append(@, "eof")] /\ app' = [app EXCEPT ![p] = "closed"]
      /\ UNCHANGED <<main, then, kind, fwd, fstop, left, waiting, reg, stopped, sock, half, sent>>
  BY DEF Hangup, daemon
<1>0. inp \in [Peer -> Seq(Request \cup {"data", "reset", "eof"})] /\ app = [q \in Peer |-> app[q]]
  BY DEF ClInv, ClTyped
<1>2. inp' \in [Peer -> Seq(Request \cup {"data", "reset", "eof"})]
  <2>1. Append(inp[p], "eof") \in Seq(Request \cup {"data", "reset", "eof"})
    BY <1>0
  <2> QED
    BY <1>0, <1>1, <2>1
<1>3. ClTyped'
  BY <1>1, <1>2 DEF ClInv, ClTyped
<1>4. app'[p] = "closed" /\ \A q \in Peer : q # p => Same(q)
  BY <1>0, <1>1 DEF Same, Whole
<1> QED
  BY <1>3, <1>4, OnePeerMoves DEF Live

----------------------------------------------------------------------------
(* The thread of a client.                                                 *)
LEMMA SayTyped ==
  ASSUME ClTyped, NEW p \in Peer, NEW w \in Whats, NEW s, Say(p, w, s)
  PROVE  /\ sock' \in [Peer -> Seq(Piece)] /\ \A q \in Peer : Len(sock'[q]) <= Room
         /\ left' \in [Peer -> [main : Seq(Piece), fwd : Seq(Piece)]]
         /\ main' = [q \in Peer |-> main'[q]] /\ then' = [q \in Peer |-> then'[q]]
         /\ \A q \in Peer : q # p => /\ sock'[q] = sock[q] /\ left'[q] = left[q]
                                     /\ main'[q] = main[q] /\ then'[q] = then[q]
         /\ left'[p].fwd = left[p].fwd
         /\ then'[p] = s
         /\ left'[p].main = <<>> => main'[p] = IF s = "read" /\ stopped[p] THEN "end" ELSE s
         /\ left'[p].main # <<>> => main'[p] = "write"
<1>1. Message(w) \in Seq(Piece) /\ sendmessage(p, "main", Message(w))
  BY MessagePieces DEF Say
<1>2. /\ sock' \in [Peer -> Seq(Piece)] /\ \A q \in Peer : Len(sock'[q]) <= Room
      /\ left' \in [Peer -> [main : Seq(Piece), fwd : Seq(Piece)]]
      /\ \A q \in Peer : q # p => sock'[q] = sock[q] /\ left'[q] = left[q]
      /\ left'[p].fwd = left[p].fwd
  BY <1>1, TypedSends
<1>3. main = [q \in Peer |-> main[q]] /\ then = [q \in Peer |-> then[q]]
  BY DEF ClTyped
<1>4. /\ then' = [then EXCEPT ![p] = s]
      /\ Goes(p, IF left'[p]["main"] = <<>> THEN s ELSE "write")
  BY DEF Say
<1>5. then' = [q \in Peer |-> then'[q]] /\ then'[p] = s /\ \A q \in Peer : q # p => then'[q] = then[q]
  BY <1>3, <1>4
<1>6. main' = [q \in Peer |-> main'[q]] /\ \A q \in Peer : q # p => main'[q] = main[q]
  BY <1>3, <1>4 DEF Goes
<1>7. left'[p].main = <<>> => main'[p] = IF s = "read" /\ stopped[p] THEN "end" ELSE s
  BY <1>3, <1>4 DEF Goes
<1>8. left'[p].main # <<>> => main'[p] = "write"
  BY <1>3, <1>4 DEF Goes
<1> QED
  BY <1>2, <1>5, <1>6, <1>7, <1>8

LEMMA SaysAreTrue ==
  ASSUME NEW p \in Peer, NEW w \in Whats, half'[p] = "none", sock'[p] = Message(w)
  PROVE  Says(p, w)'
BY DEF Says, Message, BodyOf

LEMMA AnswerBegins ==
  ASSUME NEW p \in Peer, half'[p] = "none", sock'[p] = Message("answer"),
         left'[p].fwd = <<>>, fwd'[p] # "register"
  PROVE  AnswerStream(p)'
<1> DEFINE s == sock'[p]
<1>1. /\ s \in Seq(Piece) /\ Len(s) = 2 /\ DOMAIN s = {1, 2}
      /\ s[1] = HeadOf("answer") /\ s[2] = BodyOf("answer")
  <2> DEFINE m == Message("answer")
  <2>1. m = <<HeadOf("answer"), BodyOf("answer")>> /\ m \in Seq(Piece) /\ Len(m) = 2
    BY MessagePieces DEF Whats
  <2> HIDE DEF m
  <2>2. DOMAIN m = {1, 2} /\ m[1] = HeadOf("answer") /\ m[2] = BodyOf("answer")
    BY <2>1
  <2>3. s = m
    BY DEF m
  <2> HIDE DEF s
  <2> QED
    BY <2>1, <2>2, <2>3
<1>2. Ahead(p)' = 0
  BY DEF Ahead
<1>3. Size(p)' = 2
  BY <1>1, <1>2 DEF Size
<1>4. Follows(p)'
  BY <1>3 DEF Follows
<1>5. Matches(s, AnswerPieces, 0)
  <2>2. AnswerPieces[1 + 0] = HeadOf("answer") /\ AnswerPieces[2 + 0] = BodyOf("answer")
    BY PiecesAre
  <2> HIDE DEF s
  <2> QED
    BY <1>1, <2>2 DEF Matches
<1>6. Matches(s, AnswerPieces, 0) => Matches(sock[p], AnswerPieces, Ahead(p))'
  BY <1>2, Zenon DEF Matches, AnswerPieces, PieceOf, HeadOf, BodyOf
<1> QED
  BY <1>3, <1>4, <1>5, <1>6 DEF AnswerStream

LEMMA ServeKeeps ==
  ASSUME ClInv, NEW p \in Peer, ServeRequest(p)
  PROVE  ClInv'
<1>1. /\ main[p] = "read" /\ inp[p] # <<>> /\ Head(inp[p]) # "eof"
      /\ inp' = [inp EXCEPT ![p] = Tail(@)]
      /\ UNCHANGED <<stopped, app, half, sent>>
  BY DEF ServeRequest, Took, program
<1>t. ClTyped /\ inp \in [Peer -> Seq(Request \cup {"data", "reset", "eof"})]
  BY DEF ClInv, ClTyped
<1>2. inp' \in [Peer -> Seq(Request \cup {"data", "reset", "eof"})] /\ inp'[p] = Tail(inp[p])
        /\ \A q \in Peer : q # p => inp'[q] = inp[q]
  <2>1. Tail(inp[p]) \in Seq(Request \cup {"data", "reset", "eof"})
    BY <1>1, <1>t
  <2> QED
    BY <1>1, <1>t, <2>1
<1>3. Live(p) => Serves(p) /\ PhaseOf(p)
  BY DEF ClInv
<1>4. Live(p) => /\ kind[p] = "none" /\ fwd[p] \in {"none", "done"} /\ p \notin reg
                 /\ left[p].main = <<>> /\ left[p].fwd = <<>>
  BY <1>1, <1>3 DEF Serves, Within
<1>r. Live(p) =>
        /\ Silent(p)
        /\ \/ app[p] = "asking" /\ inp[p] = <<"command">>
           \/ app[p] = "opening" /\ inp[p] \in {<<"apdu">>, <<"monitor">>}
           \/ app[p] = "resetting" /\ inp[p] = <<"reset">>
  <2> SUFFICES ASSUME Live(p)
               PROVE /\ Silent(p)
                     /\ \/ app[p] = "asking" /\ inp[p] = <<"command">>
                        \/ app[p] = "opening" /\ inp[p] \in {<<"apdu">>, <<"monitor">>}
                        \/ app[p] = "resetting" /\ inp[p] = <<"reset">>
    OBVIOUS
  <2>1. ~IsOff(p) /\ ~IsPristine(p) /\ ~IsOpen(p) /\ ~IsRefused(p)
    BY <1>1 DEF IsOff, IsPristine, IsOpen, IsRefused, Within, Past
  <2>2. IsAsking(p) => Silent(p) /\ inp[p] = <<"command">>
    BY <1>1 DEF IsAsking
  <2>3. IsOpening(p) => Silent(p) /\ inp[p] \in {<<"apdu">>, <<"monitor">>}
    BY <1>1 DEF IsOpening, Within, Past
  <2>4. IsResetting(p) => Silent(p) /\ inp[p] = <<"reset">>
    BY <1>1 DEF IsResetting, Leaves, Past
  <2> QED
    BY <1>3, <2>1, <2>2, <2>3, <2>4 DEF PhaseOf
<1>5. Live(p) => /\ sock[p] = <<>> /\ half[p] = "none" /\ inp'[p] = <<>> /\ app[p] # "closed"
                 /\ Head(inp[p]) = "command" => app[p] = "asking"
                 /\ Head(inp[p]) \in {"apdu", "monitor"} => app[p] = "opening"
                 /\ Head(inp[p]) = "reset" => app[p] = "resetting"
                 /\ Head(inp[p]) # "data"
  <2> SUFFICES ASSUME Live(p)
               PROVE /\ sock[p] = <<>> /\ half[p] = "none" /\ inp'[p] = <<>> /\ app[p] # "closed"
                     /\ Head(inp[p]) = "command" => app[p] = "asking"
                     /\ Head(inp[p]) \in {"apdu", "monitor"} => app[p] = "opening"
                     /\ Head(inp[p]) = "reset" => app[p] = "resetting"
                     /\ Head(inp[p]) # "data"
    OBVIOUS
  <2>1. sock[p] = <<>> /\ half[p] = "none" /\ app[p] # "closed"
    BY <1>r DEF Silent, Live
  <2>2. \A x : Head(<<x>>) = x /\ Tail(<<x>>) = <<>>
    OBVIOUS
  <2> QED
    BY <1>r, <1>2, <2>1, <2>2
<1>w. /\ app'[p] = app[p] /\ half'[p] = half[p] /\ (Live(p)' <=> Live(p))
  BY <1>1 DEF Live
<1>6. CASE Opens(p)
  <2>1. /\ Head(inp[p]) = "apdu" /\ Say(p, "answer", "do") /\ "answer" \in Whats
        /\ kind' = [kind EXCEPT ![p] = "apdu"] /\ reg' = reg \cup {p}
        /\ fwd' = [fwd EXCEPT ![p] = "idle"] /\ fstop' = [fstop EXCEPT ![p] = FALSE]
        /\ waiting' = waiting
    BY <1>6 DEF Opens, Whats
  <2>2. /\ sock' \in [Peer -> Seq(Piece)] /\ \A q \in Peer : Len(sock'[q]) <= Room
        /\ left' \in [Peer -> [main : Seq(Piece), fwd : Seq(Piece)]]
        /\ main' = [q \in Peer |-> main'[q]] /\ then' = [q \in Peer |-> then'[q]]
        /\ \A q \in Peer : q # p => /\ sock'[q] = sock[q] /\ left'[q] = left[q]
                                    /\ main'[q] = main[q] /\ then'[q] = then[q]
        /\ left'[p].fwd = left[p].fwd
        /\ left'[p].main = <<>> => main'[p] = "do"
    BY <2>1, <1>t, SayTyped
  <2>3. ClTyped'
    BY <1>1, <1>2, <1>t, <2>1, <2>2 DEF ClTyped
  <2>4. /\ kind'[p] = "apdu" /\ fwd'[p] = "idle" /\ \A q \in Peer : q # p => Same(q)
    BY <1>1, <1>2, <1>t, <2>1, <2>2 DEF ClTyped, Same, Whole
  <2>5. ASSUME Live(p)' PROVE Serves(p)' /\ PhaseOf(p)'
    <3>1. sock'[p] = Message("answer") /\ left'[p].main = <<>>
      BY <1>5, <1>t, <1>w, <2>1, <2>5, MainSays DEF Say
    <3>2. AnswerStream(p)'
      BY <1>4, <1>5, <1>w, <2>2, <2>4, <2>5, <3>1, AnswerBegins
    <3>3. Serves(p)'
      BY <1>4, <1>w, <2>2, <2>4, <2>5, <3>1 DEF Serves, Within
    <3>4. IsOpening(p)'
      BY <1>5, <1>w, <2>2, <2>5, <3>1, <3>2 DEF IsOpening, Within
    <3> QED
      BY <1>5, <1>w, <2>1, <2>5, <3>3, <3>4 DEF PhaseOf
  <2> QED
    BY <2>3, <2>4, <2>5, OnePeerMoves
<1>7. ASSUME NEW w \in {"refusal", "answer", "reset"}, Say(p, w, "read"),
             UNCHANGED <<kind, reg, fwd, fstop, waiting>>,
             \/ w = "refusal" /\ Head(inp[p]) = "apdu"
             \/ w = "answer" /\ Head(inp[p]) \in {"command", "data"}
             \/ w = "reset" /\ Head(inp[p]) = "reset"
      PROVE ClInv'
  <2>0. w \in Whats
    BY DEF Whats
  <2>2. /\ sock' \in [Peer -> Seq(Piece)] /\ \A q \in Peer : Len(sock'[q]) <= Room
        /\ left' \in [Peer -> [main : Seq(Piece), fwd : Seq(Piece)]]
        /\ main' = [q \in Peer |-> main'[q]] /\ then' = [q \in Peer |-> then'[q]]
        /\ \A q \in Peer : q # p => /\ sock'[q] = sock[q] /\ left'[q] = left[q]
                                    /\ main'[q] = main[q] /\ then'[q] = then[q]
        /\ left'[p].fwd = left[p].fwd
        /\ left'[p].main = <<>> => main'[p] \in {"end", "read"}
    BY <1>7, <2>0, <1>t, SayTyped
  <2>3. ClTyped'
    BY <1>1, <1>2, <1>t, <1>7, <2>2 DEF ClTyped
  <2>4. \A q \in Peer : q # p => Same(q)
    BY <1>1, <1>2, <1>t, <1>7, <2>2 DEF ClTyped, Same, Whole
  <2>5. ASSUME Live(p)' PROVE Serves(p)' /\ PhaseOf(p)'
    <3>1. sock'[p] = Message(w) /\ left'[p].main = <<>>
      BY <1>5, <1>t, <1>w, <1>7, <2>0, <2>5, MainSays DEF Say
    <3>2. main'[p] \in {"end", "read"} /\ main'[p] \in Away
      BY <2>2, <3>1 DEF Away
    <3>3. Serves(p)'
      BY <1>4, <1>7, <1>w, <2>2, <2>5, <3>1, <3>2 DEF Serves, Within
    <3>4. Says(p, w)'
      BY <1>5, <1>w, <2>0, <2>5, <3>1, SaysAreTrue
    <3>5. CASE w = "refusal"
      <4>1. IsOpening(p)'
        BY <1>5, <1>w, <2>5, <3>1, <3>2, <3>4, <3>5 DEF IsOpening
      <4> QED
        BY <1>5, <1>w, <1>7, <2>5, <3>3, <3>5, <4>1 DEF PhaseOf
    <3>6. CASE w = "answer"
      <4>1. IsAsking(p)'
        BY <1>5, <1>w, <2>5, <3>1, <3>2, <3>4, <3>6 DEF IsAsking
      <4> QED
        BY <1>5, <1>w, <1>7, <2>5, <3>3, <3>6, <4>1 DEF PhaseOf
    <3>7. CASE w = "reset"
      <4>1. ResetStream(p)'
        <5>1. sock'[p] = <<HeadOf("reset"), BodyOf("reset")>> /\ half'[p] = "none"
          BY <1>5, <1>w, <2>0, <2>5, <3>1, <3>7, MessagePieces
        <5>2. Ahead(p)' = 0 /\ Size(p)' = 2
          BY <5>1 DEF Ahead, Size
        <5>3. Matches(sock'[p], ResetPieces(0), 0)
          <6> DEFINE s == sock'[p]
          <6>1. DOMAIN s = {1, 2} /\ s[1] = HeadOf("reset") /\ s[2] = BodyOf("reset")
            BY <5>1
          <6>2. ResetPieces(0)[1 + 0] = HeadOf("reset") /\ ResetPieces(0)[2 + 0] = BodyOf("reset")
            BY PiecesAre
          <6> HIDE DEF s
          <6>3. Matches(s, ResetPieces(0), 0)
            BY <6>1, <6>2 DEF Matches
          <6> QED
            BY <6>3 DEF s
        <5>4. Matches(sock'[p], ResetPieces(0), 0) => Matches(sock[p], ResetPieces(0), Ahead(p))'
          BY <5>2, Zenon DEF Matches, ResetPieces, PieceOf, HeadOf, BodyOf
        <5>5. Matches(sock[p], ResetPieces(0), Ahead(p))'
          BY <5>3, <5>4
        <5> QED
          BY <3>1, <5>1, <5>2, <5>5 DEF ResetStream
      <4>2. IsResetting(p)'
        BY <1>5, <1>w, <2>5, <3>2, <4>1 DEF IsResetting
      <4> QED
        BY <1>5, <1>w, <1>7, <2>5, <3>3, <3>7, <4>2 DEF PhaseOf
    <3> QED
      BY <3>5, <3>6, <3>7
  <2> QED
    BY <2>3, <2>4, <2>5, OnePeerMoves
<1>8. CASE OpensMonitor(p)
  <2>1. /\ Head(inp[p]) = "monitor" /\ kind' = [kind EXCEPT ![p] = "monitor"]
        /\ fwd' = [fwd EXCEPT ![p] = "register"] /\ fstop' = [fstop EXCEPT ![p] = FALSE]
        /\ main' = [main EXCEPT ![p] = "do"]
        /\ UNCHANGED <<then, reg, sock, left, waiting>>
    BY <1>8 DEF OpensMonitor
  <2>2. ClTyped'
    BY <1>1, <1>2, <1>t, <2>1 DEF ClTyped
  <2>3. /\ kind'[p] = "monitor" /\ fwd'[p] = "register" /\ main'[p] = "do"
        /\ \A q \in Peer : q # p => Same(q)
    BY <1>1, <1>2, <1>t, <2>1 DEF ClTyped, Same, Whole
  <2>4. ASSUME Live(p)' PROVE Serves(p)' /\ PhaseOf(p)'
    <3>1. Serves(p)'
      BY <1>4, <1>w, <2>1, <2>3, <2>4 DEF Serves, Within
    <3>2. IsOpening(p)'
      BY <1>4, <1>5, <1>w, <2>1, <2>3, <2>4 DEF IsOpening, Within, Silent
    <3> QED
      BY <1>5, <1>w, <2>1, <2>4, <3>1, <3>2 DEF PhaseOf
  <2> QED
    BY <2>2, <2>3, <2>4, OnePeerMoves
<1> QED
  BY <1>6, <1>7, <1>8 DEF ServeRequest, OpenFails, Answers, AnswersReset

LEMMA ResetStreamIs ==
  ASSUME NEW p \in Peer, NEW n \in Nat,
         Size(p)' \in {n, n + 1, n + 2},
         half'[p] \in {"none", IF n = 0 THEN "reset" ELSE "data"},
         Matches(sock'[p], ResetPieces(n), Ahead(p)'),
         \/ left'[p].main = <<>>
         \/ left'[p].main = <<BodyOf("reset")>> /\ Size(p)' = n + 1
         \/ left'[p].main = Message("reset") /\ Size(p)' = n
  PROVE  ResetStream(p)'
<1>1. Matches(sock[p], ResetPieces(n), Ahead(p))'
  BY Zenon DEF ResetPieces, Matches, PieceOf, HeadOf, BodyOf
<1> QED
  BY <1>1 DEF ResetStream, BodyOf, Message

LEMMA JoinKeeps ==
  ASSUME ClInv, NEW p \in Peer, Join(p)
  PROVE  ClInv'
<1>1. /\ main[p] = "join" /\ fwd[p] \in {"none", "done"}
      /\ reg' = reg \ {p} /\ kind' = [kind EXCEPT ![p] = "none"]
      /\ waiting' = [waiting EXCEPT ![p] = 0]
      /\ UNCHANGED <<fwd, fstop, stopped, inp, app, half, sent>>
  BY DEF Join, Joinable, program
<1>t. ClTyped
  BY DEF ClInv
<1>w. app'[p] = app[p] /\ half'[p] = half[p] /\ inp'[p] = inp[p] /\ (Live(p)' <=> Live(p))
  BY <1>1 DEF Live
<1>2. Live(p) => Serves(p) /\ PhaseOf(p)
  BY DEF ClInv
<1>3. Live(p) => /\ left[p].main = <<>> /\ left[p].fwd = <<>> /\ fwd[p] \in {"none", "done"}
                 /\ then[p] = "reset" => app[p] = "resetting"
                 /\ then[p] # "reset" => stopped[p]
  BY <1>1, <1>2 DEF Serves
<1>4. CASE then[p] # "reset"
  <2>1. main' = [main EXCEPT ![p] = IF stopped[p] THEN "end" ELSE "read"]
        /\ UNCHANGED <<then, left, sock>>
    BY <1>4 DEF Join, Goes
  <2>2. ClTyped'
    BY <1>1, <1>t, <2>1 DEF ClTyped
  <2>3. /\ kind'[p] = "none" /\ p \notin reg' /\ main'[p] = IF stopped[p] THEN "end" ELSE "read"
        /\ \A q \in Peer : q # p => Same(q)
    BY <1>1, <1>t, <2>1 DEF ClTyped, Same, Whole
  <2>4. ASSUME Live(p)' PROVE Serves(p)' /\ PhaseOf(p)'
    <3>1. Serves(p) /\ PhaseOf(p) /\ stopped[p] /\ main'[p] = "end"
      BY <1>2, <1>3, <1>4, <1>w, <2>3, <2>4
    <3>2. Serves(p)'
      BY <1>1, <1>3, <1>w, <2>1, <2>3, <2>4, <3>1 DEF Serves, Within
    <3>3. /\ Silent(p) => Silent(p)'
          /\ \A w : Says(p, w) => Says(p, w)'
          /\ DataStream(p) => DataStream(p)'
          /\ AnswerStream(p) => AnswerStream(p)'
      BY <1>1, <2>1, StreamsStay
    <3>4. ~IsOff(p) /\ ~IsPristine(p) /\ ~IsAsking(p)
      BY <1>1 DEF IsOff, IsPristine, IsAsking, Away
    <3>5. IsOpening(p) => IsOpening(p)'
      BY <1>1, <2>1, <3>1, <3>3 DEF IsOpening, Away, Within, Past
    <3>6. IsOpen(p) => IsOpen(p)'
      BY <1>1, <2>1, <3>1, <3>3 DEF IsOpen, Within, Past, OnlyData
    <3>7. IsRefused(p) => IsRefused(p)'
      BY <1>1, <2>1, <2>3, <3>1, <3>3 DEF IsRefused, Within, Past
    <3>8. IsResetting(p) => IsResetting(p)'
      BY <1>1, <2>1, <3>1, <3>3 DEF IsResetting, Leaves, Away, Past
    <3> QED
      BY <1>w, <3>1, <3>2, <3>4, <3>5, <3>6, <3>7, <3>8 DEF PhaseOf
  <2> QED
    BY <2>2, <2>3, <2>4, OnePeerMoves
<1>5. CASE then[p] = "reset"
  <2>1. Say(p, "reset", "read") /\ "reset" \in Whats
    BY <1>5 DEF Join, Whats
  <2>2. /\ sock' \in [Peer -> Seq(Piece)] /\ \A q \in Peer : Len(sock'[q]) <= Room
        /\ left' \in [Peer -> [main : Seq(Piece), fwd : Seq(Piece)]]
        /\ main' = [q \in Peer |-> main'[q]] /\ then' = [q \in Peer |-> then'[q]]
        /\ \A q \in Peer : q # p => /\ sock'[q] = sock[q] /\ left'[q] = left[q]
                                    /\ main'[q] = main[q] /\ then'[q] = then[q]
        /\ left'[p].fwd = left[p].fwd /\ then'[p] = "read"
        /\ left'[p].main = <<>> => main'[p] \in {"end", "read"}
        /\ left'[p].main # <<>> => main'[p] = "write"
    BY <2>1, <1>t, SayTyped
  <2>3. ClTyped'
    BY <1>1, <1>t, <2>2 DEF ClTyped
  <2>4. kind'[p] = "none" /\ p \notin reg' /\ \A q \in Peer : q # p => Same(q)
    BY <1>1, <1>t, <2>2 DEF ClTyped, Same, Whole
  <2>5. ASSUME Live(p)' PROVE Serves(p)' /\ PhaseOf(p)'
    <3>1. app[p] = "resetting" /\ left[p].main = <<>> /\ IsResetting(p) /\ Serves(p) /\ left[p].fwd = <<>>
      BY <1>2, <1>3, <1>5, <1>w, <2>5 DEF PhaseOf
    <3>2. DataStream(p) /\ inp[p] = <<>>
      BY <1>1, <1>5, <3>1 DEF IsResetting, Leaves, Away, Past
    <3>3. main'[p] \in Away /\ (left'[p].main # <<>> => main'[p] = "write")
            /\ main'[p] \in {"read", "end", "write"}
      BY <2>2 DEF Away
    <3>4. Serves(p)'
      BY <1>1, <1>w, <2>2, <2>4, <3>1, <3>3 DEF Serves, Within
    <3>5. ResetStream(p)'
      <4> DEFINE n == Size(p)
                 a == Ahead(p)
                 s == sock[p]
                 z == sock'[p]
      <4>1. s \in Seq(Piece) /\ a \in {0, 1} /\ n = Len(s) + a /\ Len(s) \in Nat
        BY <1>t DEF ClTyped, Ahead, Size
      <4>2. n \in Nat /\ (n = 0 => a = 0)
        <5> HIDE DEF n, a
        <5> QED
          BY <4>1
      <4>3. Matches(s, DataPieces, a) /\ half[p] \in {"none", "data"}
        BY <3>2 DEF DataStream
      <4>4. \/ z = s /\ left'[p].main = Message("reset")
            \/ z = Append(s, HeadOf("reset")) /\ left'[p].main = <<BodyOf("reset")>>
            \/ z = Append(Append(s, HeadOf("reset")), BodyOf("reset")) /\ left'[p].main = <<>>
        BY <1>t, <2>1, <3>1, MainSays DEF Say
      <4>a. Ahead(p)' = a
        BY <1>w DEF Ahead
      <4>h. half'[p] \in {"none", IF n = 0 THEN "reset" ELSE "data"}
        <5>1. half[p] = "none" \/ (half[p] = "data" /\ a = 1)
          BY <4>3 DEF Ahead
        <5> HIDE DEF n, a
        <5> QED
          BY <5>1, <1>w, <4>2
      <4>p. HeadOf("reset") \in Piece /\ BodyOf("reset") \in Piece
        BY MessagePieces DEF Whats
      <4>l. Len(Append(s, HeadOf("reset"))) = Len(s) + 1
            /\ Len(Append(Append(s, HeadOf("reset")), BodyOf("reset"))) = Len(s) + 2
        BY <4>1, <4>p
      <4>m. /\ Matches(s, ResetPieces(n), a)
            /\ Matches(Append(s, HeadOf("reset")), ResetPieces(n), a)
            /\ Matches(Append(Append(s, HeadOf("reset")), BodyOf("reset")), ResetPieces(n), a)
        <5> HIDE DEF n, a, s
        <5> QED
          BY <4>1, <4>2, <4>3, ResetGoesOn
      <4>5. Matches(z, ResetPieces(n), a)
        BY <4>4, <4>m, Zenon
      <4>6. /\ Len(z) + a \in {n, n + 1, n + 2}
            /\ \/ left'[p].main = <<>>
               \/ left'[p].main = <<BodyOf("reset")>> /\ Len(z) + a = n + 1
               \/ left'[p].main = Message("reset") /\ Len(z) + a = n
        <5>1. \/ Len(z) = Len(s) /\ left'[p].main = Message("reset")
              \/ Len(z) = Len(s) + 1 /\ left'[p].main = <<BodyOf("reset")>>
              \/ Len(z) = Len(s) + 2 /\ left'[p].main = <<>>
          BY <4>4, <4>l, Zenon
        <5> HIDE DEF n, a, s, z
        <5> QED
          BY <5>1, <4>1
      <4>7. Size(p)' = Len(z) + a
        BY <4>a DEF Size
      <4> HIDE DEF n, a, z, s
      <4>8. PICK m \in Nat : m = n
        BY <4>2
      <4> QED
        BY <4>5, <4>6, <4>7, <4>8, <4>a, <4>h, ResetStreamIs DEF z
    <3>6. IsResetting(p)'
      BY <1>w, <3>2, <3>3, <3>5 DEF IsResetting
    <3> QED
      BY <1>w, <3>1, <3>4, <3>6 DEF PhaseOf
  <2> QED
    BY <2>3, <2>4, <2>5, OnePeerMoves
<1> QED
  BY <1>4, <1>5

LEMMA ResetSaidOn ==
  ASSUME ClTyped, NEW p \in Peer, ResetStream(p), app[p] # "closed", half'[p] = half[p],
         left[p].main # <<>>, sendmessage(p, "main", left[p].main)
  PROVE  ResetStream(p)'
<1> DEFINE a == Ahead(p)
           s == sock[p]
           z == sock'[p]
<1>1. s \in Seq(Piece) /\ a \in {0, 1} /\ Size(p) = Len(s) + a /\ Len(s) \in Nat
  BY DEF ClTyped, Ahead, Size
<1>2. PICK n \in Nat :
        /\ Size(p) \in {n, n + 1, n + 2}
        /\ half[p] \in {"none", IF n = 0 THEN "reset" ELSE "data"}
        /\ Matches(s, ResetPieces(n), a)
        /\ \/ left[p].main = <<BodyOf("reset")>> /\ Size(p) = n + 1
           \/ left[p].main = Message("reset") /\ Size(p) = n
  BY DEF ResetStream
<1>p. HeadOf("reset") \in Piece /\ BodyOf("reset") \in Piece /\ "reset" \in Whats
  BY MessagePieces DEF Whats
<1>l. Len(Append(s, HeadOf("reset"))) = Len(s) + 1
      /\ Len(Append(Append(s, HeadOf("reset")), BodyOf("reset"))) = Len(s) + 2
      /\ Len(Append(s, BodyOf("reset"))) = Len(s) + 1
  BY <1>1, <1>p
<1>a. Ahead(p)' = a /\ Size(p)' = Len(z) + a
  BY DEF Ahead, Size
<1>3. CASE left[p].main = <<BodyOf("reset")>> /\ Size(p) = n + 1
  <2>1. \/ z = s /\ left'[p].main = <<BodyOf("reset")>>
        \/ z = Append(s, BodyOf("reset")) /\ left'[p].main = <<>>
    <3>1. sendmessage(p, "main", <<BodyOf("reset")>>)
      BY <1>3, Zenon
    <3> QED
      BY <3>1, <1>p, RestIsSaid
  <2>2. Matches(Append(s, BodyOf("reset")), ResetPieces(n), a)
    <3> HIDE DEF s, a
    <3> QED
      BY <1>1, <1>2, <1>3, ResetGoesOn
  <2>3. Matches(z, ResetPieces(n), a)
    BY <1>2, <2>1, <2>2, Zenon
  <2>4. \/ Len(z) = Len(s) /\ left'[p].main = <<BodyOf("reset")>>
        \/ Len(z) = Len(s) + 1 /\ left'[p].main = <<>>
    BY <2>1, <1>l, Zenon
  <2> HIDE DEF s, z, a
  <2>5. /\ Size(p)' \in {n, n + 1, n + 2}
        /\ left'[p].main = <<>> \/ (left'[p].main = <<BodyOf("reset")>> /\ Size(p)' = n + 1)
    BY <2>4, <1>1, <1>3, <1>a
  <2> QED
    BY <2>3, <2>5, <1>2, <1>a, ResetStreamIs DEF z
<1>4. CASE left[p].main = Message("reset") /\ Size(p) = n
  <2>1. \/ z = s /\ left'[p].main = Message("reset")
        \/ z = Append(s, HeadOf("reset")) /\ left'[p].main = <<BodyOf("reset")>>
        \/ z = Append(Append(s, HeadOf("reset")), BodyOf("reset")) /\ left'[p].main = <<>>
    <3>1. sendmessage(p, "main", Message("reset"))
      BY <1>4, Zenon
    <3> QED
      BY <3>1, <1>p, MainSays
  <2>2. /\ Matches(Append(s, HeadOf("reset")), ResetPieces(n), a)
        /\ Matches(Append(Append(s, HeadOf("reset")), BodyOf("reset")), ResetPieces(n), a)
    <3> HIDE DEF s, a
    <3> QED
      BY <1>1, <1>2, <1>4, ResetGoesOn
  <2>3. Matches(z, ResetPieces(n), a)
    BY <1>2, <2>1, <2>2, Zenon
  <2>4. \/ Len(z) = Len(s) /\ left'[p].main = Message("reset")
        \/ Len(z) = Len(s) + 1 /\ left'[p].main = <<BodyOf("reset")>>
        \/ Len(z) = Len(s) + 2 /\ left'[p].main = <<>>
    BY <2>1, <1>l, Zenon
  <2> HIDE DEF s, z, a
  <2>5. /\ Size(p)' \in {n, n + 1, n + 2}
        /\ \/ left'[p].main = <<>>
           \/ left'[p].main = <<BodyOf("reset")>> /\ Size(p)' = n + 1
           \/ left'[p].main = Message("reset") /\ Size(p)' = n
    BY <2>4, <1>1, <1>4, <1>a
  <2> QED
    BY <2>3, <2>5, <1>2, <1>a, ResetStreamIs DEF z
<1> QED
  BY <1>2, <1>3, <1>4

LEMMA ResetDropped ==
  ASSUME NEW p \in Peer, ResetStream(p), sock'[p] = sock[p], half'[p] = half[p], left'[p].main = <<>>
  PROVE  ResetStream(p)'
<1>1. PICK n \in Nat : /\ Size(p) \in {n, n + 1, n + 2}
                       /\ half[p] \in {"none", IF n = 0 THEN "reset" ELSE "data"}
                       /\ Matches(sock[p], ResetPieces(n), Ahead(p))
  BY DEF ResetStream
<1>2. Ahead(p)' = Ahead(p) /\ Size(p)' = Size(p)
  BY DEF Ahead, Size
<1> QED
  BY <1>1, <1>2, ResetStreamIs

LEMMA SayOnKeeps ==
  ASSUME ClInv, NEW p \in Peer, SayOn(p)
  PROVE  ClInv'
<1>1. /\ main[p] = "write"
      /\ UNCHANGED <<then, kind, fwd, fstop, waiting, reg, stopped, inp, app, half, sent>>
  BY DEF SayOn, program
<1>t. ClTyped
  BY DEF ClInv
<1>w. app'[p] = app[p] /\ half'[p] = half[p] /\ inp'[p] = inp[p] /\ (Live(p)' <=> Live(p))
  BY <1>1 DEF Live
<1>2. Live(p) => Serves(p) /\ PhaseOf(p)
  BY DEF ClInv
<1>3. CASE left[p]["main"] = <<>>
  <2>1. Goes(p, then[p]) /\ UNCHANGED <<left, sock>>
    BY <1>3 DEF SayOn
  <2>2. ClTyped'
    BY <1>1, <1>t, <2>1 DEF ClTyped, Goes
  <2>3. \A q \in Peer : q # p => Same(q)
    BY <1>1, <1>t, <2>1 DEF ClTyped, Same, Whole, Goes
  <2>4. ASSUME Live(p)' PROVE Serves(p)' /\ PhaseOf(p)'
    <3>1. Serves(p) /\ PhaseOf(p) /\ then[p] = "read"
      BY <1>1, <1>2, <1>w, <2>4 DEF Serves
    <3>m. main'[p] \in {"end", "read"}
      BY <1>t, <2>1, <3>1 DEF Goes, ClTyped
    <3>2. Serves(p)'
      BY <1>1, <1>3, <2>1, <3>1, <3>m DEF Serves, Within
    <3>3. /\ Silent(p) => Silent(p)'
          /\ \A w : Says(p, w) => Says(p, w)'
          /\ ResetStream(p) => ResetStream(p)'
          /\ DataStream(p) => DataStream(p)'
      BY <1>1, <2>1, StreamsStay
    <3>4. /\ ~IsOff(p) /\ ~IsOpen(p) /\ ~IsRefused(p)
          /\ IsPristine(p) => IsPristine(p)'
          /\ IsAsking(p) => IsAsking(p)'
      BY <1>1, <2>1, <3>m, <3>3 DEF IsOff, IsOpen, IsRefused, IsPristine, IsAsking, Away, Within, Past
    <3>5. IsOpening(p) => IsOpening(p)'
      BY <1>1, <2>1, <3>m, <3>3 DEF IsOpening, Away, Within, Past
    <3>8. IsResetting(p) => IsResetting(p)'
      BY <1>1, <2>1, <3>m, <3>3 DEF IsResetting, Leaves, Away, Past
    <3> QED
      BY <1>w, <3>1, <3>2, <3>4, <3>5, <3>8 DEF PhaseOf
  <2> QED
    BY <2>2, <2>3, <2>4, OnePeerMoves
<1>4. CASE left[p]["main"] # <<>>
  <2>1. main' = main /\ WriteOn(p, "main")
    BY <1>4 DEF SayOn
  <2>l. left \in [Peer -> [main : Seq(Piece), fwd : Seq(Piece)]] /\ sock \in [Peer -> Seq(Piece)]
    BY <1>t DEF ClTyped
  <2>2. /\ sock' \in [Peer -> Seq(Piece)] /\ \A q \in Peer : Len(sock'[q]) <= Room
        /\ left' \in [Peer -> [main : Seq(Piece), fwd : Seq(Piece)]]
        /\ \A q \in Peer : q # p => sock'[q] = sock[q] /\ left'[q] = left[q]
        /\ left'[p].fwd = left[p].fwd
        /\ sendmessage(p, "main", left[p].main) \/ (sock' = sock /\ left'[p].main = <<>>)
    <3>1. CASE sendmessage(p, "main", left[p].main)
      <4>1. left[p].main \in Seq(Piece)
        BY <2>l
      <4> QED
        BY <1>t, <3>1, <4>1, TypedSends
    <3>2. CASE left' = [left EXCEPT ![p]["main"] = <<>>] /\ sock' = sock
      <4>1. left' = [left EXCEPT ![p] = [left[p] EXCEPT !.main = <<>>]]
        BY <3>2
      <4>2. [left[p] EXCEPT !.main = <<>>] \in [main : Seq(Piece), fwd : Seq(Piece)]
        <5>1. left[p] \in [main : Seq(Piece), fwd : Seq(Piece)] /\ <<>> \in Seq(Piece)
          BY <2>l
        <5>2. \A r \in [main : Seq(Piece), fwd : Seq(Piece)] : \A y \in Seq(Piece) :
                [r EXCEPT !.main = y] \in [main : Seq(Piece), fwd : Seq(Piece)]
          OBVIOUS
        <5> QED
          BY <5>1, <5>2, Zenon
      <4>3. left' \in [Peer -> [main : Seq(Piece), fwd : Seq(Piece)]] /\ left'[p] = [left[p] EXCEPT !.main = <<>>]
            /\ \A q \in Peer : q # p => left'[q] = left[q]
        BY <2>l, <4>1, <4>2
      <4> QED
        BY <1>t, <3>2, <4>3, <2>l DEF ClTyped
    <3> QED
      BY <2>1, <3>1, <3>2 DEF WriteOn
  <2>3. ClTyped'
    BY <1>1, <1>t, <2>1, <2>2 DEF ClTyped
  <2>4. \A q \in Peer : q # p => Same(q)
    BY <1>1, <2>1, <2>2 DEF Same, Whole
  <2>5. ASSUME Live(p)' PROVE Serves(p)' /\ PhaseOf(p)'
    <3>1. Serves(p) /\ PhaseOf(p)
      BY <1>2, <1>w, <2>5
    <3>2. Serves(p)'
      BY <1>1, <2>1, <2>2, <3>1 DEF Serves, Within
    <3>3. ~IsOff(p) /\ ~IsPristine(p) /\ ~IsAsking(p) /\ ~IsOpening(p) /\ ~IsOpen(p) /\ ~IsRefused(p)
      BY <1>1, <1>4 DEF IsOff, IsPristine, IsAsking, IsOpening, IsOpen, IsRefused
    <3>4. app[p] = "resetting" /\ IsResetting(p)
      BY <3>1, <3>3 DEF PhaseOf
    <3>5. main[p] \in Away /\ inp[p] = <<>> /\ ResetStream(p)
      BY <1>4, <3>4 DEF IsResetting
    <3>6. ResetStream(p)'
      <4>1. CASE sendmessage(p, "main", left[p].main)
        BY <1>t, <1>w, <1>4, <3>4, <3>5, <4>1, ResetSaidOn
      <4>2. CASE sock' = sock /\ left'[p].main = <<>>
        BY <1>w, <3>5, <4>2, ResetDropped
      <4> QED
        BY <2>2, <4>1, <4>2
    <3>7. IsResetting(p)'
      BY <1>w, <2>1, <3>5, <3>6 DEF IsResetting
    <3> QED
      BY <1>w, <3>2, <3>4, <3>7 DEF PhaseOf
  <2> QED
    BY <2>3, <2>4, <2>5, OnePeerMoves
<1> QED
  BY <1>3, <1>4

----------------------------------------------------------------------------
(* The forwarder.                                                          *)
LEMMA StreamIs ==
  ASSUME NEW p \in Peer, Follows(p)'
  PROVE  /\ half'[p] \in {"none", "data"} /\ Matches(sock'[p], DataPieces, Ahead(p)') => DataStream(p)'
         /\ half'[p] \in {"none", "answer"} /\ Size(p)' >= 2 /\ Matches(sock'[p], AnswerPieces, Ahead(p)')
              => AnswerStream(p)'
<1>1. Matches(sock'[p], DataPieces, Ahead(p)') => Matches(sock[p], DataPieces, Ahead(p))'
  BY Zenon DEF DataPieces, Matches, PieceOf, HeadOf, BodyOf
<1>2. Matches(sock'[p], AnswerPieces, Ahead(p)') => Matches(sock[p], AnswerPieces, Ahead(p))'
  BY Zenon DEF AnswerPieces, Matches, PieceOf, HeadOf, BodyOf
<1> QED
  BY <1>1, <1>2 DEF DataStream, AnswerStream

LEMMA StreamGoesOn ==
  ASSUME ClTyped, NEW p \in Peer, app[p] # "closed", half'[p] = half[p], fwd'[p] = "write",
         \/ Size(p) % 2 = 0 /\ sendmessage(p, "fwd", Message("data"))
         \/ Size(p) % 2 = 1 /\ sendmessage(p, "fwd", <<BodyOf("data")>>)
  PROVE  (DataStream(p) => DataStream(p)') /\ (AnswerStream(p) => AnswerStream(p)')
<1> DEFINE a == Ahead(p)
           s == sock[p]
           z == sock'[p]
           l == left'[p].fwd
           h == HeadOf("data")
           b == BodyOf("data")
<1>1. s \in Seq(Piece) /\ a \in {0, 1} /\ Size(p) = Len(s) + a /\ Len(s) \in Nat
  BY DEF ClTyped, Ahead, Size
<1>p. h \in Piece /\ b \in Piece /\ "data" \in Whats
  BY MessagePieces DEF Whats
<1>l. Len(Append(s, h)) = Len(s) + 1 /\ Len(Append(Append(s, h), b)) = Len(s) + 2
      /\ Len(Append(s, b)) = Len(s) + 1
  BY <1>1, <1>p
<1>a. Ahead(p)' = a /\ Size(p)' = Len(z) + a
  BY DEF Ahead, Size
<1>2. \/ Size(p) % 2 = 0 /\ \/ z = s /\ l = Message("data")
                            \/ z = Append(s, h) /\ l = <<b>>
                            \/ z = Append(Append(s, h), b) /\ l = <<>>
      \/ Size(p) % 2 = 1 /\ \/ z = s /\ l = <<b>>
                            \/ z = Append(s, b) /\ l = <<>>
  <2>1. ASSUME sendmessage(p, "fwd", Message("data"))
        PROVE  \/ z = s /\ l = Message("data")
               \/ z = Append(s, h) /\ l = <<b>>
               \/ z = Append(Append(s, h), b) /\ l = <<>>
    BY <2>1, <1>p, ForwarderSays
  <2>2. ASSUME sendmessage(p, "fwd", <<b>>) PROVE (z = s /\ l = <<b>>) \/ (z = Append(s, b) /\ l = <<>>)
    BY <2>2, <1>p, RestIsSaid
  <2> QED
    BY <2>1, <2>2
<1>3. \/ Size(p)' % 2 = 0 /\ l = Message("data")
      \/ Size(p)' % 2 = 1 /\ l = <<b>>
      \/ Size(p)' % 2 = 0 /\ l = <<>>
  <2>1. \/ Size(p) % 2 = 0 /\ \/ Len(z) = Len(s) /\ l = Message("data")
                              \/ Len(z) = Len(s) + 1 /\ l = <<b>>
                              \/ Len(z) = Len(s) + 2 /\ l = <<>>
        \/ Size(p) % 2 = 1 /\ \/ Len(z) = Len(s) /\ l = <<b>>
                              \/ Len(z) = Len(s) + 1 /\ l = <<>>
    BY <1>2, <1>l, Zenon
  <2>2. DEFINE n == Len(s)
               m == Len(z)
               k == Size(p)
               j == Size(p)'
  <2>3. n \in Nat /\ k = n + a /\ j = m + a /\ a \in {0, 1}
    BY <1>1, <1>a
  <2> HIDE DEF n, m, k, j, l, b, a, z, s, h
  <2>4. \/ k % 2 = 0 /\ \/ m = n /\ l = Message("data")
                        \/ m = n + 1 /\ l = <<b>>
                        \/ m = n + 2 /\ l = <<>>
        \/ k % 2 = 1 /\ \/ m = n /\ l = <<b>>
                        \/ m = n + 1 /\ l = <<>>
    BY <2>1 DEF n, m, k
  <2>5. /\ m = n => j % 2 = k % 2
        /\ m = n + 1 => (k % 2 = 0 => j % 2 = 1) /\ (k % 2 = 1 => j % 2 = 0)
        /\ m = n + 2 => j % 2 = k % 2
    <3>1. m = n + 1 => j = k + 1
      BY <2>3
    <3>2. m = n + 2 => j = k + 2
      BY <2>3
    <3>3. \A x \in Nat : /\ (x + 2) % 2 = x % 2
                         /\ (x % 2 = 0 => (x + 1) % 2 = 1) /\ (x % 2 = 1 => (x + 1) % 2 = 0)
      OBVIOUS
    <3>4. k \in Nat /\ (m = n => j = k)
      BY <2>3
    <3> QED
      BY <3>1, <3>2, <3>3, <3>4, Zenon
  <2>6. \/ j % 2 = 0 /\ l = Message("data")
        \/ j % 2 = 1 /\ l = <<b>>
        \/ j % 2 = 0 /\ l = <<>>
    BY <2>4, <2>5, Zenon
  <2> QED
    BY <2>6 DEF j
<1>4. Follows(p)'
  BY <1>3 DEF Follows, BodyOf, Message
<1>5. ASSUME NEW P, P = DataPieces \/ (P = AnswerPieces /\ Size(p) >= 2), Matches(s, P, a)
      PROVE  Matches(z, P, a)
  <2>1. /\ Size(p) % 2 = 0 => Matches(Append(s, h), P, a) /\ Matches(Append(Append(s, h), b), P, a)
        /\ Size(p) % 2 = 1 => Matches(Append(s, b), P, a)
    <3>1. P = DataPieces \/ (P = AnswerPieces /\ Len(s) + a >= 2)
      BY <1>1, <1>5
    <3> HIDE DEF s, a
    <3>2. /\ (Len(s) + a) % 2 = 0 => Matches(Append(s, h), P, a) /\ Matches(Append(Append(s, h), b), P, a)
          /\ (Len(s) + a) % 2 = 1 => Matches(Append(s, b), P, a)
      BY <1>1, <1>5, <3>1, DataGoesOn
    <3> QED
      BY <1>1, <3>2
  <2> QED
    BY <1>2, <1>5, <2>1, Zenon
<1>6. DataStream(p) => DataStream(p)'
  BY <1>4, <1>5, <1>a, StreamIs DEF DataStream
<1>7. AnswerStream(p) => AnswerStream(p)'
  <2>1. Size(p) >= 2 => Size(p)' >= 2
    <3>1. Len(z) = Len(s) \/ Len(z) = Len(s) + 1 \/ Len(z) = Len(s) + 2
      BY <1>2, <1>l, Zenon
    <3> HIDE DEF s, z, a
    <3> QED
      BY <3>1, <1>1, <1>a
  <2> QED
    BY <1>4, <1>5, <1>a, <2>1, StreamIs DEF AnswerStream
<1> QED
  BY <1>6, <1>7

LEMMA ForwarderTyped ==
  ASSUME ClTyped, NEW p \in Peer, NEW pieces \in Seq(Piece), sendmessage(p, "fwd", pieces),
         fwd' = [q \in Peer |-> fwd'[q]], waiting' = [q \in Peer |-> waiting'[q]], ForwarderUnchanged,
         \A q \in Peer : q # p => fwd'[q] = fwd[q] /\ (q \in reg' <=> q \in reg)
  PROVE  /\ ClTyped' /\ \A q \in Peer : q # p => Same(q)
         /\ left'[p].main = left[p].main
<1>1. /\ sock' \in [Peer -> Seq(Piece)] /\ \A q \in Peer : Len(sock'[q]) <= Room
      /\ left' \in [Peer -> [main : Seq(Piece), fwd : Seq(Piece)]]
      /\ \A q \in Peer : q # p => sock'[q] = sock[q] /\ left'[q] = left[q]
      /\ left'[p].main = left[p].main
  BY TypedSends
<1>2. UNCHANGED <<main, then, kind, fstop, stopped, inp, app, half, sent>>
  BY DEF ForwarderUnchanged, program
<1>3. ClTyped'
  BY <1>1, <1>2 DEF ClTyped
<1>4. \A q \in Peer : q # p => Same(q)
  BY <1>1, <1>2 DEF Same, Whole
<1> QED
  BY <1>1, <1>3, <1>4

LEMMA RegisterKeeps ==
  ASSUME ClInv, NEW p \in Peer, RegisterMonitor(p)
  PROVE  ClInv'
<1>1. /\ fwd[p] = "register" /\ waiting' = waiting
      /\ UNCHANGED <<main, then, kind, fstop, stopped, inp, app, half, sent>>
  BY DEF RegisterMonitor, ForwarderUnchanged, program
<1>t. ClTyped /\ fwd = [q \in Peer |-> fwd[q]] /\ waiting = [q \in Peer |-> waiting[q]]
  BY DEF ClInv, ClTyped
<1>w. app'[p] = app[p] /\ half'[p] = half[p] /\ inp'[p] = inp[p] /\ (Live(p)' <=> Live(p))
  BY <1>1 DEF Live
<1>2. Live(p) => /\ Serves(p) /\ app[p] = "opening" /\ main[p] \in Within /\ left[p].main = <<>>
                 /\ sock[p] = <<>> /\ half[p] = "none" /\ inp[p] = <<>> /\ kind[p] = "monitor" /\ p \notin reg
  <2> SUFFICES ASSUME Live(p)
               PROVE /\ Serves(p) /\ app[p] = "opening" /\ main[p] \in Within /\ left[p].main = <<>>
                     /\ sock[p] = <<>> /\ half[p] = "none" /\ inp[p] = <<>> /\ kind[p] = "monitor" /\ p \notin reg
    OBVIOUS
  <2>1. Serves(p) /\ PhaseOf(p)
    BY DEF ClInv
  <2>2. main[p] \in Within
    BY <1>1, <2>1 DEF Serves
  <2>3. ~Follows(p)
    BY <1>1 DEF Follows
  <2>4. ~IsOff(p) /\ ~IsPristine(p) /\ ~IsAsking(p) /\ ~IsOpen(p) /\ ~IsRefused(p) /\ ~IsResetting(p)
    BY <1>1, <2>2, <2>3 DEF IsOff, IsPristine, IsAsking, IsOpen, IsRefused, IsResetting, Within, Away, DataStream
  <2>5. IsOpening(p)
    BY <2>1, <2>4 DEF PhaseOf
  <2>6. left[p].main = <<>> /\ Silent(p) /\ inp[p] = <<>> /\ p \notin reg /\ kind[p] = "monitor"
    BY <1>1, <2>2, <2>3, <2>5 DEF IsOpening, AnswerStream, Within, Away
  <2> QED
    BY <2>1, <2>2, <2>4, <2>6 DEF PhaseOf, Silent
<1>3. CASE /\ reg' = reg \cup {p} /\ Forward(p, "answer") /\ fwd' = [fwd EXCEPT ![p] = "write"]
  <2>1. /\ Message("answer") \in Seq(Piece) /\ "answer" \in Whats /\ sendmessage(p, "fwd", Message("answer"))
    BY <1>3, MessagePieces DEF Forward, Whats
  <2>2. /\ fwd' = [q \in Peer |-> fwd'[q]] /\ fwd'[p] = "write"
        /\ waiting' = [q \in Peer |-> waiting'[q]] /\ ForwarderUnchanged
        /\ \A q \in Peer : q # p => fwd'[q] = fwd[q] /\ (q \in reg' <=> q \in reg)
    BY <1>1, <1>3, <1>t DEF RegisterMonitor
  <2>3. /\ ClTyped' /\ \A q \in Peer : q # p => Same(q)
        /\ left'[p].main = left[p].main
    BY <1>t, <2>1, <2>2, ForwarderTyped
  <2>4. ASSUME Live(p)' PROVE Serves(p)' /\ PhaseOf(p)'
    <3>1. sock'[p] = Message("answer") /\ left'[p].fwd = <<>>
      BY <1>2, <1>t, <1>w, <2>1, <2>4, ForwarderSays DEF Live
    <3>2. AnswerStream(p)'
      BY <1>2, <1>w, <2>2, <2>4, <3>1, AnswerBegins
    <3>3. Serves(p)'
      BY <1>1, <1>2, <1>w, <2>2, <2>3, <2>4 DEF Serves, Within
    <3>4. IsOpening(p)'
      BY <1>1, <1>2, <1>w, <2>3, <2>4, <3>2 DEF IsOpening
    <3> QED
      BY <1>2, <1>w, <2>4, <3>3, <3>4 DEF PhaseOf
  <2> QED
    BY <2>3, <2>4, OnePeerMoves
<1>4. CASE /\ reg' = reg /\ Forward(p, "refusal")
           /\ fwd' = [fwd EXCEPT ![p] = IF left'[p]["fwd"] = <<>> THEN "done" ELSE "refused"]
  <2>1. /\ Message("refusal") \in Seq(Piece) /\ "refusal" \in Whats /\ sendmessage(p, "fwd", Message("refusal"))
    BY <1>4, MessagePieces DEF Forward, Whats
  <2>2. /\ fwd' = [q \in Peer |-> fwd'[q]] /\ fwd'[p] = IF left'[p]["fwd"] = <<>> THEN "done" ELSE "refused"
        /\ waiting' = [q \in Peer |-> waiting'[q]] /\ ForwarderUnchanged
        /\ \A q \in Peer : q # p => fwd'[q] = fwd[q] /\ (q \in reg' <=> q \in reg)
    BY <1>1, <1>4, <1>t DEF RegisterMonitor
  <2>3. /\ ClTyped' /\ \A q \in Peer : q # p => Same(q)
        /\ left'[p].main = left[p].main
    BY <1>t, <2>1, <2>2, ForwarderTyped
  <2>4. ASSUME Live(p)' PROVE Serves(p)' /\ PhaseOf(p)'
    <3>1. sock'[p] = Message("refusal") /\ left'[p].fwd = <<>> /\ fwd'[p] = "done"
      BY <1>2, <1>t, <1>w, <2>1, <2>2, <2>4, ForwarderSays DEF Live
    <3>2. Says(p, "refusal")'
      BY <1>2, <1>w, <2>1, <2>4, <3>1, SaysAreTrue
    <3>3. Serves(p)'
      BY <1>1, <1>2, <1>4, <1>w, <2>2, <2>3, <2>4, <3>1 DEF Serves, Within
    <3>4. IsOpening(p)'
      BY <1>1, <1>2, <1>4, <1>w, <2>3, <2>4, <3>1, <3>2 DEF IsOpening
    <3> QED
      BY <1>2, <1>w, <2>4, <3>3, <3>4 DEF PhaseOf
  <2> QED
    BY <2>3, <2>4, OnePeerMoves
<1> QED
  BY <1>3, <1>4 DEF RegisterMonitor

LEMMA TakeFrameKeeps ==
  ASSUME ClInv, NEW p \in Peer, TakeFrame(p)
  PROVE  ClInv'
<1>1. /\ fwd[p] = "idle" /\ fwd' = [fwd EXCEPT ![p] = "write"] /\ waiting' = [waiting EXCEPT ![p] = @ - 1]
      /\ reg' = reg /\ ForwarderUnchanged
      /\ UNCHANGED <<main, then, kind, fstop, stopped, inp, app, half, sent>>
  BY DEF TakeFrame, ForwarderUnchanged, program
<1>t. ClTyped /\ fwd = [q \in Peer |-> fwd[q]] /\ waiting = [q \in Peer |-> waiting[q]]
  BY DEF ClInv, ClTyped
<1>w. app'[p] = app[p] /\ half'[p] = half[p] /\ inp'[p] = inp[p] /\ (Live(p)' <=> Live(p))
  BY <1>1 DEF Live
<1>2. Message("data") \in Seq(Piece) /\ sendmessage(p, "fwd", Message("data"))
  BY MessagePieces DEF TakeFrame, Forward, Whats
<1>3. /\ fwd' = [q \in Peer |-> fwd'[q]] /\ fwd'[p] = "write" /\ waiting' = [q \in Peer |-> waiting'[q]]
      /\ \A q \in Peer : q # p => fwd'[q] = fwd[q] /\ (q \in reg' <=> q \in reg)
  BY <1>1, <1>t
<1>4. /\ ClTyped' /\ \A q \in Peer : q # p => Same(q)
      /\ left'[p].main = left[p].main
  BY <1>1, <1>t, <1>2, <1>3, ForwarderTyped
<1>5. ASSUME Live(p)' PROVE Serves(p)' /\ PhaseOf(p)'
  <2>1. Serves(p) /\ PhaseOf(p) /\ app[p] # "closed"
    BY <1>5, <1>w DEF ClInv, Live
  <2>2. main[p] \in Within /\ left[p].fwd = <<>>
    BY <1>1, <2>1 DEF Serves
  <2>3. Serves(p)'
    BY <1>1, <1>3, <1>4, <2>1, <2>2 DEF Serves, Within
  <2>4. Follows(p) => Size(p) % 2 = 0
    BY <1>1 DEF Follows
  <2>5. (DataStream(p) => DataStream(p)') /\ (AnswerStream(p) => AnswerStream(p)')
    <3>1. ASSUME Follows(p) PROVE (DataStream(p) => DataStream(p)') /\ (AnswerStream(p) => AnswerStream(p)')
      BY <1>2, <1>3, <1>t, <1>w, <2>1, <2>4, <3>1, StreamGoesOn
    <3> QED
      BY <3>1 DEF DataStream, AnswerStream
  <2>6. ~IsOff(p) /\ ~IsPristine(p) /\ ~IsAsking(p) /\ ~IsRefused(p)
    BY <1>1, <2>2 DEF IsOff, IsPristine, IsAsking, IsRefused, Within, Away
  <2>7. IsOpening(p) => IsOpening(p)'
    BY <1>1, <1>4, <2>2, <2>5 DEF IsOpening, Within, Past, Away
  <2>8. IsOpen(p) => IsOpen(p)'
    BY <1>1, <1>4, <2>5 DEF IsOpen, OnlyData
  <2>9. IsResetting(p) => IsResetting(p)'
    BY <1>1, <1>4, <2>2, <2>5 DEF IsResetting, Leaves, Within, Past, Away, ThenReset
  <2> QED
    BY <1>w, <2>1, <2>3, <2>6, <2>7, <2>8, <2>9 DEF PhaseOf
<1> QED
  BY <1>4, <1>5, OnePeerMoves

LEMMA StreamCutOff ==
  ASSUME NEW p \in Peer, half'[p] = half[p], sock'[p] = sock[p], left'[p].fwd = <<>>,
         \/ fwd[p] = "write" /\ fstop[p] /\ fwd'[p] = "write" /\ fstop'[p]
         \/ left[p].fwd = <<>> /\ fwd[p] \in {"write", "refused"}
              /\ fwd'[p] = (IF fwd[p] = "write" /\ ~fstop[p] THEN "idle" ELSE "done")
  PROVE  (DataStream(p) => DataStream(p)') /\ (AnswerStream(p) => AnswerStream(p)')
<1>1. Ahead(p)' = Ahead(p) /\ Size(p)' = Size(p)
  BY DEF Ahead, Size
<1>2. Follows(p) => Follows(p)'
  <2>1. CASE fwd[p] = "write" /\ fstop[p] /\ fwd'[p] = "write" /\ fstop'[p]
    BY <2>1 DEF Follows
  <2>2. CASE left[p].fwd = <<>> /\ fwd[p] \in {"write", "refused"}
              /\ fwd'[p] = (IF fwd[p] = "write" /\ ~fstop[p] THEN "idle" ELSE "done")
    BY <1>1, <2>2 DEF Follows, Message, BodyOf
  <2> QED
    BY <2>1, <2>2
<1>3. DataStream(p) => DataStream(p)'
  BY <1>1, <1>2, StreamIs DEF DataStream
<1>4. AnswerStream(p) => AnswerStream(p)'
  BY <1>1, <1>2, StreamIs DEF AnswerStream
<1> QED
  BY <1>3, <1>4

LEMMA ForwardOnKeeps ==
  ASSUME ClInv, NEW p \in Peer, ForwardOn(p)
  PROVE  ClInv'
<1>1. /\ fwd[p] \in {"write", "refused"} /\ waiting' = waiting /\ reg' = reg /\ ForwarderUnchanged
      /\ UNCHANGED <<main, then, kind, fstop, stopped, inp, app, half, sent>>
  BY DEF ForwardOn, ForwarderUnchanged, program
<1>t. ClTyped /\ fwd = [q \in Peer |-> fwd[q]] /\ waiting = [q \in Peer |-> waiting[q]]
  BY DEF ClInv, ClTyped
<1>w. app'[p] = app[p] /\ half'[p] = half[p] /\ inp'[p] = inp[p] /\ fstop'[p] = fstop[p]
      /\ (Live(p)' <=> Live(p))
  BY <1>1 DEF Live
<1>2. Live(p) => Serves(p) /\ PhaseOf(p) /\ main[p] \in Within /\ app[p] # "closed"
  BY <1>1 DEF ClInv, Serves, Live
<1>s. ASSUME Live(p), fwd'[p] = fwd[p] \/ (fwd[p] \in {"write", "refused"} /\ fwd'[p] \in {"idle", "done"}),
             fwd[p] = "refused" => fwd'[p] \in {"refused", "done"} /\ left'[p].fwd = <<>>
                                    /\ sock'[p] = sock[p],
             fwd'[p] \in {"idle", "done"} => left'[p].fwd = <<>>,
             left'[p].main = left[p].main,
             (DataStream(p) => DataStream(p)') /\ (AnswerStream(p) => AnswerStream(p)')
      PROVE  Serves(p)' /\ PhaseOf(p)'
  <2>1. Serves(p) /\ PhaseOf(p) /\ main[p] \in Within
    BY <1>2, <1>s
  <2>2. Serves(p)'
    BY <1>1, <1>s, <1>w, <2>1 DEF Serves, Within
  <2>3. ~IsOff(p) /\ ~IsPristine(p) /\ ~IsAsking(p)
    BY <1>1, <2>1 DEF IsOff, IsPristine, IsAsking, Within, Away
  <2>4. fwd[p] = "refused" => /\ Silent(p) => Silent(p)'
                              /\ Says(p, "refusal") => Says(p, "refusal")'
    BY <1>s, <1>w, StreamsStay
  <2>5. IsOpening(p) => IsOpening(p)'
    BY <1>1, <1>s, <2>1, <2>4 DEF IsOpening, Within, Past, Away
  <2>6. IsOpen(p) => IsOpen(p)'
    BY <1>1, <1>s DEF IsOpen, OnlyData
  <2>7. IsRefused(p) => IsRefused(p)'
    BY <1>1, <1>s, <2>4 DEF IsRefused
  <2>8. IsResetting(p) => IsResetting(p)'
    BY <1>1, <1>s, <2>1 DEF IsResetting, Leaves, Within, Past, Away, ThenReset
  <2> QED
    BY <1>w, <2>1, <2>2, <2>3, <2>5, <2>6, <2>7, <2>8 DEF PhaseOf
<1>3. CASE left[p]["fwd"] = <<>>
  <2>1. /\ fwd' = [fwd EXCEPT ![p] = IF fwd[p] = "write" /\ ~fstop[p] THEN "idle" ELSE "done"]
        /\ UNCHANGED <<left, sock>>
    BY <1>3 DEF ForwardOn
  <2>2. ClTyped'
    BY <1>1, <1>t, <2>1 DEF ClTyped
  <2>3. /\ fwd'[p] = (IF fwd[p] = "write" /\ ~fstop[p] THEN "idle" ELSE "done")
        /\ \A q \in Peer : q # p => Same(q)
    BY <1>1, <1>t, <2>1 DEF ClTyped, Same, Whole
  <2>4. ASSUME Live(p)' PROVE Serves(p)' /\ PhaseOf(p)'
    <3>1. (DataStream(p) => DataStream(p)') /\ (AnswerStream(p) => AnswerStream(p)')
      BY <1>1, <1>3, <1>w, <2>1, <2>3, StreamCutOff
    <3> QED
      BY <1>1, <1>3, <1>s, <1>w, <2>1, <2>3, <2>4, <3>1
  <2> QED
    BY <2>2, <2>3, <2>4, OnePeerMoves
<1>4. CASE left[p]["fwd"] # <<>>
  <2>1. fwd' = fwd /\ WriteOn(p, "fwd")
    BY <1>4 DEF ForwardOn
  <2>l. left \in [Peer -> [main : Seq(Piece), fwd : Seq(Piece)]] /\ sock \in [Peer -> Seq(Piece)]
    BY <1>t DEF ClTyped
  <2>w. Live(p) => fwd[p] = "write"
    BY <1>1, <1>2, <1>4 DEF Serves
  <2>2. CASE sendmessage(p, "fwd", left[p].fwd)
    <3>1. left[p].fwd \in Seq(Piece)
      BY <2>l
    <3>2. fwd' = [q \in Peer |-> fwd'[q]] /\ waiting' = [q \in Peer |-> waiting'[q]]
          /\ \A q \in Peer : q # p => fwd'[q] = fwd[q] /\ (q \in reg' <=> q \in reg)
      BY <1>1, <1>t, <2>1
    <3>3. /\ ClTyped' /\ \A q \in Peer : q # p => Same(q)
          /\ left'[p].main = left[p].main
      BY <1>1, <1>t, <2>2, <3>1, <3>2, ForwarderTyped
    <3>4. ASSUME Live(p)' PROVE Serves(p)' /\ PhaseOf(p)'
      <4>1. fwd[p] = "write" /\ fwd'[p] = "write" /\ app[p] # "closed" /\ Live(p)
        BY <1>2, <1>w, <2>1, <2>w, <3>4
      <4>2. Follows(p) => \/ Size(p) % 2 = 0 /\ left[p].fwd = Message("data")
                          \/ Size(p) % 2 = 1 /\ left[p].fwd = <<BodyOf("data")>>
        BY <1>4 DEF Follows
      <4>3. (DataStream(p) => DataStream(p)') /\ (AnswerStream(p) => AnswerStream(p)')
        <5>1. ASSUME Follows(p) PROVE (DataStream(p) => DataStream(p)') /\ (AnswerStream(p) => AnswerStream(p)')
          <6>1. \/ Size(p) % 2 = 0 /\ sendmessage(p, "fwd", Message("data"))
                \/ Size(p) % 2 = 1 /\ sendmessage(p, "fwd", <<BodyOf("data")>>)
            BY <2>2, <4>2, <5>1, Zenon
          <6> QED
            BY <1>t, <1>w, <4>1, <6>1, StreamGoesOn
        <5> QED
          BY <5>1 DEF DataStream, AnswerStream
      <4> QED
        BY <1>s, <3>3, <4>1, <4>3
    <3> QED
      BY <3>3, <3>4, OnePeerMoves
  <2>3. CASE left' = [left EXCEPT ![p]["fwd"] = <<>>] /\ sock' = sock /\ (fstop[p] \/ app[p] = "closed")
    <3>1. left' = [left EXCEPT ![p] = [left[p] EXCEPT !.fwd = <<>>]]
      BY <2>3
    <3>2. [left[p] EXCEPT !.fwd = <<>>] \in [main : Seq(Piece), fwd : Seq(Piece)]
      <4>1. left[p] \in [main : Seq(Piece), fwd : Seq(Piece)] /\ <<>> \in Seq(Piece)
        BY <2>l
      <4>2. \A r \in [main : Seq(Piece), fwd : Seq(Piece)] : \A y \in Seq(Piece) :
              [r EXCEPT !.fwd = y] \in [main : Seq(Piece), fwd : Seq(Piece)]
        OBVIOUS
      <4> QED
        BY <4>1, <4>2, Zenon
    <3>3. /\ left' \in [Peer -> [main : Seq(Piece), fwd : Seq(Piece)]]
          /\ left'[p] = [left[p] EXCEPT !.fwd = <<>>]
          /\ \A q \in Peer : q # p => left'[q] = left[q]
      BY <2>l, <3>1, <3>2
    <3>4. ClTyped'
      BY <1>1, <1>t, <2>1, <2>3, <3>3 DEF ClTyped
    <3>5. \A q \in Peer : q # p => Same(q)
      BY <1>1, <2>1, <2>3, <3>3 DEF Same, Whole
    <3>6. left'[p].fwd = <<>> /\ left'[p].main = left[p].main
      BY <2>l, <3>3
    <3>7. ASSUME Live(p)' PROVE Serves(p)' /\ PhaseOf(p)'
      <4>1. Live(p) /\ fwd[p] = "write" /\ fstop[p] /\ fwd'[p] = "write" /\ sock'[p] = sock[p]
        BY <1>2, <1>w, <2>1, <2>3, <2>w, <3>7
      <4>2. (DataStream(p) => DataStream(p)') /\ (AnswerStream(p) => AnswerStream(p)')
        BY <1>w, <3>6, <4>1, StreamCutOff
      <4> QED
        BY <1>s, <3>6, <4>1, <4>2
    <3> QED
      BY <3>4, <3>5, <3>7, OnePeerMoves
  <2> QED
    BY <2>1, <2>2, <2>3 DEF WriteOn, Interrupted
<1> QED
  BY <1>3, <1>4

----------------------------------------------------------------------------
(* The program reads.                                                      *)
Reads(p) ==
  LET x == Head(sock[p]) IN
  \/ x.part = "head" /\ half[p] = "none" /\ half'[p] = x.what /\ app'[p] = app[p]
  \/ x.part = "body" /\ half[p] = x.what /\ half'[p] = "none" /\ app'[p] = Understands(p, x.what)
  \/ /\ IF x.part = "head" THEN half[p] # "none" ELSE half[p] # x.what
     /\ half'[p] = half[p]
     /\ app'[p] = IF x.what = "reset" /\ half[p] = "data" THEN "broken" ELSE "confused"

LEMMA ReadTyped ==
  ASSUME ClTyped, NEW p \in Peer, ReadPiece(p)
  PROVE  /\ ClTyped' /\ \A q \in Peer : q # p => Same(q)
         /\ Reads(p) /\ sock[p] # <<>> /\ sock'[p] = Tail(sock[p])
         /\ UNCHANGED <<main, then, kind, fwd, fstop, left, waiting, reg, stopped, inp>>
<1>t. /\ half = [q \in Peer |-> half[q]] /\ app = [q \in Peer |-> app[q]]
      /\ sock \in [Peer -> Seq(Piece)] /\ \A q \in Peer : Len(sock[q]) <= Room
  BY DEF ClTyped
<1>1. /\ sock[p] # <<>> /\ sock' = [sock EXCEPT ![p] = Tail(@)]
      /\ UNCHANGED <<main, then, kind, fwd, fstop, left, waiting, reg, stopped, inp, sent>>
  BY DEF ReadPiece, daemon
<1>2. /\ sock' \in [Peer -> Seq(Piece)] /\ \A q \in Peer : Len(sock'[q]) <= Room
      /\ sock'[p] = Tail(sock[p]) /\ \A q \in Peer : q # p => sock'[q] = sock[q]
  <2>1. Tail(sock[p]) \in Seq(Piece) /\ Len(Tail(sock[p])) = Len(sock[p]) - 1 /\ Len(sock[p]) \in Nat
    BY <1>1, <1>t
  <2>2. Len(Tail(sock[p])) <= Room
    <3> DEFINE n == Len(sock[p])
               m == Len(Tail(sock[p]))
    <3>1. n \in Nat /\ m = n - 1 /\ n <= Room /\ Room \in Nat
      BY <1>t, <2>1, ClientsAssumption
    <3> HIDE DEF n, m
    <3>2. m <= Room
      BY <3>1
    <3> QED
      BY <3>2 DEF m
  <2> QED
    BY <1>1, <1>t, <2>1, <2>2
<1>3. /\ half' = [q \in Peer |-> half'[q]] /\ app' = [q \in Peer |-> app'[q]]
      /\ \A q \in Peer : q # p => half'[q] = half[q] /\ app'[q] = app[q]
      /\ Reads(p)
  <2> DEFINE x == Head(sock[p])
  <2>1. CASE /\ x.part = "head" /\ half[p] = "none"
             /\ half' = [half EXCEPT ![p] = x.what] /\ app' = app
    BY <1>t, <2>1 DEF Reads
  <2>2. CASE /\ x.part = "body" /\ half[p] = x.what
             /\ half' = [half EXCEPT ![p] = "none"]
             /\ app' = [app EXCEPT ![p] = Understands(p, x.what)]
    <3> DEFINE u == Understands(p, x.what)
    <3>1. app' = [app EXCEPT ![p] = u]
      BY <2>2
    <3> HIDE DEF u
    <3>2. app' = [q \in Peer |-> app'[q]] /\ app'[p] = u /\ \A q \in Peer : q # p => app'[q] = app[q]
      BY <1>t, <3>1
    <3>3. half' = [q \in Peer |-> half'[q]] /\ half'[p] = "none"
          /\ \A q \in Peer : q # p => half'[q] = half[q]
      BY <1>t, <2>2
    <3>4. Reads(p)
      BY <2>2, <3>2, <3>3 DEF Reads, u
    <3> QED
      BY <3>2, <3>3, <3>4
  <2>3. CASE /\ IF x.part = "head" THEN half[p] # "none" ELSE half[p] # x.what
             /\ app' = [app EXCEPT ![p] =
                  IF x.what = "reset" /\ half[p] = "data" THEN "broken" ELSE "confused"]
             /\ half' = half
    BY <1>t, <2>3 DEF Reads
  <2> QED
    BY <2>1, <2>2, <2>3 DEF ReadPiece
<1>4. ClTyped'
  BY <1>1, <1>2, <1>3 DEF ClTyped
<1>5. \A q \in Peer : q # p => Same(q)
  BY <1>1, <1>2, <1>3 DEF Same, Whole
<1> QED
  BY <1>1, <1>2, <1>3, <1>4, <1>5

(* A message that is alone on the way is read in two steps.                *)
LEMMA ReadSaid ==
  ASSUME NEW p \in Peer, NEW w \in Whats, Says(p, w), Reads(p), sock'[p] = Tail(sock[p])
  PROVE  \/ app'[p] = app[p] /\ Says(p, w)'
         \/ app'[p] = Understands(p, w) /\ Silent(p)'
<1>1. /\ HeadOf(w).part = "head" /\ HeadOf(w).what = w
      /\ BodyOf(w).part = "body" /\ BodyOf(w).what = w /\ w # "none"
  BY DEF HeadOf, BodyOf, Whats
<1>2. /\ Message(w) = <<HeadOf(w), BodyOf(w)>>
      /\ \A x, y : Head(<<x, y>>) = x /\ Tail(<<x, y>>) = <<y>> /\ Head(<<y>>) = y /\ Tail(<<y>>) = <<>>
  BY MessagePieces
<1>3. CASE half[p] = "none" /\ sock[p] = Message(w)
  <2>1. Head(sock[p]) = HeadOf(w) /\ sock'[p] = <<BodyOf(w)>>
    BY <1>2, <1>3
  <2>2. half'[p] = w /\ app'[p] = app[p]
    BY <1>1, <1>3, <2>1 DEF Reads
  <2> QED
    BY <2>1, <2>2 DEF Says, BodyOf
<1>4. CASE half[p] = w /\ sock[p] = <<BodyOf(w)>>
  <2>1. Head(sock[p]) = BodyOf(w) /\ sock'[p] = <<>>
    BY <1>2, <1>4
  <2>2. half'[p] = "none" /\ app'[p] = Understands(p, w)
    BY <1>1, <1>4, <2>1 DEF Reads
  <2> QED
    BY <2>1, <2>2 DEF Silent
<1> QED
  BY <1>3, <1>4 DEF Says

LEMMA Shift ==
  ASSUME NEW s \in Seq(Piece), Matches(s, DataPieces, 2) \/ Matches(s, AnswerPieces, 2)
  PROVE  Matches(s, DataPieces, 0)
<1> SUFFICES ASSUME NEW i \in DOMAIN s PROVE s[i] = DataPieces[i + 0]
  BY DEF Matches
<1>1. i \in Nat /\ i >= 1
  OBVIOUS
<1>2. i + 2 \in Nat /\ i + 2 > 2 /\ i + 0 = i /\ (i + 2) % 2 = i % 2
  BY <1>1
<1>3. s[i] = DataPieces[i + 2] \/ s[i] = AnswerPieces[i + 2]
  BY DEF Matches
<1>4. AnswerPieces[i + 2] = DataPieces[i + 2]
  BY <1>2, PiecesAre
<1>5. DataPieces[i + 2] = DataPieces[i]
  BY <1>1, <1>2 DEF DataPieces, PieceOf
<1> QED
  BY <1>2, <1>3, <1>4, <1>5

(* What follows does not depend on where the program has read to.          *)
LEMMA FollowsRead ==
  ASSUME NEW p \in Peer, Follows(p), Size(p)' % 2 = Size(p) % 2, UNCHANGED <<fwd, fstop, left>>
  PROVE  Follows(p)'
BY DEF Follows, Message, BodyOf

LEMMA ReadData ==
  ASSUME ClTyped, NEW p \in Peer, DataStream(p), Reads(p), sock[p] # <<>>, sock'[p] = Tail(sock[p]),
         UNCHANGED <<fwd, fstop, left>>
  PROVE  /\ DataStream(p)'
         /\ app'[p] = app[p] \/ app'[p] = Understands(p, "data")
         /\ half[p] = "none" => app'[p] = app[p]
         /\ half[p] # "none" => app'[p] = Understands(p, "data")
<1> DEFINE s == sock[p]
           t == Tail(s)
           a == Ahead(p)
<1>1. s \in Seq(Piece) /\ a \in {0, 1} /\ t \in Seq(Piece) /\ Len(t) = Len(s) - 1 /\ Len(s) \in Nat
  BY DEF ClTyped, Ahead
<1>2. Head(s) = DataPieces[1 + a] /\ Matches(t, DataPieces, a + 1)
  BY <1>1, MatchesRest DEF DataStream
<1>3. /\ HeadOf("data").part = "head" /\ HeadOf("data").what = "data"
      /\ BodyOf("data").part = "body" /\ BodyOf("data").what = "data"
  BY DEF HeadOf, BodyOf
<1>4. DataPieces[1] = HeadOf("data") /\ DataPieces[2] = BodyOf("data")
  BY PiecesAre
<1>5. CASE half[p] = "none"
  <2>1. a = 0 /\ 1 + a = 1 /\ a + 1 = 1
    BY <1>5 DEF Ahead
  <2>2. Head(s) = HeadOf("data") /\ Matches(t, DataPieces, 1)
    BY <1>2, <1>4, <2>1
  <2>3. half'[p] = "data" /\ app'[p] = app[p]
    BY <1>3, <1>5, <2>2 DEF Reads
  <2>4. Ahead(p)' = 1 /\ Size(p)' = Len(t) + 1 /\ Size(p) = Len(s) + 0
    BY <2>1, <2>3 DEF Ahead, Size
  <2>5. Size(p)' = Size(p)
    <3> HIDE DEF s, t
    <3> QED
      BY <1>1, <2>4
  <2>6. Follows(p)'
    BY <2>5, FollowsRead DEF DataStream
  <2>7. DataStream(p)'
    BY <2>2, <2>3, <2>4, <2>6, StreamIs
  <2> QED
    BY <1>5, <2>3, <2>7
<1>6. CASE half[p] # "none"
  <2>1. half[p] = "data" /\ a = 1 /\ 1 + a = 2 /\ a + 1 = 2
    BY <1>6 DEF DataStream, Ahead
  <2>2. Head(s) = BodyOf("data") /\ Matches(t, DataPieces, 2)
    BY <1>2, <1>4, <2>1
  <2>3. half'[p] = "none" /\ app'[p] = Understands(p, "data")
    BY <1>3, <2>1, <2>2 DEF Reads
  <2>4. Ahead(p)' = 0 /\ Size(p)' = Len(t) + 0 /\ Size(p) = Len(s) + 1
    BY <2>1, <2>3 DEF Ahead, Size
  <2>5. Size(p)' % 2 = Size(p) % 2
    <3> DEFINE n == Len(s)
               m == Len(t)
    <3>1. n \in Nat /\ m \in Nat /\ m = n - 1 /\ Size(p)' = m /\ Size(p) = n + 1
      BY <1>1, <2>4
    <3> HIDE DEF n, m
    <3>2. (n + 1) % 2 = (n - 1) % 2
      BY <3>1
    <3> QED
      BY <3>1, <3>2
  <2>6. Follows(p)'
    BY <2>5, FollowsRead DEF DataStream
  <2>7. Matches(t, DataPieces, 0)
    BY <1>1, <2>2, Shift
  <2>8. DataStream(p)'
    BY <2>3, <2>4, <2>6, <2>7, StreamIs
  <2> QED
    BY <1>6, <2>3, <2>8
<1> QED
  BY <1>5, <1>6

LEMMA ReadAnswer ==
  ASSUME ClTyped, NEW p \in Peer, AnswerStream(p), Reads(p), sock[p] # <<>>, sock'[p] = Tail(sock[p]),
         UNCHANGED <<fwd, fstop, left>>
  PROVE  \/ AnswerStream(p)' /\ app'[p] = app[p]
         \/ DataStream(p)' /\ app'[p] = Understands(p, "answer")
<1> DEFINE s == sock[p]
           t == Tail(s)
           a == Ahead(p)
<1>1. s \in Seq(Piece) /\ a \in {0, 1} /\ t \in Seq(Piece) /\ Len(t) = Len(s) - 1 /\ Len(s) \in Nat
  BY DEF ClTyped, Ahead
<1>2. Head(s) = AnswerPieces[1 + a] /\ Matches(t, AnswerPieces, a + 1)
  BY <1>1, MatchesRest DEF AnswerStream
<1>3. /\ HeadOf("answer").part = "head" /\ HeadOf("answer").what = "answer"
      /\ BodyOf("answer").part = "body" /\ BodyOf("answer").what = "answer"
  BY DEF HeadOf, BodyOf
<1>4. AnswerPieces[1] = HeadOf("answer") /\ AnswerPieces[2] = BodyOf("answer")
  BY PiecesAre
<1>5. CASE half[p] = "none"
  <2>1. a = 0 /\ 1 + a = 1 /\ a + 1 = 1
    BY <1>5 DEF Ahead
  <2>2. Head(s) = HeadOf("answer") /\ Matches(t, AnswerPieces, 1)
    BY <1>2, <1>4, <2>1
  <2>3. half'[p] = "answer" /\ app'[p] = app[p]
    BY <1>3, <1>5, <2>2 DEF Reads
  <2>4. Ahead(p)' = 1 /\ Size(p)' = Len(t) + 1 /\ Size(p) = Len(s) + 0
    BY <2>1, <2>3 DEF Ahead, Size
  <2>5. Size(p)' = Size(p)
    <3> HIDE DEF s, t
    <3> QED
      BY <1>1, <2>4
  <2>6. Follows(p)'
    BY <2>5, FollowsRead DEF AnswerStream
  <2>7. AnswerStream(p)'
    BY <2>2, <2>3, <2>4, <2>5, <2>6, StreamIs DEF AnswerStream
  <2> QED
    BY <2>3, <2>7
<1>6. CASE half[p] # "none"
  <2>1. half[p] = "answer" /\ a = 1 /\ 1 + a = 2 /\ a + 1 = 2
    BY <1>6 DEF AnswerStream, Ahead
  <2>2. Head(s) = BodyOf("answer") /\ Matches(t, AnswerPieces, 2)
    BY <1>2, <1>4, <2>1
  <2>3. half'[p] = "none" /\ app'[p] = Understands(p, "answer")
    BY <1>3, <2>1, <2>2 DEF Reads
  <2>4. Ahead(p)' = 0 /\ Size(p)' = Len(t) + 0 /\ Size(p) = Len(s) + 1
    BY <2>1, <2>3 DEF Ahead, Size
  <2>5. Size(p)' % 2 = Size(p) % 2
    <3> DEFINE n == Len(s)
               m == Len(t)
    <3>1. n \in Nat /\ m \in Nat /\ m = n - 1 /\ Size(p)' = m /\ Size(p) = n + 1
      BY <1>1, <2>4
    <3> HIDE DEF n, m
    <3>2. (n + 1) % 2 = (n - 1) % 2
      BY <3>1
    <3> QED
      BY <3>1, <3>2
  <2>6. Follows(p)'
    BY <2>5, FollowsRead DEF AnswerStream
  <2>7. Matches(t, DataPieces, 0)
    BY <1>1, <2>2, Shift
  <2>8. DataStream(p)'
    BY <2>3, <2>4, <2>6, <2>7, StreamIs
  <2> QED
    BY <2>3, <2>8
<1> QED
  BY <1>5, <1>6

LEMMA ReadReset ==
  ASSUME ClTyped, NEW p \in Peer, ResetStream(p), Reads(p), sock[p] # <<>>, sock'[p] = Tail(sock[p]),
         left'[p].main = left[p].main
  PROVE  \/ ResetStream(p)' /\ app'[p] = app[p]
         \/ app'[p] = Understands(p, "data")
         \/ app'[p] = "broken"
         \/ app'[p] = Understands(p, "reset") /\ Silent(p)' /\ left[p].main = <<>>
<1> DEFINE s == sock[p]
           t == Tail(s)
           a == Ahead(p)
           k == Size(p)
           l == left[p].main
<1>1. s \in Seq(Piece) /\ a \in {0, 1} /\ t \in Seq(Piece) /\ Len(t) = Len(s) - 1 /\ Len(s) \in Nat
      /\ Len(s) >= 1
  BY DEF ClTyped, Ahead
<1>2. PICK n \in Nat :
        /\ k \in {n, n + 1, n + 2}
        /\ half[p] \in {"none", IF n = 0 THEN "reset" ELSE "data"}
        /\ Matches(s, ResetPieces(n), a)
        /\ \/ l = <<>>
           \/ l = <<BodyOf("reset")>> /\ k = n + 1
           \/ l = Message("reset") /\ k = n
  BY DEF ResetStream
<1> DEFINE P == ResetPieces(n)
<1>3. Head(s) = P[1 + a] /\ Matches(t, P, a + 1)
  <2> HIDE DEF P
  <2> QED
    BY <1>1, <1>2, MatchesRest DEF P
<1>4. \A w \in {"data", "reset"} :
        /\ HeadOf(w).part = "head" /\ HeadOf(w).what = w
        /\ BodyOf(w).part = "body" /\ BodyOf(w).what = w
  BY DEF HeadOf, BodyOf
<1>5. /\ n >= 1 => P[1] = HeadOf("data")
      /\ n >= 2 => P[2] = BodyOf("data")
      /\ n = 1 => P[2] = HeadOf("reset")
      /\ n = 0 => P[1] = HeadOf("reset") /\ P[2] = BodyOf("reset")
  <2>1. /\ DataPieces[1] = HeadOf("data") /\ DataPieces[2] = BodyOf("data")
        /\ n >= 1 => P[1] = DataPieces[1]
        /\ n >= 2 => P[2] = DataPieces[2]
        /\ P[n + 1] = HeadOf("reset") /\ P[n + 2] = BodyOf("reset")
    BY PiecesAre
  <2> HIDE DEF P
  <2> QED
    BY <2>1
<1> HIDE DEF P
<1>6. CASE half[p] = "none"
  <2>1. a = 0 /\ 1 + a = 1 /\ a + 1 = 1
    BY <1>6 DEF Ahead
  <2>2. (n = 0 => Head(s) = HeadOf("reset")) /\ (n # 0 => Head(s) = HeadOf("data")) /\ Matches(t, P, 1)
    BY <1>3, <1>5, <2>1
  <2>3. half'[p] = (IF n = 0 THEN "reset" ELSE "data") /\ app'[p] = app[p]
    BY <1>4, <1>6, <2>2 DEF Reads
  <2>4. Ahead(p)' = 1 /\ Size(p)' = Len(t) + 1 /\ k = Len(s) + 0
    BY <2>1, <2>3 DEF Ahead, Size
  <2>5. Size(p)' = k
    <3> HIDE DEF s, t, k
    <3> QED
      BY <1>1, <2>4
  <2>6. Matches(sock'[p], ResetPieces(n), Ahead(p)')
    BY <2>2, <2>4 DEF P
  <2>7. ResetStream(p)'
    BY <1>2, <2>3, <2>5, <2>6, ResetStreamIs
  <2> QED
    BY <2>3, <2>7
<1>7. CASE half[p] = "data" /\ n # 0
  <2>1. a = 1 /\ 1 + a = 2
    BY <1>7 DEF Ahead
  <2>2. Head(s) = BodyOf("data") \/ Head(s) = HeadOf("reset")
    BY <1>3, <1>5, <1>7, <2>1
  <2>3. app'[p] = Understands(p, "data") \/ app'[p] = "broken"
    BY <1>4, <1>7, <2>2 DEF Reads
  <2> QED
    BY <2>3
<1>8. CASE half[p] = "reset" /\ n = 0
  <2>1. a = 1 /\ 1 + a = 2
    BY <1>8 DEF Ahead
  <2>2. Head(s) = BodyOf("reset")
    BY <1>3, <1>5, <1>8, <2>1
  <2>3. half'[p] = "none" /\ app'[p] = Understands(p, "reset")
    BY <1>4, <1>8, <2>2 DEF Reads
  <2>4. k = Len(s) + 1
    BY <2>1 DEF Size
  <2>5. k = 2 /\ Len(s) = 1
    <3> HIDE DEF s, k, l
    <3> QED
      BY <1>1, <1>2, <1>8, <2>4
  <2>6. l = <<>>
    <3> HIDE DEF l, k
    <3> QED
      BY <1>2, <1>8, <2>5
  <2>7. t = <<>>
    <3>1. \A x \in Seq(Piece) : Len(x) = 0 => x = <<>>
      OBVIOUS
    <3>2. Len(t) = 0
      BY <1>1, <2>5
    <3> QED
      BY <1>1, <3>1, <3>2
  <2> QED
    BY <2>3, <2>6, <2>7 DEF Silent
<1> QED
  BY <1>2, <1>6, <1>7, <1>8

LEMMA ReadPieceKeeps ==
  ASSUME ClInv, NEW p \in Peer, ReadPiece(p)
  PROVE  ClInv'
<1>t. ClTyped
  BY DEF ClInv
<1>1. /\ ClTyped' /\ \A q \in Peer : q # p => Same(q)
      /\ Reads(p) /\ sock[p] # <<>> /\ sock'[p] = Tail(sock[p])
      /\ UNCHANGED <<main, then, kind, fwd, fstop, left, waiting, reg, stopped, inp>>
  BY <1>t, ReadTyped
<1>2. Live(p) /\ Serves(p) /\ PhaseOf(p)
  BY DEF ReadPiece, ClInv, Live
<1>3. ~IsOff(p) /\ ~IsPristine(p) /\ ~IsRefused(p)
  BY <1>1 DEF IsOff, IsPristine, IsRefused, Silent
<1>w. "answer" \in Whats /\ "refusal" \in Whats /\ "data" \in Whats /\ "reset" \in Whats
  BY DEF Whats
<1>s. ASSUME main[p] = "join" /\ then[p] = "reset" => app'[p] = "resetting" PROVE Serves(p)'
  BY <1>1, <1>2, <1>s DEF Serves
<1>n. app[p] # "resetting" => Serves(p)'
  BY <1>2, <1>s DEF Serves
<1>4. CASE app[p] = "asking"
  <2>1. IsAsking(p)
    BY <1>2, <1>4 DEF PhaseOf
  <2>2. Says(p, "answer") /\ inp[p] = <<>> /\ main[p] \in Away /\ left[p].main = <<>>
    BY <1>1, <2>1 DEF IsAsking, Silent
  <2>3. \/ app'[p] = app[p] /\ Says(p, "answer")'
        \/ app'[p] = Understands(p, "answer") /\ Silent(p)'
    BY <1>1, <1>w, <2>2, ReadSaid
  <2>4. Understands(p, "answer") = "pristine"
    BY <1>4 DEF Understands
  <2>5. PhaseOf(p)'
    <3>1. CASE app'[p] = app[p] /\ Says(p, "answer")'
      <4>1. IsAsking(p)'
        BY <1>1, <2>2, <3>1 DEF IsAsking
      <4> QED
        BY <1>4, <3>1, <4>1 DEF PhaseOf
    <3>2. CASE app'[p] = "pristine" /\ Silent(p)'
      <4>1. IsPristine(p)'
        BY <1>1, <2>2, <3>2 DEF IsPristine
      <4> QED
        BY <3>2, <4>1 DEF PhaseOf
    <3> QED
      BY <2>3, <2>4, <3>1, <3>2
  <2> QED
    BY <1>1, <1>4, <1>n, <2>5, OnePeerMoves
<1>5. CASE app[p] = "opening"
  <2>1. IsOpening(p)
    BY <1>2, <1>5 DEF PhaseOf
  <2>a. Understands(p, "answer") = "open"
        /\ Understands(p, "refusal") = IF kind[p] = "monitor" THEN "refused" ELSE "pristine"
    BY <1>5 DEF Understands
  <2>2. CASE main[p] \in Within \cup Past /\ AnswerStream(p) /\ inp[p] = <<>>
    <3>l. left[p].main = <<>>
      BY <2>1 DEF IsOpening
    <3>1. \/ AnswerStream(p)' /\ app'[p] = app[p]
          \/ DataStream(p)' /\ app'[p] = "open"
      BY <1>1, <1>t, <2>2, <2>a, ReadAnswer
    <3>2. CASE AnswerStream(p)' /\ app'[p] = app[p]
      <4>1. IsOpening(p)'
        BY <1>1, <2>2, <3>2, <3>l DEF IsOpening
      <4> QED
        BY <1>1, <1>5, <1>n, <3>2, <4>1, OnePeerMoves DEF PhaseOf
    <3>3. CASE DataStream(p)' /\ app'[p] = "open"
      <4>1. OnlyData(inp[p])'
        BY <1>1, <2>2 DEF OnlyData
      <4>2. IsOpen(p)'
        BY <1>1, <2>2, <3>3, <3>l, <4>1 DEF IsOpen
      <4> QED
        BY <1>1, <1>5, <1>n, <3>3, <4>2, OnePeerMoves DEF PhaseOf
    <3> QED
      BY <3>1, <3>2, <3>3
  <2>3. CASE ~(main[p] \in Within \cup Past /\ AnswerStream(p) /\ inp[p] = <<>>)
    <3>1. /\ Says(p, "refusal") /\ inp[p] = <<>> /\ left[p].main = <<>>
          /\ \/ main[p] \in Away
             \/ main[p] \in Within /\ fwd[p] \in {"refused", "done"} /\ p \notin reg /\ kind[p] = "monitor"
      BY <1>1, <2>1, <2>3 DEF IsOpening, Silent
    <3>2. \/ app'[p] = app[p] /\ Says(p, "refusal")'
          \/ app'[p] = Understands(p, "refusal") /\ Silent(p)'
      BY <1>1, <1>w, <3>1, ReadSaid
    <3>3. CASE app'[p] = app[p] /\ Says(p, "refusal")'
      <4>1. IsOpening(p)'
        BY <1>1, <3>1, <3>3 DEF IsOpening
      <4> QED
        BY <1>1, <1>5, <1>n, <3>3, <4>1, OnePeerMoves DEF PhaseOf
    <3>4. CASE app'[p] = Understands(p, "refusal") /\ Silent(p)' /\ main[p] \in Away
      <4>1. app'[p] = "pristine"
        BY <1>2, <2>a, <3>4 DEF Serves, Away, Within
      <4>2. IsPristine(p)'
        BY <1>1, <3>1, <3>4 DEF IsPristine
      <4> QED
        BY <1>1, <1>5, <1>n, <4>1, <4>2, OnePeerMoves DEF PhaseOf
    <3>5. CASE /\ app'[p] = Understands(p, "refusal") /\ Silent(p)'
               /\ main[p] \in Within /\ fwd[p] \in {"refused", "done"} /\ p \notin reg /\ kind[p] = "monitor"
      <4>1. app'[p] = "refused"
        BY <2>a, <3>5
      <4>2. IsRefused(p)'
        BY <1>1, <3>1, <3>5 DEF IsRefused
      <4> QED
        BY <1>1, <1>5, <1>n, <4>1, <4>2, OnePeerMoves DEF PhaseOf
    <3> QED
      BY <3>1, <3>2, <3>3, <3>4, <3>5
  <2> QED
    BY <2>2, <2>3
<1>6. CASE app[p] = "open"
  <2>1. IsOpen(p)
    BY <1>2, <1>6 DEF PhaseOf
  <2>2. Understands(p, "data") = "open"
    BY <1>6 DEF Understands
  <2>3. DataStream(p)' /\ app'[p] = "open"
    BY <1>1, <1>t, <1>6, <2>1, <2>2, ReadData DEF IsOpen
  <2>4. IsOpen(p)'
    BY <1>1, <2>1, <2>3 DEF IsOpen, OnlyData
  <2> QED
    BY <1>1, <1>6, <1>n, <2>3, <2>4, OnePeerMoves DEF PhaseOf
<1>7. CASE app[p] = "resetting"
  <2>1. IsResetting(p)
    BY <1>2, <1>7 DEF PhaseOf
  <2>2. Understands(p, "data") = "broken" /\ Understands(p, "reset") = "pristine"
    BY <1>7 DEF Understands
  <2>3. CASE left[p].main = <<>> /\ DataStream(p) /\ Leaves(p)
    <3>1. DataStream(p)' /\ app'[p] \in {"resetting", "broken"}
      BY <1>1, <1>t, <1>7, <2>2, <2>3, ReadData
    <3>2. app'[p] = "resetting" => IsResetting(p)' /\ Serves(p)'
      <4>1. Leaves(p)'
        BY <1>1, <2>3 DEF Leaves, Silent, ThenReset
      <4> QED
        BY <1>1, <1>s, <2>3, <3>1, <4>1 DEF IsResetting
    <3> QED
      BY <1>1, <3>1, <3>2, OnePeerMoves DEF PhaseOf, Live
  <2>4. CASE main[p] \in Away /\ inp[p] = <<>> /\ ResetStream(p)
    <3>1. \/ ResetStream(p)' /\ app'[p] = app[p]
          \/ app'[p] = "broken"
          \/ app'[p] = "pristine" /\ Silent(p)' /\ left[p].main = <<>>
      BY <1>1, <1>t, <2>2, <2>4, ReadReset
    <3>s. Serves(p)'
      BY <1>s, <2>4 DEF Away
    <3>2. CASE ResetStream(p)' /\ app'[p] = app[p]
      <4>1. IsResetting(p)'
        BY <1>1, <2>4, <3>2 DEF IsResetting
      <4> QED
        BY <1>1, <1>7, <3>2, <3>s, <4>1, OnePeerMoves DEF PhaseOf
    <3>3. CASE app'[p] = "broken"
      BY <1>1, <3>3, OnePeerMoves DEF Live
    <3>4. CASE app'[p] = "pristine" /\ Silent(p)' /\ left[p].main = <<>>
      <4>1. IsPristine(p)'
        BY <1>1, <2>4, <3>4 DEF IsPristine
      <4> QED
        BY <1>1, <3>4, <3>s, <4>1, OnePeerMoves DEF PhaseOf
    <3> QED
      BY <3>1, <3>2, <3>3, <3>4
  <2> QED
    BY <2>1, <2>3, <2>4 DEF IsResetting
<1> QED
  BY <1>2, <1>3, <1>4, <1>5, <1>6, <1>7 DEF PhaseOf

----------------------------------------------------------------------------
LEMMA ClStarts ==
  ASSUME ClientsInit
  PROVE  ClInv
<1>1. ClTyped
  <2>1. \A p \in Peer : sock[p] = <<>> /\ Len(sock[p]) = 0
    BY DEF ClientsInit
  <2>2. sock \in [Peer -> Seq(Piece)] /\ \A p \in Peer : Len(sock[p]) <= Room
    <3>1. 0 <= Room
      BY ClientsAssumption
    <3> QED
      BY <2>1, <3>1 DEF ClientsInit
  <2>3. inp \in [Peer -> Seq(Request \cup {"data", "reset", "eof"})]
    BY DEF ClientsInit
  <2>4. left \in [Peer -> [main : Seq(Piece), fwd : Seq(Piece)]]
    BY DEF ClientsInit
  <2> QED
    BY <2>2, <2>3, <2>4 DEF ClientsInit, ClTyped
<1>2. ASSUME NEW p \in Peer PROVE Serves(p) /\ PhaseOf(p)
  <2>1. /\ main[p] = "off" /\ kind[p] = "none" /\ fwd[p] = "none" /\ p \notin reg
        /\ left[p].main = <<>> /\ left[p].fwd = <<>> /\ sock[p] = <<>> /\ half[p] = "none"
        /\ app[p] = "off" /\ inp[p] = <<>>
    BY DEF ClientsInit
  <2>2. Serves(p)
    BY <2>1 DEF Serves, Within
  <2>3. IsOff(p)
    BY <2>1 DEF IsOff, Silent
  <2> QED
    BY <2>1, <2>2, <2>3 DEF PhaseOf
<1> QED
  BY <1>1, <1>2 DEF ClInv

LEMMA ClSteps ==
  ASSUME ClInv, [ClientsNext]_clvars
  PROVE  ClInv'
<1>1. CASE UNCHANGED clvars
  <2>1. UNCHANGED <<main, then, kind, fwd, fstop, left, waiting, reg, stopped, inp, sock, app, half, sent>>
    BY <1>1 DEF clvars, daemon, program
  <2>2. ClTyped'
    BY <2>1 DEF ClInv, ClTyped
  <2>3. \A q \in Peer : Same(q)
    BY <2>1 DEF Same, Whole
  <2> QED
    BY <2>2, <2>3, AllStay
<1>2. ASSUME NEW p \in Peer, MainStep(p) PROVE ClInv'
  BY <1>2, SayOnKeeps, ServeKeeps, EndClientKeeps, PassOnKeeps, CloseKeeps, JoinKeeps DEF MainStep
<1>3. ASSUME NEW p \in Peer, ForwarderStep(p) PROVE ClInv'
  BY <1>3, RegisterKeeps, TakeFrameKeeps, ForwardOnKeeps, EndForwarderKeeps DEF ForwarderStep
<1>4. ASSUME NEW p \in Peer, ProgramStep(p) PROVE ClInv'
  BY <1>4, ConnectKeeps, AskKeeps, SendDataKeeps, ResetKeeps, HangupKeeps, ReadPieceKeeps DEF ProgramStep
<1>5. ASSUME NEW p \in Peer, Accept(p) \/ BusFrame(p) PROVE ClInv'
  BY <1>5, AcceptKeeps, ServerKeeps
<1>6. CASE StopServer \/ ServerStep
  BY <1>6, ServerKeeps DEF ServerStep
<1> QED
  BY <1>1, <1>2, <1>3, <1>4, <1>5, <1>6 DEF ClientsNext

LEMMA InStepNow ==
  ASSUME ClInv
  PROVE  InStep
<1> SUFFICES ASSUME NEW p \in Peer
             PROVE  /\ app[p] # "confused"
                    /\ app[p] = "pristine" => sock[p] = <<>> /\ p \notin reg
  BY DEF InStep
<1>1. CASE ~Live(p)
  BY <1>1 DEF Live
<1>2. CASE Live(p)
  <2>1. Serves(p) /\ PhaseOf(p)
    BY <1>2 DEF ClInv
  <2>2. app[p] # "confused"
    BY <2>1 DEF PhaseOf
  <2>3. app[p] = "pristine" => sock[p] = <<>> /\ p \notin reg
    BY <2>1 DEF PhaseOf, IsPristine, Serves, Silent, Away, Within
  <2> QED
    BY <2>2, <2>3
<1> QED
  BY <1>1, <1>2

(* InStep: program and daemon agree where they are, whatever the socket    *)
(* cuts and whenever a program resets (ClientConnection::sendmessage, Run; *)
(* the forwarders of connection.cpp and busmonitor.cpp).                   *)
THEOREM ClientsInStep == ClientsSpec => []InStep
<1>1. ClientsInit => ClInv
  BY ClStarts
<1>2. ClInv /\ [ClientsNext]_clvars => ClInv'
  BY ClSteps
<1>3. ClInv => InStep
  BY InStepNow
<1> QED
  BY <1>1, <1>2, <1>3, PTL DEF ClientsSpec

----------------------------------------------------------------------------
(* Endpoints of connectionless clients.                                    *)

FrameSet ==
  [toGroup : BOOLEAN, src : Nat, dest : Nat, type : {"data", "control"}, no : Nat]

(* What stands in line for the client of an endpoint: what it has got, what *)
(* is queued for it and what comes; every number is below the next one.     *)
InLine(r, q, a, n) ==
  /\ \A i, j \in DOMAIN r : i < j => r[i][1] < r[j][1]
  /\ \A i, j \in DOMAIN q : i < j => q[i].no < q[j].no
  /\ \A i, j \in DOMAIN a : i < j => a[i].no < a[j].no
  /\ \A i \in DOMAIN r, j \in DOMAIN q : r[i][1] < q[j].no
  /\ \A i \in DOMAIN r, j \in DOMAIN a : r[i][1] < a[j].no
  /\ \A i \in DOMAIN q, j \in DOMAIN a : q[i].no < a[j].no
  /\ \A i \in DOMAIN r : r[i][1] < n
  /\ \A i \in DOMAIN q : q[i].no < n
  /\ \A i \in DOMAIN a : a[i].no < n

LEMMA LineSends ==
  ASSUME NEW r \in Seq(Seq(Nat)), NEW q \in Seq(FrameSet), NEW a \in Seq(FrameSet), NEW n \in Nat,
         NEW g \in FrameSet, g.no = n, InLine(r, q, a, n),
         \A i \in DOMAIN r : r[i][1] \in Nat
  PROVE  InLine(r, q, Append(a, g), n + 1)
<1>1. Append(a, g) \in Seq(FrameSet) /\ DOMAIN Append(a, g) = DOMAIN a \cup {Len(a) + 1}
  OBVIOUS
<1>2. \A i \in DOMAIN a : Append(a, g)[i] = a[i] /\ i < Len(a) + 1 /\ i \in Nat
  OBVIOUS
<1>3. Append(a, g)[Len(a) + 1] = g
  OBVIOUS
<1>4. \A i \in DOMAIN q : q[i].no \in Nat
  <2>1. \A i \in DOMAIN q : q[i] \in FrameSet
    OBVIOUS
  <2> QED
    BY <2>1 DEF FrameSet
<1>5. \A i \in DOMAIN a : a[i].no \in Nat
  <2>1. \A i \in DOMAIN a : a[i] \in FrameSet
    OBVIOUS
  <2> QED
    BY <2>1 DEF FrameSet
<1> DEFINE b == Append(a, g)
           k == Len(a) + 1
<1>6. k \in Nat
  OBVIOUS
<1> HIDE DEF b, k
<1>7. \A i \in DOMAIN b : (i = k /\ b[i].no = n) \/ (i \in DOMAIN a /\ b[i].no = a[i].no /\ i < k /\ i \in Nat)
  BY <1>1, <1>2, <1>3 DEF b, k
<1>8. InLine(r, q, b, n + 1)
  <2>1. \A i, j \in DOMAIN r : i < j => r[i][1] < r[j][1]
    BY <1>4, <1>5, <1>6, <1>7 DEF InLine
  <2>2. \A i, j \in DOMAIN q : i < j => q[i].no < q[j].no
    BY <1>4, <1>5, <1>6, <1>7 DEF InLine
  <2>3. \A i, j \in DOMAIN b : i < j => b[i].no < b[j].no
    BY <1>4, <1>5, <1>6, <1>7 DEF InLine
  <2>4. \A i \in DOMAIN r, j \in DOMAIN q : r[i][1] < q[j].no
    BY <1>4, <1>5, <1>6, <1>7 DEF InLine
  <2>5. \A i \in DOMAIN r, j \in DOMAIN b : r[i][1] < b[j].no
    BY <1>4, <1>5, <1>6, <1>7 DEF InLine
  <2>6. \A i \in DOMAIN q, j \in DOMAIN b : q[i].no < b[j].no
    BY <1>4, <1>5, <1>6, <1>7 DEF InLine
  <2>7. \A i \in DOMAIN r : r[i][1] < n + 1
    BY <1>4, <1>5, <1>6, <1>7 DEF InLine
  <2>8. \A i \in DOMAIN q : q[i].no < n + 1
    BY <1>4, <1>5, <1>6, <1>7 DEF InLine
  <2>9. \A i \in DOMAIN b : b[i].no < n + 1
    BY <1>4, <1>5, <1>6, <1>7 DEF InLine
  <2> QED
    BY <2>1, <2>2, <2>3, <2>4, <2>5, <2>6, <2>7, <2>8, <2>9 DEF InLine
<1> QED
  BY <1>8 DEF b

LEMMA LineTakes ==
  ASSUME NEW r \in Seq(Seq(Nat)), NEW q \in Seq(FrameSet), NEW a \in Seq(FrameSet), NEW n \in Nat,
         a # <<>>, InLine(r, q, a, n), \A i \in DOMAIN r : r[i][1] \in Nat
  PROVE  /\ InLine(r, q, Tail(a), n)
         /\ InLine(r, Append(q, Head(a)), Tail(a), n)
<1> DEFINE b == Tail(a)
           p == Append(q, Head(a))
           k == Len(q) + 1
<1>1. \A i \in DOMAIN b : i + 1 \in DOMAIN a /\ b[i] = a[i + 1] /\ i \in Nat /\ 1 < i + 1
  OBVIOUS
<1>2. 1 \in DOMAIN a /\ Head(a) = a[1] /\ a[1] \in FrameSet
  OBVIOUS
<1>3. \A i \in DOMAIN p : (i = k /\ p[i] = a[1]) \/ (i \in DOMAIN q /\ p[i] = q[i] /\ i < k /\ i \in Nat)
  BY <1>2
<1>4. \A i \in DOMAIN q : q[i].no \in Nat
  <2>1. \A i \in DOMAIN q : q[i] \in FrameSet
    OBVIOUS
  <2> QED
    BY <2>1 DEF FrameSet
<1>5. \A i \in DOMAIN a : a[i].no \in Nat
  <2>1. \A i \in DOMAIN a : a[i] \in FrameSet
    OBVIOUS
  <2> QED
    BY <2>1 DEF FrameSet
<1>6. k \in Nat
  OBVIOUS
<1> HIDE DEF b, p, k
<1>7. InLine(r, q, b, n)
  <2>1. \A i, j \in DOMAIN r : i < j => r[i][1] < r[j][1]
    BY <1>1, <1>4, <1>5 DEF InLine
  <2>2. \A i, j \in DOMAIN q : i < j => q[i].no < q[j].no
    BY <1>1, <1>4, <1>5 DEF InLine
  <2>3. \A i, j \in DOMAIN b : i < j => b[i].no < b[j].no
    <3> SUFFICES ASSUME NEW i \in DOMAIN b, NEW j \in DOMAIN b, i < j PROVE b[i].no < b[j].no
      OBVIOUS
    <3>1. i + 1 \in DOMAIN a /\ j + 1 \in DOMAIN a /\ i + 1 < j + 1
      BY <1>1
    <3> QED
      BY <1>1, <3>1 DEF InLine
  <2>4. \A i \in DOMAIN r, j \in DOMAIN q : r[i][1] < q[j].no
    BY <1>1, <1>4, <1>5 DEF InLine
  <2>5. \A i \in DOMAIN r, j \in DOMAIN b : r[i][1] < b[j].no
    BY <1>1, <1>4, <1>5 DEF InLine
  <2>6. \A i \in DOMAIN q, j \in DOMAIN b : q[i].no < b[j].no
    BY <1>1, <1>4, <1>5 DEF InLine
  <2>7. \A i \in DOMAIN r : r[i][1] < n
    BY <1>1, <1>4, <1>5 DEF InLine
  <2>8. \A i \in DOMAIN q : q[i].no < n
    BY <1>1, <1>4, <1>5 DEF InLine
  <2>9. \A i \in DOMAIN b : b[i].no < n
    BY <1>1, <1>4, <1>5 DEF InLine
  <2> QED
    BY <2>1, <2>2, <2>3, <2>4, <2>5, <2>6, <2>7, <2>8, <2>9 DEF InLine
<1>8. InLine(r, p, b, n)
  <2>1. \A i, j \in DOMAIN r : i < j => r[i][1] < r[j][1]
    BY <1>1, <1>2, <1>3, <1>4, <1>5, <1>6 DEF InLine
  <2>2. \A i, j \in DOMAIN p : i < j => p[i].no < p[j].no
    BY <1>1, <1>2, <1>3, <1>4, <1>5, <1>6 DEF InLine
  <2>3. \A i, j \in DOMAIN b : i < j => b[i].no < b[j].no
    BY <1>1, <1>2, <1>3, <1>4, <1>5, <1>6 DEF InLine
  <2>4. \A i \in DOMAIN r, j \in DOMAIN p : r[i][1] < p[j].no
    BY <1>1, <1>2, <1>3, <1>4, <1>5, <1>6 DEF InLine
  <2>5. \A i \in DOMAIN r, j \in DOMAIN b : r[i][1] < b[j].no
    BY <1>1, <1>2, <1>3, <1>4, <1>5, <1>6 DEF InLine
  <2>6. \A i \in DOMAIN p, j \in DOMAIN b : p[i].no < b[j].no
    BY <1>1, <1>2, <1>3, <1>4, <1>5, <1>6 DEF InLine
  <2>7. \A i \in DOMAIN r : r[i][1] < n
    BY <1>1, <1>2, <1>3, <1>4, <1>5, <1>6 DEF InLine
  <2>8. \A i \in DOMAIN p : p[i].no < n
    BY <1>1, <1>2, <1>3, <1>4, <1>5, <1>6 DEF InLine
  <2>9. \A i \in DOMAIN b : b[i].no < n
    BY <1>1, <1>2, <1>3, <1>4, <1>5, <1>6 DEF InLine
  <2> QED
    BY <2>1, <2>2, <2>3, <2>4, <2>5, <2>6, <2>7, <2>8, <2>9 DEF InLine
<1> QED
  BY <1>7, <1>8 DEF b, p

LEMMA LineGets ==
  ASSUME NEW r \in Seq(Seq(Nat)), NEW q \in Seq(FrameSet), NEW a \in Seq(FrameSet), NEW n \in Nat,
         q # <<>>, InLine(r, q, a, n), \A i \in DOMAIN r : r[i][1] \in Nat,
         NEW x \in Seq(Nat), x[1] = Head(q).no
  PROVE  InLine(Append(r, x), Tail(q), a, n)
<1> DEFINE b == Tail(q)
           p == Append(r, x)
           k == Len(r) + 1
<1>1. \A i \in DOMAIN b : i + 1 \in DOMAIN q /\ b[i] = q[i + 1] /\ i \in Nat /\ 1 < i + 1
  OBVIOUS
<1>2. 1 \in DOMAIN q /\ Head(q) = q[1] /\ q[1] \in FrameSet
  OBVIOUS
<1>3. \A i \in DOMAIN p : (i = k /\ p[i] = x) \/ (i \in DOMAIN r /\ p[i] = r[i] /\ i < k /\ i \in Nat)
  BY <1>2
<1>4. \A i \in DOMAIN q : q[i].no \in Nat
  <2>1. \A i \in DOMAIN q : q[i] \in FrameSet
    OBVIOUS
  <2> QED
    BY <2>1 DEF FrameSet
<1>5. \A i \in DOMAIN a : a[i].no \in Nat
  <2>1. \A i \in DOMAIN a : a[i] \in FrameSet
    OBVIOUS
  <2> QED
    BY <2>1 DEF FrameSet
<1>6. k \in Nat
  OBVIOUS
<1> HIDE DEF b, p, k
<1>8. InLine(p, b, a, n)
  <2>1. \A i, j \in DOMAIN p : i < j => p[i][1] < p[j][1]
    <3> SUFFICES ASSUME NEW i \in DOMAIN p, NEW j \in DOMAIN p, i < j PROVE p[i][1] < p[j][1]
      OBVIOUS
    <3>0. j = k \/ (j < k /\ j \in Nat)
      BY <1>3
    <3>9. i # k
      BY <3>0, <1>6
    <3>1. i \in DOMAIN r /\ p[i] = r[i]
      BY <1>3, <3>9
    <3>2. CASE j \in DOMAIN r /\ p[j] = r[j]
      BY <3>1, <3>2 DEF InLine
    <3>3. CASE j = k /\ p[j] = x
      BY <3>1, <3>3, <1>2 DEF InLine
    <3> QED
      BY <1>3, <3>2, <3>3
  <2>2. \A i, j \in DOMAIN b : i < j => b[i].no < b[j].no
    BY <1>1, <1>2, <1>3, <1>4, <1>5, <1>6 DEF InLine
  <2>3. \A i, j \in DOMAIN a : i < j => a[i].no < a[j].no
    BY <1>1, <1>2, <1>3, <1>4, <1>5, <1>6 DEF InLine
  <2>4. \A i \in DOMAIN p, j \in DOMAIN b : p[i][1] < b[j].no
    BY <1>1, <1>2, <1>3, <1>4, <1>5, <1>6 DEF InLine
  <2>5. \A i \in DOMAIN p, j \in DOMAIN a : p[i][1] < a[j].no
    BY <1>1, <1>2, <1>3, <1>4, <1>5, <1>6 DEF InLine
  <2>6. \A i \in DOMAIN b, j \in DOMAIN a : b[i].no < a[j].no
    BY <1>1, <1>2, <1>3, <1>4, <1>5, <1>6 DEF InLine
  <2>7. \A i \in DOMAIN p : p[i][1] < n
    BY <1>1, <1>2, <1>3, <1>4, <1>5, <1>6 DEF InLine
  <2>8. \A i \in DOMAIN b : b[i].no < n
    BY <1>1, <1>2, <1>3, <1>4, <1>5, <1>6 DEF InLine
  <2>9. \A i \in DOMAIN a : a[i].no < n
    BY <1>1, <1>2, <1>3, <1>4, <1>5, <1>6 DEF InLine
  <2> QED
    BY <2>1, <2>2, <2>3, <2>4, <2>5, <2>6, <2>7, <2>8, <2>9 DEF InLine
<1> QED
  BY <1>8 DEF b, p

LEMMA AppendedElements ==
  ASSUME NEW S, NEW s \in Seq(S), NEW x \in S
  PROVE  Elements(Append(s, x)) = Elements(s) \cup {x}
<1>1. DOMAIN Append(s, x) = DOMAIN s \cup {Len(s) + 1}
  OBVIOUS
<1>2. \A i \in DOMAIN s : Append(s, x)[i] = s[i]
  OBVIOUS
<1>3. Append(s, x)[Len(s) + 1] = x
  OBVIOUS
<1> QED
  BY <1>1, <1>2, <1>3, Zenon DEF Elements

LEMMA TakenElements ==
  ASSUME NEW S, NEW s \in Seq(S), s # <<>>
  PROVE  Elements(s) = {Head(s)} \cup Elements(Tail(s))
<1>1. DOMAIN Tail(s) = 1 .. Len(s) - 1 /\ DOMAIN s = 1 .. Len(s) /\ Len(s) \in Nat \ {0}
  OBVIOUS
<1>2. \A i \in DOMAIN Tail(s) : i + 1 \in DOMAIN s /\ Tail(s)[i] = s[i + 1]
  OBVIOUS
<1>3. \A j \in DOMAIN s : j = 1 \/ (j - 1 \in DOMAIN Tail(s) /\ Tail(s)[j - 1] = s[j])
  BY <1>1
<1>4. 1 \in DOMAIN s /\ Head(s) = s[1]
  OBVIOUS
<1> HIDE DEF Elements
<1> DEFINE b == Tail(s)
<1> HIDE DEF b
<1>5. Elements(s) = {s[1]} \cup Elements(b)
  <2>1. \A i \in DOMAIN b : i + 1 \in DOMAIN s /\ b[i] = s[i + 1]
    BY <1>2 DEF b
  <2>2. \A j \in DOMAIN s : j = 1 \/ (j - 1 \in DOMAIN b /\ b[j - 1] = s[j])
    BY <1>3 DEF b
  <2>3. Elements(s) \subseteq {s[1]} \cup Elements(b)
    BY <2>2 DEF Elements
  <2>4. Elements(b) \subseteq Elements(s)
    BY <2>1 DEF Elements
  <2>5. s[1] \in Elements(s)
    BY <1>4 DEF Elements
  <2> QED
    BY <2>3, <2>4, <2>5
<1> QED
  BY <1>4, <1>5 DEF b

----------------------------------------------------------------------------
(* What is due to the client of e: told, queued, or still to come.         *)
Queued(e) == {Told(e, f) : f \in Elements(outqueue[e])}
Coming(e) == {Told(e, f) : f \in {g \in Elements(arriving[e]) : ForIt(e, g)}}
DueTo(e) == {Told(e, f) : f \in {g \in offered[e] : ForIt(e, g)}}
Accounted(e) == Elements(received[e]) \cup Queued(e) \cup Coming(e) = DueTo(e)

CnTyped ==
  /\ frames \in Nat
  /\ outqueue \in [Endpoint -> Seq(FrameSet)] /\ arriving \in [Endpoint -> Seq(FrameSet)]
  /\ received \in [Endpoint -> Seq(Seq(Nat))]
  /\ opened = [e \in Endpoint |-> opened[e]] /\ entry = [e \in Endpoint |-> entry[e]]
  /\ offered = [e \in Endpoint |-> offered[e]]

IsOpened(e, class, at) ==
  /\ opened[e] = [class |-> class, at |-> at]
  /\ entry[e] = NoEntry \/ entry[e] = EntryOf(class, at)
IsClosed(e) ==
  /\ opened[e] = Unopened /\ entry[e] = NoEntry /\ outqueue[e] = <<>> /\ received[e] = <<>>
LineEnds ==
  \A e \in Endpoint :
    \/ IsClosed(e)
    \/ \E class \in Classes : \E at \in AddressesFor(class) : IsOpened(e, class, at)

Lines ==
  \A e \in Endpoint :
    /\ \A i \in DOMAIN received[e] : received[e][i][1] \in Nat
    /\ InLine(received[e], outqueue[e], arriving[e], frames)
    /\ \A f \in Elements(arriving[e]) : f.toGroup => f.type = "data"
    /\ opened[e] # Unopened => Accounted(e)

CnInv == CnTyped /\ LineEnds /\ Lines

LEMMA GroupsNotZero ==
  /\ \A g \in GroupAddress : g \in Nat /\ g # 0
  /\ \A e \in Endpoint : Own[e] \in Nat /\ Own[e] # 0
  /\ Individual \subseteq Nat
BY ConnectionlessAssumption DEF ConnectionlessAssumption, Individual

LEMMA ToldNumbers ==
  ASSUME NEW e \in Endpoint, NEW f \in FrameSet
  PROVE  Told(e, f) \in Seq(Nat) /\ Told(e, f)[1] = f.no /\ f.no \in Nat
<1>1. f.no \in Nat /\ f.src \in Nat /\ f.dest \in Nat
  BY DEF FrameSet
<1>2. Told(e, f) = <<f.no>> \/ Told(e, f) = <<f.no, f.src, f.dest>> \/ Told(e, f) = <<f.no, f.src>>
  BY DEF Told
<1>3. CASE Told(e, f) = <<f.no>>
  BY <1>1, <1>3
<1>4. CASE Told(e, f) = <<f.no, f.src, f.dest>>
  <2>1. <<f.no, f.src, f.dest>> \in Seq(Nat)
    BY <1>1
  <2> QED
    BY <1>1, <1>4, <2>1
<1>5. CASE Told(e, f) = <<f.no, f.src>>
  <2>1. <<f.no, f.src>> \in Seq(Nat)
    BY <1>1
  <2> QED
    BY <1>1, <1>5, <2>1
<1> QED
  BY <1>2, <1>3, <1>4, <1>5

(* Layer3 calls an endpoint with the frames for it, and it queues those.   *)
LEMMA PicksItsOwn ==
  ASSUME LineEnds, NEW e \in Endpoint, NEW f \in FrameSet, f.toGroup => f.type = "data",
         opened[e] # Unopened
  PROVE  (Calls(e, f) /\ Wants(e, f)) <=> ForIt(e, f)
<1>0. PICK class \in Classes : \E at \in AddressesFor(class) : IsOpened(e, class, at)
  BY DEF LineEnds, IsClosed
<1>1. PICK at \in AddressesFor(class) : IsOpened(e, class, at)
  BY <1>0
<1>2. opened[e].class = class /\ opened[e].at = at
  BY <1>1 DEF IsOpened
<1>3. f.toGroup \in BOOLEAN /\ f.src \in Nat /\ f.dest \in Nat
  BY DEF FrameSet
<1>4. CASE entry[e] = NoEntry
  <2>1. ~ForIt(e, f)
    BY <1>4 DEF ForIt
  <2>2. entry[e].list = "none"
    BY <1>4 DEF NoEntry
  <2>3. ~Calls(e, f)
    BY <2>2 DEF Calls
  <2> QED
    BY <2>1, <2>3
<1>5. CASE entry[e] # NoEntry
  <2>1. entry[e] = EntryOf(class, at)
    BY <1>1, <1>5 DEF IsOpened
  <2>a. CASE class = "T_Broadcast"
    <3>1. entry[e].list = "broadcast"
      BY <2>1, <2>a DEF EntryOf
    <3> QED
      BY <1>2, <1>3, <1>5, <2>a, <3>1 DEF Calls, Wants, ForIt
  <2>b. CASE class = "T_Group"
    <3>1. entry[e].list = "group" /\ entry[e].dest = at
      BY <2>1, <2>b DEF EntryOf
    <3>2. at \in Nat /\ at # 0
      BY <2>b, GroupsNotZero DEF AddressesFor
    <3> QED
      BY <1>2, <1>3, <1>5, <2>b, <3>1, <3>2 DEF Calls, Wants, ForIt
  <2>c. CASE class = "GroupSocket"
    <3>1. entry[e].list = "group" /\ entry[e].dest = 0
      BY <2>1, <2>c DEF EntryOf
    <3> QED
      BY <1>2, <1>3, <1>5, <2>c, <3>1 DEF Calls, Wants, ForIt
  <2>d. CASE class = "T_Individual"
    <3>1. entry[e].list = "individual" /\ entry[e].dest = 0 /\ entry[e].src = at
      BY <2>1, <2>d DEF EntryOf
    <3> QED
      BY <1>2, <1>3, <1>5, <2>d, <3>1, GroupsNotZero DEF Calls, Wants, ForIt
  <2>e. CASE class = "T_TPDU"
    <3>1. entry[e].list = "individual" /\ entry[e].dest = at /\ entry[e].src = 0
      BY <2>1, <2>e DEF EntryOf
    <3> QED
      BY <1>2, <1>3, <1>5, <2>e, <3>1, GroupsNotZero DEF Calls, Wants, ForIt
  <2> QED
    BY <2>a, <2>b, <2>c, <2>d, <2>e DEF Classes
<1> QED
  BY <1>4, <1>5

LEMMA SameTold ==
  ASSUME NEW e, opened'[e] = opened[e], entry'[e] = entry[e]
  PROVE  \A f : Told(e, f)' = Told(e, f) /\ ForIt(e, f)' = ForIt(e, f)
BY DEF Told, ForIt

(* A place keeps its line when nothing of it changes.                      *)
LEMMA PlaceStays ==
  ASSUME NEW e \in Endpoint, opened'[e] = opened[e], entry'[e] = entry[e],
         outqueue'[e] = outqueue[e], received'[e] = received[e],
         arriving'[e] = arriving[e], offered'[e] = offered[e]
  PROVE  Accounted(e)' <=> Accounted(e)
BY DEF Accounted, Queued, Coming, DueTo, Told, ForIt

LEMMA OpenKeepsLines ==
  ASSUME CnInv, NEW e \in Endpoint, OpenEndpoint(e)
  PROVE  CnInv'
<1>u. UNCHANGED <<arriving, outqueue, received, frames>>
  BY DEF OpenEndpoint
<1>0. PICK class \in Classes : \E write_only \in BOOLEAN : \E at \in AddressesFor(class) :
        /\ opened' = [opened EXCEPT ![e] = [class |-> class, at |-> at]]
        /\ entry' = [entry EXCEPT ![e] = IF write_only THEN NoEntry ELSE EntryOf(class, at)]
  BY DEF OpenEndpoint
<1>1. PICK at \in AddressesFor(class) :
        /\ opened' = [opened EXCEPT ![e] = [class |-> class, at |-> at]]
        /\ \/ entry' = [entry EXCEPT ![e] = NoEntry]
           \/ entry' = [entry EXCEPT ![e] = EntryOf(class, at)]
  BY <1>0
<1>2. offered' = [offered EXCEPT ![e] = Elements(arriving[e])]
  BY DEF OpenEndpoint
<1>3. CnTyped'
  BY <1>u, <1>1, <1>2 DEF CnInv, CnTyped
<1>e. opened'[e] = [class |-> class, at |-> at] /\ (entry'[e] = NoEntry \/ entry'[e] = EntryOf(class, at))
  BY <1>1 DEF CnInv, CnTyped
<1>o. \A d \in Endpoint : d # e => opened'[d] = opened[d] /\ entry'[d] = entry[d] /\ offered'[d] = offered[d]
  BY <1>1, <1>2 DEF CnInv, CnTyped
<1>4. LineEnds'
  BY <1>u, <1>e, <1>o DEF CnInv, LineEnds, IsOpened, IsClosed
<1>5. IsClosed(e)
  <2>1. opened[e].class = "none"
    BY DEF OpenEndpoint, Unopened
  <2>2. \A c \in Classes : c # "none"
    BY DEF Classes
  <2>3. \A c \in Classes : \A a \in AddressesFor(c) : ~IsOpened(e, c, a)
    BY <2>1, <2>2 DEF IsOpened
  <2> QED
    BY <2>3 DEF CnInv, LineEnds
<1>6. Accounted(e)'
  <2>1. Elements(received[e]) = {} /\ Elements(outqueue[e]) = {}
    BY <1>5 DEF IsClosed, Elements
  <2>2. offered'[e] = Elements(arriving'[e])
    BY <1>2, <1>u DEF CnInv, CnTyped
  <2>3. Coming(e)' = DueTo(e)'
    BY <2>2 DEF Coming, DueTo
  <2>4. Elements(received[e])' = {} /\ Queued(e)' = {}
    BY <2>1, <1>u DEF Queued
  <2> QED
    BY <2>3, <2>4 DEF Accounted
<1>7. Lines'
  BY <1>u, <1>o, <1>6, PlaceStays DEF CnInv, Lines
<1> QED
  BY <1>3, <1>4, <1>7 DEF CnInv

LEMMA CloseKeepsLines ==
  ASSUME CnInv, NEW e \in Endpoint, CloseEndpoint(e)
  PROVE  CnInv'
<1>1. CnTyped'
  <2>1. <<>> \in Seq(FrameSet) /\ <<>> \in Seq(Seq(Nat))
    OBVIOUS
  <2>2. outqueue' \in [Endpoint -> Seq(FrameSet)] /\ received' \in [Endpoint -> Seq(Seq(Nat))]
    BY <2>1, Zenon DEF CloseEndpoint, CnInv, CnTyped
  <2>3. opened' = [d \in Endpoint |-> opened'[d]] /\ entry' = [d \in Endpoint |-> entry'[d]]
    BY DEF CloseEndpoint, CnInv, CnTyped
  <2>4. offered' = [d \in Endpoint |-> offered'[d]]
    BY DEF CloseEndpoint, CnInv, CnTyped
  <2>5. arriving' = arriving /\ frames' = frames
    BY DEF CloseEndpoint
  <2> QED
    BY <2>2, <2>3, <2>4, <2>5 DEF CnInv, CnTyped
<1>2. \A d \in Endpoint : d # e =>
        /\ opened'[d] = opened[d] /\ entry'[d] = entry[d] /\ offered'[d] = offered[d]
        /\ outqueue'[d] = outqueue[d] /\ received'[d] = received[d]
  BY DEF CloseEndpoint, CnInv, CnTyped
<1>3. arriving' = arriving /\ frames' = frames
  BY DEF CloseEndpoint
<1>4. opened'[e] = Unopened /\ entry'[e] = NoEntry /\ outqueue'[e] = <<>> /\ received'[e] = <<>>
  BY DEF CloseEndpoint, CnInv, CnTyped
<1>5. LineEnds'
  BY <1>2, <1>4 DEF CnInv, LineEnds, IsOpened, IsClosed
<1>6. InLine(<<>>, <<>>, arriving[e], frames)
  BY DEF CnInv, Lines, InLine
<1>7. Lines'
  BY <1>2, <1>3, <1>4, <1>6, PlaceStays DEF CnInv, Lines
<1> QED
  BY <1>1, <1>5, <1>7 DEF CnInv

TpduFrames(at) == {FrameOf(FALSE, at, d, t) : d \in Individual, t \in {"data", "control"}}

LEMMA SentSets ==
  ASSUME NEW e
  PROVE  /\ opened[e].class = "T_Broadcast" => Sendable(e) = {FrameOf(TRUE, 0, 0, "data")}
         /\ opened[e].class = "T_Group" => Sendable(e) = {FrameOf(TRUE, 0, opened[e].at, "data")}
         /\ opened[e].class = "GroupSocket" =>
              Sendable(e) = {FrameOf(TRUE, 0, g, "data") : g \in GroupAddress \cup {0}}
         /\ opened[e].class = "T_Individual" => Sendable(e) = {FrameOf(FALSE, 0, opened[e].at, "data")}
         /\ opened[e].class = "T_TPDU" =>
              Sendable(e) = TpduFrames(opened[e].at)
<1>1. opened[e].class = "T_Broadcast" => Sendable(e) = {FrameOf(TRUE, 0, 0, "data")}
  BY DEF Sendable
<1>2. opened[e].class = "T_Group" => Sendable(e) = {FrameOf(TRUE, 0, opened[e].at, "data")}
  BY DEF Sendable
<1>3. opened[e].class = "GroupSocket" =>
        Sendable(e) = {FrameOf(TRUE, 0, g, "data") : g \in GroupAddress \cup {0}}
  BY DEF Sendable
<1>4. opened[e].class = "T_Individual" => Sendable(e) = {FrameOf(FALSE, 0, opened[e].at, "data")}
  BY DEF Sendable
<1>5. opened[e].class = "T_TPDU" =>
        Sendable(e) = TpduFrames(opened[e].at)
  BY DEF Sendable, TpduFrames
<1> QED
  BY <1>1, <1>2, <1>3, <1>4, <1>5, Zenon

LEMMA SentFrames ==
  ASSUME CnInv, NEW e \in Endpoint, NEW f \in Sendable(e)
  PROVE  LET g == [f EXCEPT !.src = SourceOf(e, f)]
         IN g \in FrameSet /\ g.no = frames /\ (g.toGroup => g.type = "data")
<1> DEFINE g == [f EXCEPT !.src = SourceOf(e, f)]
<1>1. PICK group \in BOOLEAN, src \in Nat, dest \in Nat, type \in {"data", "control"} :
        f = FrameOf(group, src, dest, type) /\ (group => type = "data")
  <2>0. opened[e] # Unopened
    <3>1. SUFFICES ASSUME opened[e] = Unopened PROVE FALSE
      OBVIOUS
    <3>2. opened[e].class = "none"
      BY <3>1 DEF Unopened
    <3> QED
      BY <3>2 DEF Sendable
  <2>1. PICK class \in Classes : \E at \in AddressesFor(class) : IsOpened(e, class, at)
    BY <2>0 DEF CnInv, LineEnds, IsClosed
  <2>2. PICK at \in AddressesFor(class) : opened[e] = [class |-> class, at |-> at]
    BY <2>1 DEF IsOpened
  <2>3. opened[e].class = class /\ opened[e].at = at
    BY <2>2
  <2>4. at \in Nat
    BY GroupsNotZero DEF AddressesFor, Classes
  <2>a. CASE class = "T_Broadcast"
    <3>1. f \in {FrameOf(TRUE, 0, 0, "data")}
      BY <2>3, <2>a, SentSets, Zenon
    <3> QED
      BY <3>1
  <2>g. CASE class = "T_Group"
    <3>1. f \in {FrameOf(TRUE, 0, at, "data")}
      BY <2>3, <2>g, SentSets, Zenon
    <3> QED
      BY <3>1, <2>4
  <2>i. CASE class = "T_Individual"
    <3>1. f \in {FrameOf(FALSE, 0, at, "data")}
      BY <2>3, <2>i, SentSets, Zenon
    <3> QED
      BY <3>1, <2>4
  <2>b. CASE class = "GroupSocket"
    <3>1. f \in {FrameOf(TRUE, 0, d, "data") : d \in GroupAddress \cup {0}}
      BY <2>3, <2>b, SentSets, Zenon
    <3>2. PICK d \in GroupAddress \cup {0} : f = FrameOf(TRUE, 0, d, "data")
      BY <3>1
    <3> QED
      BY <3>2, GroupsNotZero
  <2>c. CASE class = "T_TPDU"
    <3>1. f \in TpduFrames(at)
      BY <2>3, <2>c, SentSets, Zenon
    <3>2. PICK d \in Individual, t \in {"data", "control"} : f = FrameOf(FALSE, at, d, t)
      BY <3>1 DEF TpduFrames, FrameOf
    <3> QED
      BY <3>2, <2>4, GroupsNotZero
  <2> QED
    BY <2>a, <2>g, <2>i, <2>b, <2>c DEF Classes
<1>2. SourceOf(e, f) \in Nat
  BY <1>1, GroupsNotZero DEF SourceOf, FrameOf
<1>3. g = [toGroup |-> group, src |-> SourceOf(e, f), dest |-> dest, type |-> type, no |-> frames]
  BY <1>1 DEF FrameOf
<1>4. frames \in Nat
  BY DEF CnInv, CnTyped
<1> QED
  BY <1>1, <1>2, <1>3, <1>4 DEF FrameSet

LEMMA SendKeepsLines ==
  ASSUME CnInv, NEW e \in Endpoint, SendFrom(e)
  PROVE  CnInv'
<1>0. PICK f \in Sendable(e) :
        LET g == [f EXCEPT !.src = SourceOf(e, f)]
        IN /\ arriving' = [d \in Endpoint |-> Append(arriving[d], g)]
           /\ offered' = [d \in Endpoint |->
                            IF opened[d] = Unopened THEN {} ELSE offered[d] \cup {g}]
  BY DEF SendFrom
<1> DEFINE g == [f EXCEPT !.src = SourceOf(e, f)]
<1>g. g \in FrameSet /\ g.no = frames /\ (g.toGroup => g.type = "data")
  BY SentFrames
<1> HIDE DEF g
<1>1. /\ arriving' = [d \in Endpoint |-> Append(arriving[d], g)]
      /\ offered' = [d \in Endpoint |-> IF opened[d] = Unopened THEN {} ELSE offered[d] \cup {g}]
  BY <1>0 DEF g
<1>u. UNCHANGED <<opened, entry, outqueue, received>> /\ frames' = frames + 1
  BY DEF SendFrom
<1>t. \A d \in Endpoint : arriving[d] \in Seq(FrameSet) /\ Append(arriving[d], g) \in Seq(FrameSet)
  <2> QED
    BY <1>g DEF CnInv, CnTyped
<1>2. CnTyped'
  <2>1. arriving' \in [Endpoint -> Seq(FrameSet)]
    <3> QED
      BY <1>1, <1>t, Zenon
  <2>2. offered' = [d \in Endpoint |-> offered'[d]]
    BY <1>1
  <2>3. frames' \in Nat
    BY <1>u DEF CnInv, CnTyped
  <2> QED
    BY <1>u, <2>1, <2>2, <2>3 DEF CnInv, CnTyped
<1>3. LineEnds'
  BY <1>u DEF CnInv, LineEnds, IsOpened, IsClosed
<1>4. ASSUME NEW d \in Endpoint
      PROVE /\ InLine(received[d], outqueue[d], arriving[d], frames)'
            /\ \A h \in Elements(arriving[d])' : h.toGroup => h.type = "data"
            /\ opened'[d] # Unopened => Accounted(d)'
  <2>1. arriving'[d] = Append(arriving[d], g)
    BY <1>1
  <2>2. Elements(arriving'[d]) = Elements(arriving[d]) \cup {g}
    BY <2>1, <1>t, <1>g, AppendedElements
  <2>3. InLine(received[d], outqueue[d], Append(arriving[d], g), frames + 1)
    <3>1. /\ received[d] \in Seq(Seq(Nat)) /\ outqueue[d] \in Seq(FrameSet) /\ frames \in Nat
          /\ InLine(received[d], outqueue[d], arriving[d], frames)
          /\ \A i \in DOMAIN received[d] : received[d][i][1] \in Nat
      BY DEF CnInv, CnTyped, Lines
    <3> QED
      BY <3>1, <1>t, <1>g, LineSends
  <2>4. ASSUME opened'[d] # Unopened PROVE Accounted(d)'
    <3>1. Accounted(d)
      BY <2>4, <1>u DEF CnInv, Lines
    <3>2. offered'[d] = offered[d] \cup {g}
      BY <1>1, <1>u, <2>4
    <3>3. \A h : Told(d, h)' = Told(d, h) /\ ForIt(d, h)' = ForIt(d, h)
      BY <1>u, SameTold
    <3>4. Queued(d)' = Queued(d) /\ Elements(received[d])' = Elements(received[d])
      BY <1>u, <3>3 DEF Queued
    <3>5. Coming(d)' = {Told(d, h) : h \in {k \in Elements(arriving[d]) \cup {g} : ForIt(d, k)}}
      BY <2>2, <3>3 DEF Coming
    <3>6. DueTo(d)' = {Told(d, h) : h \in {k \in offered[d] \cup {g} : ForIt(d, k)}}
      BY <3>2, <3>3 DEF DueTo
    <3>7. CASE ForIt(d, g)
      <4>1. Coming(d)' = Coming(d) \cup {Told(d, g)}
        BY <3>5, <3>7 DEF Coming
      <4>2. DueTo(d)' = DueTo(d) \cup {Told(d, g)}
        BY <3>6, <3>7 DEF DueTo
      <4> QED
        BY <3>1, <3>4, <4>1, <4>2 DEF Accounted
    <3>8. CASE ~ForIt(d, g)
      <4>1. Coming(d)' = Coming(d)
        BY <3>5, <3>8 DEF Coming
      <4>2. DueTo(d)' = DueTo(d)
        BY <3>6, <3>8 DEF DueTo
      <4> QED
        BY <3>1, <3>4, <4>1, <4>2 DEF Accounted
    <3> QED
      BY <3>7, <3>8
  <2>5. \A h \in Elements(arriving[d])' : h.toGroup => h.type = "data"
    BY <2>2, <1>g DEF CnInv, Lines
  <2> QED
    BY <2>1, <2>3, <2>4, <2>5, <1>u
<1>5. Lines'
  BY <1>4, <1>u DEF CnInv, Lines
<1> QED
  BY <1>2, <1>3, <1>5 DEF CnInv

LEMMA LayerKeepsLines ==
  ASSUME CnInv, NEW e \in Endpoint, Get_L_Data(e)
  PROVE  CnInv'
<1> DEFINE f == Head(arriving[e])
<1>u. UNCHANGED <<opened, entry, received, offered, frames>>
  BY DEF Get_L_Data
<1>1. /\ arriving' = [d \in Endpoint |-> IF d \in Daemon(e) THEN Tail(arriving[d]) ELSE arriving[d]]
      /\ outqueue' = [d \in Endpoint |-> IF d \in Daemon(e) /\ Calls(d, f) /\ Wants(d, f)
                                         THEN Append(outqueue[d], f) ELSE outqueue[d]]
      /\ arriving[e] # <<>> /\ \A d \in Daemon(e) : arriving[d] = arriving[e]
  BY DEF Get_L_Data
<1>t. \A d \in Endpoint : arriving[d] \in Seq(FrameSet) /\ outqueue[d] \in Seq(FrameSet)
  BY DEF CnInv, CnTyped
<1>f. f \in FrameSet /\ Tail(arriving[e]) \in Seq(FrameSet)
  <2>1. arriving[e] \in Seq(FrameSet) /\ arriving[e] # <<>>
    BY <1>1, <1>t
  <2> QED
    BY <2>1
<1>h. f \in Elements(arriving[e])
  BY <1>1, <1>t, TakenElements
<1>d. f.toGroup => f.type = "data"
  BY <1>h DEF CnInv, Lines
<1> HIDE DEF f
<1>q. \A d \in Endpoint : Append(outqueue[d], f) \in Seq(FrameSet)
  <2> SUFFICES ASSUME NEW d \in Endpoint PROVE Append(outqueue[d], f) \in Seq(FrameSet)
    OBVIOUS
  <2>1. outqueue[d] \in Seq(FrameSet) /\ f \in FrameSet
    BY <1>t, <1>f
  <2> QED
    BY <2>1
<1>2. CnTyped'
  <2>1. arriving' \in [Endpoint -> Seq(FrameSet)]
    <3>1. \A d \in Daemon(e) : Tail(arriving[d]) \in Seq(FrameSet)
      BY <1>1, <1>f, Zenon
    <3> QED
      BY <1>1, <1>t, <3>1, Zenon
  <2>2. outqueue' \in [Endpoint -> Seq(FrameSet)]
    <3> QED
      BY <1>1, <1>t, <1>q, Zenon
  <2> QED
    BY <1>u, <2>1, <2>2 DEF CnInv, CnTyped
<1>3. LineEnds'
  <2>1. ASSUME NEW d \in Endpoint, IsClosed(d) PROVE IsClosed(d)'
    <3>1. entry[d].list = "none"
      BY <2>1 DEF IsClosed, NoEntry
    <3>2. ~Calls(d, f)
      BY <3>1 DEF Calls
    <3> QED
      BY <1>1, <1>u, <2>1, <3>2 DEF IsClosed
  <2>2. \A d \in Endpoint : \A class, at : IsOpened(d, class, at) => IsOpened(d, class, at)'
    BY <1>u DEF IsOpened
  <2> QED
    BY <2>1, <2>2, Zenon DEF CnInv, LineEnds
<1>4. ASSUME NEW d \in Endpoint
      PROVE /\ InLine(received[d], outqueue[d], arriving[d], frames)'
            /\ \A h \in Elements(arriving[d])' : h.toGroup => h.type = "data"
            /\ opened'[d] # Unopened => Accounted(d)'
  <2>0. /\ received[d] \in Seq(Seq(Nat)) /\ frames \in Nat
        /\ InLine(received[d], outqueue[d], arriving[d], frames)
        /\ \A i \in DOMAIN received[d] : received[d][i][1] \in Nat
        /\ \A h \in Elements(arriving[d]) : h.toGroup => h.type = "data"
        /\ opened[d] # Unopened => Accounted(d)
    BY DEF CnInv, CnTyped, Lines
  <2>1. CASE d \notin Daemon(e)
    <3>1. arriving'[d] = arriving[d] /\ outqueue'[d] = outqueue[d]
      BY <1>1, <2>1
    <3> QED
      BY <1>u, <2>0, <3>1, PlaceStays
  <2>2. CASE d \in Daemon(e)
    <3>1. arriving[d] # <<>> /\ f = Head(arriving[d]) /\ arriving'[d] = Tail(arriving[d])
      BY <1>1, <2>2 DEF f
    <3>2. Elements(arriving[d]) = {f} \cup Elements(arriving'[d])
      BY <3>1, <1>t, TakenElements
    <3>3. outqueue'[d] = IF Calls(d, f) /\ Wants(d, f) THEN Append(outqueue[d], f) ELSE outqueue[d]
      BY <1>1, <2>2
    <3>4. InLine(received[d], outqueue'[d], arriving'[d], frames)
      <4>1. /\ InLine(received[d], outqueue[d], Tail(arriving[d]), frames)
            /\ InLine(received[d], Append(outqueue[d], f), Tail(arriving[d]), frames)
        BY <2>0, <3>1, <1>t, LineTakes
      <4> QED
        BY <3>1, <3>3, <4>1
    <3>5. ASSUME opened'[d] # Unopened PROVE Accounted(d)'
      <4>1. Accounted(d)
        BY <2>0, <3>5, <1>u
      <4>2. \A h : Told(d, h)' = Told(d, h) /\ ForIt(d, h)' = ForIt(d, h)
        BY <1>u, SameTold
      <4>3. DueTo(d)' = DueTo(d) /\ Elements(received[d])' = Elements(received[d])
        BY <1>u, <4>2 DEF DueTo
      <4>4. (Calls(d, f) /\ Wants(d, f)) <=> ForIt(d, f)
        BY <1>d, <1>f, <1>u, <3>5, PicksItsOwn DEF CnInv
      <4>5. Coming(d) = {Told(d, h) : h \in {k \in {f} \cup Elements(arriving'[d]) : ForIt(d, k)}}
        BY <3>2 DEF Coming
      <4>6. Coming(d)' = {Told(d, h) : h \in {k \in Elements(arriving'[d]) : ForIt(d, k)}}
        BY <4>2 DEF Coming
      <4>7. CASE ForIt(d, f)
        <5>1. Coming(d) = {Told(d, f)} \cup Coming(d)'
          BY <4>5, <4>6, <4>7
        <5>2. Elements(outqueue'[d]) = Elements(outqueue[d]) \cup {f}
          BY <3>3, <4>4, <4>7, <1>t, <1>f, AppendedElements
        <5>3. Queued(d)' = Queued(d) \cup {Told(d, f)}
          BY <5>2, <4>2 DEF Queued
        <5> QED
          BY <4>1, <4>3, <5>1, <5>3 DEF Accounted
      <4>8. CASE ~ForIt(d, f)
        <5>1. Coming(d) = Coming(d)'
          BY <4>5, <4>6, <4>8
        <5>2. outqueue'[d] = outqueue[d]
          BY <3>3, <4>4, <4>8
        <5>3. Queued(d)' = Queued(d)
          BY <5>2, <4>2 DEF Queued
        <5> QED
          BY <4>1, <4>3, <5>1, <5>3 DEF Accounted
      <4> QED
        BY <4>7, <4>8
    <3> QED
      BY <1>u, <2>0, <3>2, <3>4, <3>5
  <2> QED
    BY <2>1, <2>2
<1>5. Lines'
  BY <1>4, <1>u DEF CnInv, Lines
<1> QED
  BY <1>2, <1>3, <1>5 DEF CnInv

LEMMA GetKeepsLines ==
  ASSUME CnInv, NEW e \in Endpoint, GetNext(e)
  PROVE  CnInv'
<1> DEFINE f == Head(outqueue[e])
           x == Told(e, f)
<1>u. UNCHANGED <<opened, entry, arriving, offered, frames>>
  BY DEF GetNext
<1>t. /\ outqueue[e] \in Seq(FrameSet) /\ received[e] \in Seq(Seq(Nat)) /\ arriving[e] \in Seq(FrameSet)
      /\ frames \in Nat /\ outqueue[e] # <<>>
  BY DEF CnInv, CnTyped, GetNext
<1>f. f \in FrameSet /\ Tail(outqueue[e]) \in Seq(FrameSet)
  BY <1>t
<1>x. x \in Seq(Nat) /\ x[1] = f.no /\ f.no \in Nat
  BY <1>f, ToldNumbers
<1> HIDE DEF x
<1>1. /\ received' = [received EXCEPT ![e] = Append(received[e], x)]
      /\ outqueue' = [outqueue EXCEPT ![e] = Tail(outqueue[e])]
  BY DEF GetNext, x
<1>e. received'[e] = Append(received[e], x) /\ outqueue'[e] = Tail(outqueue[e])
  BY <1>1 DEF CnInv, CnTyped
<1>o. \A d \in Endpoint : d # e => received'[d] = received[d] /\ outqueue'[d] = outqueue[d]
  BY <1>1 DEF CnInv, CnTyped
<1>r. Append(received[e], x) \in Seq(Seq(Nat))
  BY <1>t, <1>x
<1>2. CnTyped'
  <2>1. outqueue' \in [Endpoint -> Seq(FrameSet)]
    BY <1>1, <1>f, Zenon DEF CnInv, CnTyped
  <2>2. received' \in [Endpoint -> Seq(Seq(Nat))]
    BY <1>1, <1>r, Zenon DEF CnInv, CnTyped
  <2> QED
    BY <1>u, <2>1, <2>2 DEF CnInv, CnTyped
<1>3. LineEnds'
  <2>1. ~IsClosed(e)
    BY <1>t DEF IsClosed
  <2> QED
    BY <2>1, <1>u, <1>o DEF CnInv, LineEnds, IsClosed, IsOpened
<1>4. InLine(received[e], outqueue[e], arriving[e], frames)'
  <2>1. /\ InLine(received[e], outqueue[e], arriving[e], frames)
        /\ \A i \in DOMAIN received[e] : received[e][i][1] \in Nat
    BY DEF CnInv, Lines
  <2> QED
    BY <2>1, <1>t, <1>x, <1>e, <1>u, LineGets
<1>5. \A i \in DOMAIN received'[e] : received'[e][i][1] \in Nat
  <2>1. \A i \in DOMAIN received'[e] :
          received'[e][i] = x \/ (i \in DOMAIN received[e] /\ received'[e][i] = received[e][i])
    BY <1>e, <1>t, <1>x
  <2> QED
    BY <2>1, <1>x DEF CnInv, Lines
<1>6. ASSUME opened'[e] # Unopened PROVE Accounted(e)'
  <2>1. Accounted(e)
    BY <1>6, <1>u DEF CnInv, Lines
  <2>2. \A h : Told(e, h)' = Told(e, h) /\ ForIt(e, h)' = ForIt(e, h)
    BY <1>u, SameTold
  <2>3. DueTo(e)' = DueTo(e)
    BY <1>u, <2>2 DEF DueTo
  <2>4. Coming(e)' = Coming(e)
    BY <1>u, <2>2 DEF Coming
  <2>5. Elements(received'[e]) = Elements(received[e]) \cup {x}
    BY <1>e, <1>t, <1>x, AppendedElements
  <2>6. Elements(outqueue[e]) = {f} \cup Elements(outqueue'[e])
    BY <1>e, <1>t, TakenElements
  <2>7. Queued(e) = {x} \cup Queued(e)'
    BY <2>6, <2>2 DEF Queued, x
  <2> QED
    BY <2>1, <2>3, <2>4, <2>5, <2>7 DEF Accounted
<1>7. Lines'
  BY <1>4, <1>5, <1>6, <1>u, <1>o, PlaceStays DEF CnInv, Lines
<1> QED
  BY <1>2, <1>3, <1>7 DEF CnInv

(* What an endpoint tells its client stands in the line of the frames that *)
(* came: the sequence of what was told and is queued.                      *)
LEMMA LinesDeliver == CnInv => Delivered
<1> SUFFICES ASSUME CnInv, NEW e \in Endpoint, opened[e] # Unopened
             PROVE  LET ToldOf(fs) == {Told(e, f) : f \in {g \in fs : ForIt(e, g)}}
                        queued == [i \in DOMAIN outqueue[e] |-> Told(e, outqueue[e][i])]
                        line == received[e] \o queued
                    IN /\ Elements(line) \cup ToldOf(Elements(arriving[e])) = ToldOf(offered[e])
                       /\ \A i, j \in DOMAIN line : i < j => line[i][1] < line[j][1]
                       /\ \A i \in DOMAIN line : \A x \in ToldOf(Elements(arriving[e])) : line[i][1] < x[1]
  BY DEF Delivered
<1> DEFINE q == outqueue[e]
           r == received[e]
           queued == [i \in DOMAIN q |-> Told(e, q[i])]
           line == r \o queued
           m == Len(r)
<1>1. /\ q \in Seq(FrameSet) /\ r \in Seq(Seq(Nat)) /\ arriving[e] \in Seq(FrameSet) /\ frames \in Nat
      /\ InLine(r, q, arriving[e], frames) /\ Accounted(e)
      /\ \A i \in DOMAIN r : r[i][1] \in Nat
  BY DEF CnInv, CnTyped, Lines
<1>2. \A i \in DOMAIN q : Told(e, q[i]) \in Seq(Nat) /\ Told(e, q[i])[1] = q[i].no /\ q[i].no \in Nat
  <2>1. \A i \in DOMAIN q : q[i] \in FrameSet
    BY <1>1
  <2> QED
    BY <2>1, ToldNumbers
<1>3. queued \in Seq(Seq(Nat)) /\ DOMAIN queued = DOMAIN q /\ Len(queued) = Len(q)
  <2>1. DOMAIN q = 1 .. Len(q) /\ Len(q) \in Nat
    BY <1>1
  <2>2. \A i \in 1 .. Len(q) : Told(e, q[i]) \in Seq(Nat)
    BY <1>2, <2>1
  <2>3. queued = [i \in 1 .. Len(q) |-> Told(e, q[i])]
    BY <2>1
  <2> HIDE DEF q
  <2> QED
    BY <2>1, <2>2, <2>3
<1>4. \A i \in DOMAIN line :
        \/ i \in DOMAIN r /\ line[i] = r[i] /\ i \in Nat /\ i <= m
        \/ i - m \in DOMAIN q /\ line[i] = Told(e, q[i - m]) /\ i \in Nat /\ m < i
  <2>1. \A i \in DOMAIN queued : queued[i] = Told(e, q[i])
    BY <1>3
  <2>2. r \in Seq(Seq(Nat)) /\ queued \in Seq(Seq(Nat)) /\ DOMAIN q = 1 .. Len(queued)
    BY <1>1, <1>3
  <2> HIDE DEF queued, q, r
  <2> QED
    BY <2>1, <2>2
<1>5. /\ \A i \in DOMAIN r : i \in DOMAIN line /\ line[i] = r[i]
      /\ \A i \in DOMAIN q : i + m \in DOMAIN line /\ line[i + m] = Told(e, q[i])
  <2>1. \A i \in DOMAIN queued : queued[i] = Told(e, q[i])
    BY <1>3
  <2>2. r \in Seq(Seq(Nat)) /\ queued \in Seq(Seq(Nat)) /\ DOMAIN q = 1 .. Len(queued)
    BY <1>1, <1>3
  <2> HIDE DEF queued, q, r
  <2> QED
    BY <2>1, <2>2
<1>6. m \in Nat
  BY <1>1
<1> HIDE DEF line, m, queued
<1>7. Elements(line) = Elements(r) \cup Queued(e)
  <2>1. Elements(line) \subseteq Elements(r) \cup Queued(e)
    BY <1>4 DEF Elements, Queued
  <2>2. Elements(r) \subseteq Elements(line)
    BY <1>5 DEF Elements
  <2>3. Queued(e) \subseteq Elements(line)
    BY <1>5 DEF Elements, Queued
  <2> QED
    BY <2>1, <2>2, <2>3
<1>8. Elements(line) \cup Coming(e) = DueTo(e)
  BY <1>1, <1>7 DEF Accounted
<1>9. ASSUME NEW i \in DOMAIN line, NEW j \in DOMAIN line, i < j PROVE line[i][1] < line[j][1]
  <2>1. CASE i \in DOMAIN r /\ line[i] = r[i] /\ j \in DOMAIN r /\ line[j] = r[j]
    BY <2>1, <1>9, <1>1 DEF InLine
  <2>2. CASE i \in DOMAIN r /\ line[i] = r[i] /\ j - m \in DOMAIN q /\ line[j] = Told(e, q[j - m])
    BY <2>2, <1>1, <1>2 DEF InLine
  <2>3. CASE i - m \in DOMAIN q /\ line[i] = Told(e, q[i - m]) /\ j - m \in DOMAIN q /\ line[j] = Told(e, q[j - m])
    <3>1. i - m < j - m
      BY <1>4, <1>6, <1>9
    <3> QED
      BY <2>3, <3>1, <1>1, <1>2 DEF InLine
  <2>4. ~(m < i /\ j <= m /\ i \in Nat /\ j \in Nat)
    BY <1>6, <1>9
  <2> QED
    BY <1>4, <2>1, <2>2, <2>3, <2>4
<1>10. ASSUME NEW i \in DOMAIN line, NEW x \in Coming(e) PROVE line[i][1] < x[1]
  <2>1. PICK f \in Elements(arriving[e]) : x = Told(e, f)
    BY DEF Coming
  <2>2. PICK k \in DOMAIN arriving[e] : f = arriving[e][k]
    BY DEF Elements
  <2>3. f \in FrameSet
    BY <1>1, <2>2
  <2>4. x[1] = arriving[e][k].no
    BY <2>1, <2>2, <2>3, ToldNumbers
  <2>5. CASE i \in DOMAIN r /\ line[i] = r[i]
    BY <2>4, <2>5, <1>1 DEF InLine
  <2>6. CASE i - m \in DOMAIN q /\ line[i] = Told(e, q[i - m])
    BY <2>4, <2>6, <1>1, <1>2 DEF InLine
  <2> QED
    BY <1>4, <2>5, <2>6
<1>11. line = received[e] \o [i \in DOMAIN outqueue[e] |-> Told(e, outqueue[e][i])]
  BY DEF line, queued
<1> QED
  BY <1>8, <1>9, <1>10, <1>11 DEF Coming, DueTo

(* The client of an endpoint gets the frames for it, all, once, in order   *)
(* (Delivered; layer4.cpp, Layer3::Run).                                   *)
THEOREM FramesDelivered == ConnectionlessSpec => []Delivered
<1>1. ConnectionlessInit => CnInv
  <2> SUFFICES ASSUME ConnectionlessInit PROVE CnInv
    OBVIOUS
  <2>1. <<>> \in Seq(FrameSet) /\ <<>> \in Seq(Seq(Nat))
    OBVIOUS
  <2>2. CnTyped
    <3>1. /\ outqueue \in [Endpoint -> Seq(FrameSet)] /\ arriving \in [Endpoint -> Seq(FrameSet)]
          /\ received \in [Endpoint -> Seq(Seq(Nat))]
      BY <2>1, Zenon DEF ConnectionlessInit
    <3> QED
      BY <3>1 DEF ConnectionlessInit, CnTyped
  <2>3. LineEnds
    BY DEF ConnectionlessInit, LineEnds, IsClosed
  <2>4. Lines
    <3>1. InLine(<<>>, <<>>, <<>>, 0)
      BY DEF InLine
    <3>2. Elements(<<>>) = {}
      BY DEF Elements
    <3>3. \A e \in Endpoint :
            /\ received[e] = <<>> /\ outqueue[e] = <<>> /\ arriving[e] = <<>> /\ opened[e] = Unopened
            /\ frames = 0
      BY DEF ConnectionlessInit
    <3>4. DOMAIN <<>> = {}
      OBVIOUS
    <3>5. ASSUME NEW e \in Endpoint
          PROVE /\ \A i \in DOMAIN received[e] : received[e][i][1] \in Nat
                /\ InLine(received[e], outqueue[e], arriving[e], frames)
                /\ \A f \in Elements(arriving[e]) : f.toGroup => f.type = "data"
                /\ opened[e] # Unopened => Accounted(e)
      BY <3>1, <3>2, <3>3, <3>4, Zenon
    <3> QED
      BY <3>5 DEF Lines
  <2> QED
    BY <2>2, <2>3, <2>4 DEF CnInv
<1>2. CnInv /\ [ConnectionlessNext]_cnvars => CnInv'
  <2>1. CnInv /\ UNCHANGED cnvars => CnInv'
    BY PlaceStays DEF CnInv, CnTyped, LineEnds, Lines, IsClosed, IsOpened, cnvars
  <2> QED
    BY <2>1, OpenKeepsLines, CloseKeepsLines, SendKeepsLines, LayerKeepsLines, GetKeepsLines
    DEF ConnectionlessNext
<1> QED
  BY <1>1, <1>2, LinesDeliver, PTL DEF ConnectionlessSpec

----------------------------------------------------------------------------
(* The parts of the daemon.                                                *)

Built == {"backend", "layer3", "inet", "local", "netip", "cache"}
(* What exists where main is.                                              *)
Standing ==
  /\ parts \subseteq Built
  /\ parts \cap {"inet", "local", "netip", "cache"} # {} => "layer3" \in parts
  /\ "layer3" \in parts => "backend" \in parts
  /\ reached \in {"arguments", "log", "pidfile", "backend"} => parts = {}
  /\ reached = "layer3" => parts = {"backend"}
  /\ reached = "start" => "cache" \in parts
  /\ reached \in {"inet", "local", "netip", "given_up", "cache", "start", "wait",
                   "close_inet", "close_local", "close_netip", "close_cache", "close_layer3"}
       => "layer3" \in parts
  /\ reached \in {"close_local", "close_netip", "close_cache", "close_layer3", "unlink", "gone"}
       => "inet" \notin parts
  /\ reached \in {"close_netip", "close_cache", "close_layer3", "unlink", "gone"} => "local" \notin parts
  /\ reached \in {"close_cache", "close_layer3", "unlink", "gone"} => "netip" \notin parts
  /\ reached \in {"close_layer3", "unlink", "gone"} => "cache" \notin parts
  /\ reached \in {"unlink", "gone"} => "layer3" \notin parts /\ "backend" \notin parts

(* Who is in a part, and what it does there.                               *)
Visits ==
  /\ caller = [s \in Servers |-> caller[s]]
  /\ \A s \in Servers : caller[s] # NoCaller => s \in parts
  /\ \A s \in Servers : caller[s].at = "inside" => "cache" \in parts
  /\ filling => "cache" \in parts

DmInv ==
  /\ Standing /\ Visits
  /\ reached = "gone" /\ pidfile = "own" => "pid-file" \notin DOMAIN options

(* The order of building, one by one.                                      *)
LEMMA CourseGoes ==
  /\ After("arguments") = "log"
  /\ After("log") = "pidfile"
  /\ After("pidfile") = "backend"
  /\ After("backend") = "layer3"
  /\ After("layer3") = "inet"
  /\ After("inet") = "local"
  /\ After("local") = "netip"
  /\ After("netip") = "cache"
  /\ After("cache") = "start"
  /\ After("start") = "wait"
  /\ After("wait") = "close_inet"
  /\ After("close_inet") = "close_local"
  /\ After("close_local") = "close_netip"
  /\ After("close_netip") = "close_cache"
  /\ After("close_cache") = "close_layer3"
  /\ After("close_layer3") = "unlink"
  /\ After("unlink") = "gone"
<1>1. After("arguments") = "log"
  <2> DEFINE c == CHOOSE i \in DOMAIN Course : Course[i] = "arguments"
  <2>1. \A i \in DOMAIN Course : Course[i] = "arguments" <=> i = 1
    BY DEF Course
  <2>2. 1 \in DOMAIN Course /\ Course[2] = "log"
    BY DEF Course
  <2>3. c = 1
    BY <2>1, <2>2
  <2>4. After("arguments") = Course[1 + c]
    BY Zenon DEF After
  <2> HIDE DEF c
  <2>5. 1 + c = 2
    BY <2>3
  <2> QED
    BY <2>2, <2>4, <2>5, Zenon
<1>2. After("log") = "pidfile"
  <2> DEFINE c == CHOOSE i \in DOMAIN Course : Course[i] = "log"
  <2>1. \A i \in DOMAIN Course : Course[i] = "log" <=> i = 2
    BY DEF Course
  <2>2. 2 \in DOMAIN Course /\ Course[3] = "pidfile"
    BY DEF Course
  <2>3. c = 2
    BY <2>1, <2>2
  <2>4. After("log") = Course[1 + c]
    BY Zenon DEF After
  <2> HIDE DEF c
  <2>5. 1 + c = 3
    BY <2>3
  <2> QED
    BY <2>2, <2>4, <2>5, Zenon
<1>3. After("pidfile") = "backend"
  <2> DEFINE c == CHOOSE i \in DOMAIN Course : Course[i] = "pidfile"
  <2>1. \A i \in DOMAIN Course : Course[i] = "pidfile" <=> i = 3
    BY DEF Course
  <2>2. 3 \in DOMAIN Course /\ Course[4] = "backend"
    BY DEF Course
  <2>3. c = 3
    BY <2>1, <2>2
  <2>4. After("pidfile") = Course[1 + c]
    BY Zenon DEF After
  <2> HIDE DEF c
  <2>5. 1 + c = 4
    BY <2>3
  <2> QED
    BY <2>2, <2>4, <2>5, Zenon
<1>4. After("backend") = "layer3"
  <2> DEFINE c == CHOOSE i \in DOMAIN Course : Course[i] = "backend"
  <2>1. \A i \in DOMAIN Course : Course[i] = "backend" <=> i = 4
    BY DEF Course
  <2>2. 4 \in DOMAIN Course /\ Course[5] = "layer3"
    BY DEF Course
  <2>3. c = 4
    BY <2>1, <2>2
  <2>4. After("backend") = Course[1 + c]
    BY Zenon DEF After
  <2> HIDE DEF c
  <2>5. 1 + c = 5
    BY <2>3
  <2> QED
    BY <2>2, <2>4, <2>5, Zenon
<1>5. After("layer3") = "inet"
  <2> DEFINE c == CHOOSE i \in DOMAIN Course : Course[i] = "layer3"
  <2>1. \A i \in DOMAIN Course : Course[i] = "layer3" <=> i = 5
    BY DEF Course
  <2>2. 5 \in DOMAIN Course /\ Course[6] = "inet"
    BY DEF Course
  <2>3. c = 5
    BY <2>1, <2>2
  <2>4. After("layer3") = Course[1 + c]
    BY Zenon DEF After
  <2> HIDE DEF c
  <2>5. 1 + c = 6
    BY <2>3
  <2> QED
    BY <2>2, <2>4, <2>5, Zenon
<1>6. After("inet") = "local"
  <2> DEFINE c == CHOOSE i \in DOMAIN Course : Course[i] = "inet"
  <2>1. \A i \in DOMAIN Course : Course[i] = "inet" <=> i = 6
    BY DEF Course
  <2>2. 6 \in DOMAIN Course /\ Course[7] = "local"
    BY DEF Course
  <2>3. c = 6
    BY <2>1, <2>2
  <2>4. After("inet") = Course[1 + c]
    BY Zenon DEF After
  <2> HIDE DEF c
  <2>5. 1 + c = 7
    BY <2>3
  <2> QED
    BY <2>2, <2>4, <2>5, Zenon
<1>7. After("local") = "netip"
  <2> DEFINE c == CHOOSE i \in DOMAIN Course : Course[i] = "local"
  <2>1. \A i \in DOMAIN Course : Course[i] = "local" <=> i = 7
    BY DEF Course
  <2>2. 7 \in DOMAIN Course /\ Course[8] = "netip"
    BY DEF Course
  <2>3. c = 7
    BY <2>1, <2>2
  <2>4. After("local") = Course[1 + c]
    BY Zenon DEF After
  <2> HIDE DEF c
  <2>5. 1 + c = 8
    BY <2>3
  <2> QED
    BY <2>2, <2>4, <2>5, Zenon
<1>8. After("netip") = "cache"
  <2> DEFINE c == CHOOSE i \in DOMAIN Course : Course[i] = "netip"
  <2>1. \A i \in DOMAIN Course : Course[i] = "netip" <=> i = 8
    BY DEF Course
  <2>2. 8 \in DOMAIN Course /\ Course[9] = "cache"
    BY DEF Course
  <2>3. c = 8
    BY <2>1, <2>2
  <2>4. After("netip") = Course[1 + c]
    BY Zenon DEF After
  <2> HIDE DEF c
  <2>5. 1 + c = 9
    BY <2>3
  <2> QED
    BY <2>2, <2>4, <2>5, Zenon
<1>9. After("cache") = "start"
  <2> DEFINE c == CHOOSE i \in DOMAIN Course : Course[i] = "cache"
  <2>1. \A i \in DOMAIN Course : Course[i] = "cache" <=> i = 9
    BY DEF Course
  <2>2. 9 \in DOMAIN Course /\ Course[10] = "start"
    BY DEF Course
  <2>3. c = 9
    BY <2>1, <2>2
  <2>4. After("cache") = Course[1 + c]
    BY Zenon DEF After
  <2> HIDE DEF c
  <2>5. 1 + c = 10
    BY <2>3
  <2> QED
    BY <2>2, <2>4, <2>5, Zenon
<1>10. After("start") = "wait"
  <2> DEFINE c == CHOOSE i \in DOMAIN Course : Course[i] = "start"
  <2>1. \A i \in DOMAIN Course : Course[i] = "start" <=> i = 10
    BY DEF Course
  <2>2. 10 \in DOMAIN Course /\ Course[11] = "wait"
    BY DEF Course
  <2>3. c = 10
    BY <2>1, <2>2
  <2>4. After("start") = Course[1 + c]
    BY Zenon DEF After
  <2> HIDE DEF c
  <2>5. 1 + c = 11
    BY <2>3
  <2> QED
    BY <2>2, <2>4, <2>5, Zenon
<1>11. After("wait") = "close_inet"
  <2> DEFINE c == CHOOSE i \in DOMAIN Course : Course[i] = "wait"
  <2>1. \A i \in DOMAIN Course : Course[i] = "wait" <=> i = 11
    BY DEF Course
  <2>2. 11 \in DOMAIN Course /\ Course[12] = "close_inet"
    BY DEF Course
  <2>3. c = 11
    BY <2>1, <2>2
  <2>4. After("wait") = Course[1 + c]
    BY Zenon DEF After
  <2> HIDE DEF c
  <2>5. 1 + c = 12
    BY <2>3
  <2> QED
    BY <2>2, <2>4, <2>5, Zenon
<1>12. After("close_inet") = "close_local"
  <2> DEFINE c == CHOOSE i \in DOMAIN Course : Course[i] = "close_inet"
  <2>1. \A i \in DOMAIN Course : Course[i] = "close_inet" <=> i = 12
    BY DEF Course
  <2>2. 12 \in DOMAIN Course /\ Course[13] = "close_local"
    BY DEF Course
  <2>3. c = 12
    BY <2>1, <2>2
  <2>4. After("close_inet") = Course[1 + c]
    BY Zenon DEF After
  <2> HIDE DEF c
  <2>5. 1 + c = 13
    BY <2>3
  <2> QED
    BY <2>2, <2>4, <2>5, Zenon
<1>13. After("close_local") = "close_netip"
  <2> DEFINE c == CHOOSE i \in DOMAIN Course : Course[i] = "close_local"
  <2>1. \A i \in DOMAIN Course : Course[i] = "close_local" <=> i = 13
    BY DEF Course
  <2>2. 13 \in DOMAIN Course /\ Course[14] = "close_netip"
    BY DEF Course
  <2>3. c = 13
    BY <2>1, <2>2
  <2>4. After("close_local") = Course[1 + c]
    BY Zenon DEF After
  <2> HIDE DEF c
  <2>5. 1 + c = 14
    BY <2>3
  <2> QED
    BY <2>2, <2>4, <2>5, Zenon
<1>14. After("close_netip") = "close_cache"
  <2> DEFINE c == CHOOSE i \in DOMAIN Course : Course[i] = "close_netip"
  <2>1. \A i \in DOMAIN Course : Course[i] = "close_netip" <=> i = 14
    BY DEF Course
  <2>2. 14 \in DOMAIN Course /\ Course[15] = "close_cache"
    BY DEF Course
  <2>3. c = 14
    BY <2>1, <2>2
  <2>4. After("close_netip") = Course[1 + c]
    BY Zenon DEF After
  <2> HIDE DEF c
  <2>5. 1 + c = 15
    BY <2>3
  <2> QED
    BY <2>2, <2>4, <2>5, Zenon
<1>15. After("close_cache") = "close_layer3"
  <2> DEFINE c == CHOOSE i \in DOMAIN Course : Course[i] = "close_cache"
  <2>1. \A i \in DOMAIN Course : Course[i] = "close_cache" <=> i = 15
    BY DEF Course
  <2>2. 15 \in DOMAIN Course /\ Course[16] = "close_layer3"
    BY DEF Course
  <2>3. c = 15
    BY <2>1, <2>2
  <2>4. After("close_cache") = Course[1 + c]
    BY Zenon DEF After
  <2> HIDE DEF c
  <2>5. 1 + c = 16
    BY <2>3
  <2> QED
    BY <2>2, <2>4, <2>5, Zenon
<1>16. After("close_layer3") = "unlink"
  <2> DEFINE c == CHOOSE i \in DOMAIN Course : Course[i] = "close_layer3"
  <2>1. \A i \in DOMAIN Course : Course[i] = "close_layer3" <=> i = 16
    BY DEF Course
  <2>2. 16 \in DOMAIN Course /\ Course[17] = "unlink"
    BY DEF Course
  <2>3. c = 16
    BY <2>1, <2>2
  <2>4. After("close_layer3") = Course[1 + c]
    BY Zenon DEF After
  <2> HIDE DEF c
  <2>5. 1 + c = 17
    BY <2>3
  <2> QED
    BY <2>2, <2>4, <2>5, Zenon
<1>17. After("unlink") = "gone"
  <2> DEFINE c == CHOOSE i \in DOMAIN Course : Course[i] = "unlink"
  <2>1. \A i \in DOMAIN Course : Course[i] = "unlink" <=> i = 17
    BY DEF Course
  <2>2. 17 \in DOMAIN Course /\ Course[18] = "gone"
    BY DEF Course
  <2>3. c = 17
    BY <2>1, <2>2
  <2>4. After("unlink") = Course[1 + c]
    BY Zenon DEF After
  <2> HIDE DEF c
  <2>5. 1 + c = 18
    BY <2>3
  <2> QED
    BY <2>2, <2>4, <2>5, Zenon
<1> QED
  BY <1>1, <1>2, <1>3, <1>4, <1>5, <1>6, <1>7, <1>8, <1>9, <1>10, <1>11, <1>12, <1>13, <1>14, <1>15, <1>16, <1>17

(* What is wanted is built on what stands.                                 *)
LEMMA StartUpStands ==
  ASSUME DmInv, StartUp PROVE DmInv'
<1>s. reached \in {"arguments", "log", "pidfile", "backend", "layer3", "netip", "cache", "start"}
  BY DEF StartUp
<1>p. parts' = parts \/ parts' = parts \cup ({reached} \cap Built)
  BY DEF StartUp, Makes, Built
<1>r. reached' = After(reached) /\ options' = options /\ caller' = caller
  BY DEF StartUp
<1>f. filling' => reached = "start"
  BY DEF StartUp
<1>w. IsWanted("backend") /\ IsWanted("layer3") /\ IsWanted("cache")
  BY DEF IsWanted
<1>1. reached \in {"backend", "layer3", "cache"} => parts' = parts \cup {reached}
  BY <1>w DEF StartUp, Makes
<1>2. Visits'
  BY <1>s, <1>p, <1>r, <1>f DEF DmInv, Visits, Standing
<1>3. Standing'
  <2> USE <1>p, <1>r, <1>1 DEF DmInv, Standing, Built
  <2>arguments. CASE reached = "arguments"
    BY <2>arguments, CourseGoes
  <2>log. CASE reached = "log"
    BY <2>log, CourseGoes
  <2>pidfile. CASE reached = "pidfile"
    BY <2>pidfile, CourseGoes
  <2>backend. CASE reached = "backend"
    BY <2>backend, CourseGoes
  <2>layer3. CASE reached = "layer3"
    BY <2>layer3, CourseGoes
  <2>netip. CASE reached = "netip"
    BY <2>netip, CourseGoes
  <2>cache. CASE reached = "cache"
    BY <2>cache, CourseGoes
  <2>start. CASE reached = "start"
    BY <2>start, CourseGoes
  <2> QED
    BY <1>s, <2>arguments, <2>log, <2>pidfile, <2>backend, <2>layer3, <2>netip, <2>cache, <2>start
<1>4. reached' # "gone"
  BY <1>s, <1>r, CourseGoes
<1> QED
  BY <1>2, <1>3, <1>4 DEF DmInv

(* main gives up: what stands, stands.                                     *)
LEMMA DieStands ==
  ASSUME DmInv, Die PROVE DmInv'
BY DEF DmInv, Standing, Visits, Die

(* The sockets of the servers are opened.                                  *)
LEMMA ServersStand ==
  ASSUME DmInv, OpenInet \/ OpenLocal PROVE DmInv'
<1>1. CASE OpenInet
  <2>1. reached = "inet" /\ reached' = "local"
    BY <1>1, CourseGoes DEF OpenInet
  <2>2. parts' = parts \/ parts' = parts \cup {"inet"}
    BY <1>1 DEF OpenInet, Makes
  <2>3. UNCHANGED <<options, filling, caller, pidfile>>
    BY <1>1 DEF OpenInet
  <2> QED
    BY <2>1, <2>2, <2>3 DEF DmInv, Standing, Visits, Built
<1>2. CASE OpenLocal
  <2>1. reached = "local" /\ reached' \in {"netip", "died"}
    BY <1>2, CourseGoes DEF OpenLocal
  <2>2. parts' = parts \/ parts' = parts \cup {"local"}
    BY <1>2 DEF OpenLocal, Makes
  <2>3. UNCHANGED <<options, filling, caller>>
    BY <1>2 DEF OpenLocal
  <2> QED
    BY <2>1, <2>2, <2>3 DEF DmInv, Standing, Visits, Built
<1> QED
  BY <1>1, <1>2

(* What is waited for stands as it stood.                                  *)
LEMMA WaitStands ==
  ASSUME DmInv, ServerFails \/ StopSignal \/ Hangs \/ MoveLog \/ Killed PROVE DmInv'
<1>1. UNCHANGED <<options, parts, filling, caller>>
  BY DEF ServerFails, StopSignal, Hangs, MoveLog, Killed
<1>2. \/ reached = "netip" /\ reached' = "given_up"
      \/ reached = "wait" /\ reached' = "close_inet"
      \/ reached = "wait" /\ reached' = reached
      \/ reached' = "killed"
  BY CourseGoes DEF ServerFails, StopSignal, Hangs, MoveLog, Killed
<1> QED
  BY <1>1, <1>2 DEF DmInv, Standing, Visits

(* The parts go in the order of who is in them.                            *)
LEMMA TakeDownStands ==
  ASSUME DmInv, TakeDown PROVE DmInv'
<1>s. reached \in {"close_inet", "close_local", "close_netip", "close_cache", "close_layer3", "unlink"}
  BY DEF TakeDown
<1>p. parts' = parts \ Closing(reached)
  BY DEF TakeDown
<1>r. reached' = After(reached) /\ options' = options /\ caller' = caller
  BY DEF TakeDown
<1>f. filling' => filling /\ "cache" \in parts'
  BY DEF TakeDown
<1>c. \A s \in Servers \cap Closing(reached) : caller[s] = NoCaller
  BY DEF TakeDown
<1>x. reached = "unlink" /\ "pid-file" \in DOMAIN options => pidfile' = "none"
  BY DEF TakeDown
<1>d. NoCaller.at # "inside"
  BY DEF NoCaller
<1> USE <1>p, <1>r, <1>f, <1>c, <1>x, <1>d DEF DmInv, Standing, Visits, Built, Servers, Closing
<1>close_inet. CASE reached = "close_inet"
  <2>1. reached' = "close_local"
    BY <1>close_inet, CourseGoes
  <2>2. Standing'
    BY <1>close_inet, <2>1
  <2>3. Visits'
    BY <1>close_inet, <2>1
  <2> QED
    BY <1>close_inet, <2>1, <2>2, <2>3
<1>close_local. CASE reached = "close_local"
  <2>1. reached' = "close_netip"
    BY <1>close_local, CourseGoes
  <2>2. Standing'
    BY <1>close_local, <2>1
  <2>3. Visits'
    BY <1>close_local, <2>1
  <2> QED
    BY <1>close_local, <2>1, <2>2, <2>3
<1>close_netip. CASE reached = "close_netip"
  <2>1. reached' = "close_cache"
    BY <1>close_netip, CourseGoes
  <2>2. Standing'
    BY <1>close_netip, <2>1
  <2>3. Visits'
    BY <1>close_netip, <2>1
  <2> QED
    BY <1>close_netip, <2>1, <2>2, <2>3
<1>close_cache. CASE reached = "close_cache"
  <2>1. reached' = "close_layer3"
    BY <1>close_cache, CourseGoes
  <2>2. Standing'
    BY <1>close_cache, <2>1
  <2>3. Visits'
    BY <1>close_cache, <2>1
  <2> QED
    BY <1>close_cache, <2>1, <2>2, <2>3
<1>close_layer3. CASE reached = "close_layer3"
  <2>1. reached' = "unlink"
    BY <1>close_layer3, CourseGoes
  <2>2. Standing'
    BY <1>close_layer3, <2>1
  <2>3. Visits'
    BY <1>close_layer3, <2>1
  <2> QED
    BY <1>close_layer3, <2>1, <2>2, <2>3
<1>unlink. CASE reached = "unlink"
  <2>1. reached' = "gone"
    BY <1>unlink, CourseGoes
  <2>2. Standing'
    BY <1>unlink, <2>1
  <2>3. Visits'
    BY <1>unlink, <2>1
  <2> QED
    BY <1>unlink, <2>1, <2>2, <2>3
<1> QED
  BY <1>s, <1>close_inet, <1>close_local, <1>close_netip, <1>close_cache, <1>close_layer3, <1>unlink

(* A program comes to a server that stands, and asks a cache that stands.  *)
LEMMA CallersStand ==
  ASSUME DmInv, NEW s \in Servers,
         Arrive(s) \/ RequestCache(s) \/ CacheReturns(s) \/ Proceed(s) \/ Monitor(s)
  PROVE  DmInv'
<1>1. UNCHANGED <<options, reached, parts, pidfile>>
  BY DEF Arrive, RequestCache, CacheReturns, Proceed, Monitor, Called
<1>2. PICK c : caller' = [caller EXCEPT ![s] = c]
  BY DEF Arrive, RequestCache, CacheReturns, Proceed, Monitor, Called
<1>n. NoCaller.at = "none" /\ Idle.at = "idle"
  BY DEF NoCaller, Idle
<1>3. s \in parts
  <2>1. CASE Arrive(s)
    BY <2>1 DEF Arrive
  <2>2. CASE RequestCache(s) \/ CacheReturns(s) \/ Proceed(s) \/ Monitor(s)
    <3>1. caller[s].at # "none"
      BY <2>2, <1>n DEF RequestCache, CacheReturns, Proceed, Monitor
    <3> QED
      BY <3>1, <1>n DEF DmInv, Visits
  <2> QED
    BY <2>1, <2>2
<1>4. c.at = "inside" => "cache" \in parts
  <2>1. c = caller'[s]
    BY <1>2 DEF DmInv, Visits
  <2>2. CASE RequestCache(s)
    <3>1. PICK r \in RequestsOf : Called(s, IF "cache" \notin parts \/ Len(r.octets) < LeastOf(r.type)
               THEN [at |-> "answered", request |-> r, says |-> [rejected |-> TRUE], answer |-> RejectIt]
               ELSE [at |-> "inside", request |-> r, on |-> filling], requestsMade + 1)
      BY <2>2 DEF RequestCache
    <3>2. CASE "cache" \notin parts
      <4>1. c = [at |-> "answered", request |-> r, says |-> [rejected |-> TRUE], answer |-> RejectIt]
        BY <2>1, <3>1, <3>2 DEF Called, DmInv, Visits
      <4> QED
        BY <4>1
    <3> QED
      BY <3>2
  <2>3. CASE CacheReturns(s)
    BY <2>1, <2>3 DEF CacheReturns, DmInv, Visits
  <2>4. CASE Arrive(s) \/ Proceed(s) \/ Monitor(s)
    <3>1. c = Idle \/ c = NoCaller
      BY <2>1, <2>4 DEF Arrive, Proceed, Monitor, Called, DmInv, Visits
    <3> QED
      BY <3>1, <1>n
  <2> QED
    BY <2>2, <2>3, <2>4
<1>5. filling' => filling \/ "cache" \in parts
  BY DEF Arrive, RequestCache, CacheReturns, Proceed, Monitor, DmInv, Visits
<1>6. Visits'
  BY <1>1, <1>2, <1>3, <1>4, <1>5 DEF DmInv, Visits
<1> QED
  BY <1>1, <1>6 DEF DmInv, Standing

(* Parts stand under the parts that use them, and nothing is left behind   *)
(* (PartsOutlast, eibd.cpp:429-444).                                       *)
THEOREM PartsStand == DaemonSpec => []PartsOutlast
<1>1. DaemonInit => DmInv
  BY DEF DaemonInit, DmInv, Standing, Visits, NoCaller, Servers, Built
<1>2. DmInv /\ [DaemonNext]_dmvars => DmInv'
  <2> SUFFICES ASSUME DmInv, [DaemonNext]_dmvars PROVE DmInv'
    OBVIOUS
  <2>1. CASE StartUp
    BY <2>1, StartUpStands
  <2>2. CASE Fails
    BY <2>2, DieStands DEF Fails
  <2>3. CASE OpenInet \/ OpenLocal
    BY <2>3, ServersStand
  <2>4. CASE ServerFails \/ StopSignal \/ Hangs \/ MoveLog \/ Killed
    BY <2>4, WaitStands
  <2>5. CASE TakeDown
    BY <2>5, TakeDownStands
  <2>6. CASE \E s \in Servers :
               Arrive(s) \/ RequestCache(s) \/ CacheReturns(s) \/ Proceed(s) \/ Monitor(s)
    BY <2>6, CallersStand
  <2>7. CASE UNCHANGED dmvars
    BY <2>7 DEF DmInv, Standing, Visits, dmvars
  <2> QED
    BY <2>1, <2>2, <2>3, <2>4, <2>5, <2>6, <2>7 DEF DaemonNext
<1>3. DmInv => PartsOutlast
  BY DEF DmInv, Standing, Visits, PartsOutlast, Built, Servers, NoCaller
<1> QED
  BY <1>1, <1>2, <1>3, PTL DEF DaemonSpec

----------------------------------------------------------------------------
(* Configuration channels.                                                 *)

(* The numbers of the two ends, while fewer questions are asked than there *)
(* are numbers.                                                            *)
AnswersOf == {AnswerTo(q) : q \in Questions}
ToolTyped ==
  tool \in [sno : Nat, rno : Nat, open : Questions \cup {NoQuestion}, asked : Nat,
            got : Seq(AnswersOf), gone : BOOLEAN]
ChannelTyped ==
  /\ channel \in [type : Nat, sno : Nat, rno : Nat, state : Nat, out : Seq(AnswersOf)]
  /\ channel # NoChannel => channel.type = 2
  /\ channel.state # 0 => channel.out # <<>>
  /\ tool.gone => channel = NoChannel

(* Questions: a number is used for one of them.                            *)
AskedOnce ==
  /\ tool.asked <= MaxQuestions /\ tool.sno <= tool.asked
  /\ tool.open # NoQuestion => tool.sno < tool.asked
  /\ agreed \in Seq(Questions) /\ Len(agreed) <= tool.asked
  /\ channel # NoChannel => Len(agreed) <= channel.rno /\ channel.rno <= tool.asked
  /\ channel = NoChannel /\ ~tool.gone =>
       agreed = <<>> /\ tool.got = <<>> /\ cables = {} /\ tool.open = NoQuestion
  /\ \A p \in cables :
       /\ p.seqno \in Nat
       /\ p.to = "server" /\ p.kind = "request" => p.data \in Questions /\ p.seqno < tool.asked
       /\ p.to = "tool" /\ p.kind # "ack" => p.data \in AnswersOf

(* Answers: the tool has those the server has passed, or one more.         *)
AnswersInOrder ==
  /\ tool.rno = Len(tool.got) /\ Len(tool.got) <= Len(agreed)
  /\ \A i \in 1 .. Len(tool.got) : tool.got[i] = AnswerTo(agreed[i])
  /\ channel # NoChannel =>
       /\ channel.sno <= tool.rno /\ tool.rno <= channel.sno + 1
       /\ Len(agreed) = channel.sno + Len(channel.out)
       /\ \A i \in 1 .. Len(channel.out) : channel.out[i] = AnswerTo(agreed[channel.sno + i])
  /\ \A p \in cables :
       /\ p.to = "tool" /\ p.kind # "ack" =>
            /\ p.seqno < Len(agreed) /\ p.data = AnswerTo(agreed[p.seqno + 1])
            /\ channel # NoChannel => p.seqno <= channel.sno
       /\ p.to = "server" /\ p.kind = "ack" => p.seqno < tool.rno

CcInv ==
  /\ ToolTyped /\ ChannelTyped /\ AskedOnce
  /\ ~dropped => AnswersInOrder

LEMMA NumbersFollow ==
  ASSUME NEW n \in Nat PROVE Following(n) \in Nat /\ (n < 255 => Following(n) = n + 1)
BY DEF Following

(* A step of the server, or of the tool.                                   *)
LEMMA OpensChannel == CcInv /\ OpenChannel => CcInv'
<1> SUFFICES ASSUME CcInv, OpenChannel PROVE CcInv'
  OBVIOUS
<1> USE DEF CcInv
<1>1. /\ channel = NoChannel /\ ~tool.gone /\ channel' = [NoChannel EXCEPT !.type = 2]
      /\ tool' = tool /\ cables' = cables /\ agreed' = agreed /\ dropped' = dropped
      /\ tool.sno <= tool.asked /\ tool.asked \in Nat /\ agreed = <<>> /\ tool.got = <<>> /\ cables = {}
  BY DEF OpenChannel, AskedOnce, ToolTyped
<1>2. /\ channel' = [type |-> 2, sno |-> 0, rno |-> 0, state |-> 0, out |-> <<>>]
      /\ channel' # NoChannel
  BY <1>1 DEF NoChannel
<1>3. ToolTyped'
  BY <1>1 DEF ToolTyped
<1>4. ChannelTyped'
  BY <1>1, <1>2 DEF ChannelTyped
<1>5. AskedOnce'
  BY <1>1, <1>2 DEF AskedOnce
<1>6. ~dropped => AnswersInOrder'
  BY <1>1, <1>2 DEF AnswersInOrder
<1> QED
  BY <1>1, <1>3, <1>4, <1>5, <1>6

LEMMA ClosesChannel == CcInv /\ CloseChannel => CcInv'
<1> SUFFICES ASSUME CcInv, CloseChannel PROVE CcInv'
  OBVIOUS
<1> USE DEF CcInv
<1>1. /\ channel' = NoChannel /\ tool' = [tool EXCEPT !.gone = TRUE]
      /\ cables' = cables /\ agreed' = agreed /\ dropped' = dropped
  BY DEF CloseChannel
<1>2. ToolTyped' /\ tool'.gone /\ tool'.sno = tool.sno /\ tool'.rno = tool.rno /\ tool'.got = tool.got
      /\ tool'.open = tool.open /\ tool'.asked = tool.asked
  BY <1>1 DEF ToolTyped
<1>3. ChannelTyped'
  BY <1>1, <1>2 DEF ChannelTyped, NoChannel
<1>4. AskedOnce'
  BY <1>1, <1>2 DEF AskedOnce
<1>5. ~dropped => AnswersInOrder'
  BY <1>1, <1>2 DEF AnswersInOrder
<1> QED
  BY <1>1, <1>2, <1>3, <1>4, <1>5

LEMMA HearsQuestion ==
  ASSUME CcInv, NEW p \in cables, Question(p) PROVE CcInv'
<1> USE DEF CcInv
<1>1. /\ p.to = "server" /\ p.kind = "request" /\ channel # NoChannel
      /\ tool' = tool /\ dropped' = dropped
      /\ p.data \in Questions /\ p.seqno \in Nat /\ p.seqno < tool.asked
      /\ tool.asked \in Nat /\ tool.asked < 256 /\ channel.rno \in Nat
  BY ConfigChannelAssumption DEF Question, AskedOnce, ToolTyped, ChannelTyped
<1>2. ToolTyped'
  BY <1>1 DEF ToolTyped
<1>3. ASSUME NEW e, cables' = cables \cup {ToTool("ack", p.seqno, e)}
      PROVE  \A c \in cables' : c \in cables \/ (c.to = "tool" /\ c.kind = "ack" /\ c.seqno \in Nat)
  BY <1>1, <1>3 DEF ToTool
<1>4. CASE IsRepeated(p) /\ UNCHANGED <<channel, agreed>> /\ cables' = cables \cup {ToTool("ack", p.seqno, 0)}
  <2>1. \A c \in cables' : c \in cables \/ (c.to = "tool" /\ c.kind = "ack" /\ c.seqno \in Nat)
    BY <1>3, <1>4
  <2>2. ChannelTyped'
    BY <1>1, <1>4 DEF ChannelTyped
  <2>3. AskedOnce'
    BY <1>1, <1>4, <2>1 DEF AskedOnce
  <2>4. ~dropped => AnswersInOrder'
    BY <1>1, <1>4, <2>1 DEF AnswersInOrder
  <2> QED
    BY <1>1, <1>2, <2>2, <2>3, <2>4
<1>5. CASE /\ IsNext(p) /\ ~IsRepeated(p)
           /\ cables' = cables \cup {ToTool("ack", p.seqno, StatusOf(p.data))}
           /\ channel' = [channel EXCEPT !.rno = Following(@),
                            !.out = IF StatusOf(p.data) = 0 THEN Append(@, AnswerTo(p.data)) ELSE @]
           /\ agreed' = IF StatusOf(p.data) = 0 THEN Append(agreed, p.data) ELSE agreed
  <2>1. \A c \in cables' : c \in cables \/ (c.to = "tool" /\ c.kind = "ack" /\ c.seqno \in Nat)
    BY <1>3, <1>5
  <2>2. channel.rno = p.seqno /\ Following(channel.rno) = channel.rno + 1
    BY <1>1, <1>5, NumbersFollow DEF IsNext
  <2>3. /\ channel'.rno = channel.rno + 1 /\ channel'.sno = channel.sno /\ channel'.state = channel.state
        /\ channel'.type = 2
        /\ channel'.out = IF StatusOf(p.data) = 0 THEN Append(channel.out, AnswerTo(p.data)) ELSE channel.out
        /\ channel' \in [type : Nat, sno : Nat, rno : Nat, state : Nat, out : Seq(AnswersOf)]
    <3>1. AnswerTo(p.data) \in AnswersOf
      BY <1>1 DEF AnswersOf
    <3> DEFINE o == IF StatusOf(p.data) = 0 THEN Append(channel.out, AnswerTo(p.data)) ELSE channel.out
    <3>2. channel.out \in Seq(AnswersOf) /\ channel \in [type : Nat, sno : Nat, rno : Nat, state : Nat, out : Seq(AnswersOf)]
          /\ channel.type = 2
      BY <1>1 DEF ChannelTyped
    <3> HIDE DEF AnswersOf
    <3>3. o \in Seq(AnswersOf)
      BY <3>1, <3>2
    <3>4. channel' = [channel EXCEPT !.rno = Following(channel.rno), !.out = o]
      BY <1>5
    <3> HIDE DEF o
    <3>5. channel' = [channel EXCEPT !.rno = channel.rno + 1, !.out = o]
      BY <2>2, <3>4
    <3>6. /\ channel'.rno = channel.rno + 1 /\ channel'.sno = channel.sno /\ channel'.state = channel.state
          /\ channel'.type = 2 /\ channel'.out = o
          /\ channel' \in [type : Nat, sno : Nat, rno : Nat, state : Nat, out : Seq(AnswersOf)]
      <4> DEFINE C == [type : Nat, sno : Nat, rno : Nat, state : Nat, out : Seq(AnswersOf)]
                 c1 == [channel EXCEPT !.rno = channel.rno + 1]
      <4>1. /\ c1 \in C /\ c1.rno = channel.rno + 1 /\ c1.sno = channel.sno
            /\ c1.state = channel.state /\ c1.type = 2
        BY <1>1, <3>2
      <4>2. channel' = [c1 EXCEPT !.out = o]
        BY <3>2, <3>5
      <4> HIDE DEF c1
      <4> QED
        BY <3>3, <4>1, <4>2
    <3> QED
      BY <3>6 DEF o
  <2>4. channel' # NoChannel
    BY <2>3 DEF NoChannel
  <2>5. ChannelTyped'
    <3>1. channel.out \in Seq(AnswersOf) /\ (channel.state # 0 => channel.out # <<>>) /\ ~tool.gone
      BY <1>1 DEF ChannelTyped
    <3>2. channel.out # <<>> => Append(channel.out, AnswerTo(p.data)) # <<>>
      BY <3>1
    <3> QED
      BY <1>1, <2>3, <2>4, <3>1, <3>2 DEF ChannelTyped
  <2>6. AskedOnce'
    <3>1. \A c \in cables' :
            /\ c.seqno \in Nat
            /\ c.to = "server" /\ c.kind = "request" => c.data \in Questions /\ c.seqno < tool.asked
            /\ c.to = "tool" /\ c.kind # "ack" => c.data \in AnswersOf
      BY <2>1 DEF AskedOnce
    <3> DEFINE n == Len(agreed)
    <3>2. n \in Nat /\ n <= channel.rno /\ agreed \in Seq(Questions)
      BY <1>1 DEF AskedOnce
    <3>3. agreed' \in Seq(Questions) /\ Len(agreed') \in {n, n + 1}
      BY <1>1, <1>5, <3>2
    <3> HIDE DEF n
    <3>4. channel'.rno <= tool.asked /\ Len(agreed') <= channel'.rno /\ Len(agreed') <= tool.asked
      BY <1>1, <2>2, <2>3, <3>2, <3>3
    <3> QED
      BY <1>1, <2>3, <2>4, <3>1, <3>3, <3>4 DEF AskedOnce
  <2>7. ~dropped => AnswersInOrder'
    <3>1. CASE StatusOf(p.data) # 0
      BY <1>1, <1>5, <2>1, <2>3, <2>4, <3>1 DEF AnswersInOrder
    <3>2. CASE StatusOf(p.data) = 0
      <4>1. /\ agreed' = Append(agreed, p.data) /\ channel'.out = Append(channel.out, AnswerTo(p.data))
            /\ agreed \in Seq(Questions) /\ channel.out \in Seq(AnswersOf) /\ channel.sno \in Nat
            /\ tool.rno \in Nat /\ tool.got \in Seq(AnswersOf)
        BY <1>5, <2>3, <3>2 DEF AskedOnce, ChannelTyped, ToolTyped
      <4>2. /\ Len(agreed') = Len(agreed) + 1 /\ agreed'[Len(agreed) + 1] = p.data
            /\ \A i \in 1 .. Len(agreed) : agreed'[i] = agreed[i]
            /\ Len(channel'.out) = Len(channel.out) + 1
            /\ channel'.out[Len(channel.out) + 1] = AnswerTo(p.data)
            /\ \A i \in 1 .. Len(channel.out) : channel'.out[i] = channel.out[i]
            /\ Len(agreed) \in Nat /\ Len(channel.out) \in Nat
        BY <1>1, <4>1
      <4> DEFINE n == Len(agreed)
                 m == Len(channel.out)
      <4>3. ASSUME ~dropped
            PROVE  \A i \in 1 .. m + 1 : channel'.out[i] = AnswerTo(agreed'[channel.sno + i])
        <5>1. n = channel.sno + m /\ \A i \in 1 .. m : channel.out[i] = AnswerTo(agreed[channel.sno + i])
          BY <1>1, <4>3 DEF AnswersInOrder
        <5>2. n \in Nat /\ m \in Nat /\ channel.sno \in Nat
          BY <4>1, <4>2
        <5>3. /\ \A i \in 1 .. n : agreed'[i] = agreed[i]
              /\ \A i \in 1 .. m : channel'.out[i] = channel.out[i]
              /\ agreed'[n + 1] = p.data /\ channel'.out[m + 1] = AnswerTo(p.data)
          BY <4>2
        <5> HIDE DEF n, m
        <5>4. ASSUME NEW i \in 1 .. m PROVE channel'.out[i] = AnswerTo(agreed'[channel.sno + i])
          <6>1. channel.sno + i \in 1 .. n
            BY <5>1, <5>2
          <6> QED
            BY <5>1, <5>3, <6>1
        <5> QED
          BY <5>1, <5>2, <5>3, <5>4
      <4>4. ~dropped =>
              /\ Len(agreed') = channel'.sno + Len(channel'.out)
              /\ tool.rno = Len(tool.got) /\ Len(tool.got) <= Len(agreed')
              /\ \A i \in 1 .. Len(tool.got) : tool.got[i] = AnswerTo(agreed'[i])
              /\ channel'.sno <= tool.rno /\ tool.rno <= channel'.sno + 1
        <5> SUFFICES ASSUME ~dropped
              PROVE  /\ Len(agreed') = channel'.sno + Len(channel'.out)
                     /\ tool.rno = Len(tool.got) /\ Len(tool.got) <= Len(agreed')
                     /\ \A i \in 1 .. Len(tool.got) : tool.got[i] = AnswerTo(agreed'[i])
                     /\ channel'.sno <= tool.rno /\ tool.rno <= channel'.sno + 1
          OBVIOUS
        <5> DEFINE g == Len(tool.got)
        <5>1. /\ n = channel.sno + m /\ tool.rno = g /\ g <= n
              /\ channel.sno <= tool.rno /\ tool.rno <= channel.sno + 1
              /\ \A i \in 1 .. g : tool.got[i] = AnswerTo(agreed[i])
          BY <1>1 DEF AnswersInOrder
        <5>2. /\ Len(agreed') = n + 1 /\ Len(channel'.out) = m + 1 /\ channel'.sno = channel.sno
              /\ \A i \in 1 .. n : agreed'[i] = agreed[i]
              /\ n \in Nat /\ m \in Nat /\ g \in Nat /\ channel.sno \in Nat
          BY <2>3, <4>1, <4>2
        <5> HIDE DEF n, m, g
        <5>3. \A i \in 1 .. g : tool.got[i] = AnswerTo(agreed'[i])
          <6> SUFFICES ASSUME NEW i \in 1 .. g PROVE tool.got[i] = AnswerTo(agreed'[i])
            OBVIOUS
          <6>1. i \in 1 .. n /\ tool.got[i] = AnswerTo(agreed[i])
            BY <5>1, <5>2
          <6> QED
            BY <5>2, <6>1
        <5>4. /\ Len(agreed') = channel'.sno + Len(channel'.out)
              /\ tool.rno = g /\ g <= Len(agreed')
              /\ channel'.sno <= tool.rno /\ tool.rno <= channel'.sno + 1
          BY <5>1, <5>2
        <5> QED
          BY <5>3, <5>4 DEF g
      <4>5. ~dropped => \A c \in cables' :
              /\ c.to = "tool" /\ c.kind # "ack" =>
                   /\ c.seqno < Len(agreed') /\ c.data = AnswerTo(agreed'[c.seqno + 1])
                   /\ channel' # NoChannel => c.seqno <= channel'.sno
              /\ c.to = "server" /\ c.kind = "ack" => c.seqno < tool.rno
        <5> SUFFICES ASSUME ~dropped, NEW c \in cables
              PROVE /\ c.to = "tool" /\ c.kind # "ack" =>
                         /\ c.seqno < Len(agreed') /\ c.data = AnswerTo(agreed'[c.seqno + 1])
                         /\ channel' # NoChannel => c.seqno <= channel'.sno
                    /\ c.to = "server" /\ c.kind = "ack" => c.seqno < tool.rno
          BY <2>1
        <5>1. c.seqno \in Nat
          BY DEF AskedOnce
        <5>2. CASE c.to = "tool" /\ c.kind # "ack"
          <6>1. /\ c.seqno < n /\ c.data = AnswerTo(agreed[c.seqno + 1]) /\ c.seqno <= channel.sno
            BY <1>1, <5>2 DEF AnswersInOrder
          <6>2. /\ n \in Nat /\ Len(agreed') = n + 1 /\ channel'.sno = channel.sno
                /\ \A i \in 1 .. n : agreed'[i] = agreed[i]
            BY <2>3, <4>2
          <6> HIDE DEF n
          <6>3. c.seqno + 1 \in 1 .. n
            BY <5>1, <6>1, <6>2
          <6>4. c.seqno < Len(agreed') /\ c.data = AnswerTo(agreed'[c.seqno + 1]) /\ c.seqno <= channel'.sno
            BY <5>1, <6>1, <6>2, <6>3
          <6> QED
            BY <5>2, <6>4
        <5>3. c.to = "server" /\ c.kind = "ack" => c.seqno < tool.rno
          BY DEF AnswersInOrder
        <5> QED
          BY <5>2, <5>3
      <4> HIDE DEF n, m
      <4> QED
        BY <1>1, <2>3, <4>2, <4>3, <4>4, <4>5 DEF AnswersInOrder, n, m
    <3> QED
      BY <3>1, <3>2
  <2> QED
    BY <1>1, <1>2, <2>5, <2>6, <2>7
<1> QED
  BY <1>4, <1>5 DEF Question

(* The first of a sequence goes.                                           *)
LEMMA TailOf ==
  ASSUME NEW S, NEW s \in Seq(S), s # <<>>
  PROVE  /\ Len(s) \in Nat \ {0} /\ Tail(s) \in Seq(S) /\ Len(Tail(s)) = Len(s) - 1
         /\ Head(s) = s[1] /\ Head(s) \in S
         /\ \A i \in 1 .. Len(s) - 1 : Tail(s)[i] = s[i + 1]
OBVIOUS

LEMMA HearsAcknowledgement ==
  ASSUME CcInv, NEW p \in cables, Acknowledged(p) PROVE CcInv'
<1> USE DEF CcInv
<1>1. /\ p.to = "server" /\ p.kind = "ack" /\ channel # NoChannel
      /\ channel.sno = p.seqno /\ channel.state # 0
      /\ channel' = [channel EXCEPT !.sno = Following(@), !.state = 0, !.out = Tail(@)]
      /\ tool' = tool /\ cables' = cables /\ agreed' = agreed /\ dropped' = dropped
  BY DEF Acknowledged
<1>2. /\ channel \in [type : Nat, sno : Nat, rno : Nat, state : Nat, out : Seq(AnswersOf)]
      /\ channel.type = 2 /\ channel.out # <<>> /\ ~tool.gone /\ tool.rno \in Nat
  BY <1>1 DEF ChannelTyped, ToolTyped
<1>3. Tail(channel.out) \in Seq(AnswersOf) /\ Following(channel.sno) \in Nat
  BY <1>2, TailOf, NumbersFollow
<1>4. /\ channel'.rno = channel.rno /\ channel'.sno = Following(channel.sno) /\ channel'.state = 0
      /\ channel'.type = 2 /\ channel'.out = Tail(channel.out)
      /\ channel' \in [type : Nat, sno : Nat, rno : Nat, state : Nat, out : Seq(AnswersOf)]
  <2> DEFINE t == Tail(channel.out)
             f == Following(channel.sno)
             C == [type : Nat, sno : Nat, rno : Nat, state : Nat, out : Seq(AnswersOf)]
             c1 == [channel EXCEPT !.sno = f]
             c2 == [c1 EXCEPT !.state = 0]
  <2>1. channel' = [channel EXCEPT !.sno = f, !.state = 0, !.out = t]
    BY <1>1
  <2>2. t \in Seq(AnswersOf) /\ f \in Nat
    BY <1>3
  <2> HIDE DEF t, f
  <2>3. c1 \in C /\ c1.sno = f /\ c1.rno = channel.rno /\ c1.out = channel.out /\ c1.type = 2
    BY <1>2, <2>2
  <2>4. channel' = [c2 EXCEPT !.out = t]
    BY <1>2, <2>1
  <2> HIDE DEF c1
  <2>5. c2 \in C /\ c2.sno = f /\ c2.rno = channel.rno /\ c2.out = channel.out /\ c2.type = 2 /\ c2.state = 0
    BY <2>3
  <2> HIDE DEF c2
  <2>6. /\ channel' \in C /\ channel'.sno = f /\ channel'.rno = channel.rno /\ channel'.type = 2
        /\ channel'.state = 0 /\ channel'.out = t
    BY <2>2, <2>4, <2>5
  <2> QED
    BY <2>6 DEF t, f
<1>5. channel' # NoChannel
  BY <1>4 DEF NoChannel
<1>6. ToolTyped'
  BY <1>1 DEF ToolTyped
<1>7. ChannelTyped'
  BY <1>1, <1>2, <1>4, <1>5 DEF ChannelTyped
<1>8. AskedOnce'
  BY <1>1, <1>4, <1>5 DEF AskedOnce
<1>9. ASSUME ~dropped PROVE AnswersInOrder'
  <2> DEFINE n == Len(agreed)
             m == Len(channel.out)
             s == channel.sno
  <2>1. /\ p.seqno < tool.rno /\ s <= tool.rno /\ tool.rno <= s + 1 /\ n = s + m
        /\ tool.rno = Len(tool.got) /\ Len(tool.got) <= n
        /\ \A i \in 1 .. m : channel.out[i] = AnswerTo(agreed[s + i])
    BY <1>1, <1>9 DEF AnswersInOrder
  <2>2. tool.asked < 256 /\ n <= tool.asked /\ tool.asked \in Nat /\ s \in Nat /\ n \in Nat
    BY <1>2, ConfigChannelAssumption DEF AskedOnce, ToolTyped
  <2>3. /\ m \in Nat \ {0} /\ Len(Tail(channel.out)) = m - 1
        /\ \A i \in 1 .. m - 1 : Tail(channel.out)[i] = channel.out[i + 1]
    BY <1>2, TailOf
  <2>4. p.seqno = s
    BY <1>1
  <2> HIDE DEF n, m, s
  <2>5. tool.rno = s + 1 /\ s < 255 /\ n = (s + 1) + (m - 1)
    BY <1>2, <2>1, <2>2, <2>3, <2>4
  <2>6. channel'.sno = s + 1 /\ Len(channel'.out) = m - 1
    BY <1>4, <2>2, <2>3, <2>5, NumbersFollow DEF s
  <2>7. ASSUME NEW i \in 1 .. m - 1 PROVE channel'.out[i] = AnswerTo(agreed[s + 1 + i])
    <3>1. channel'.out[i] = channel.out[i + 1] /\ i + 1 \in 1 .. m
      BY <1>4, <2>3
    <3>2. channel.out[i + 1] = AnswerTo(agreed[s + (i + 1)])
      BY <2>1, <3>1
    <3>3. s + (i + 1) = s + 1 + i
      BY <2>2
    <3> QED
      BY <3>1, <3>2, <3>3
  <2>8. \A c \in cables :
       /\ c.to = "tool" /\ c.kind # "ack" =>
            /\ c.seqno < n /\ c.data = AnswerTo(agreed[c.seqno + 1]) /\ c.seqno <= s + 1
       /\ c.to = "server" /\ c.kind = "ack" => c.seqno < tool.rno
    BY <1>1, <1>9, <2>2 DEF AnswersInOrder, AskedOnce, n, s
  <2>9. \A i \in 1 .. Len(tool.got) : tool.got[i] = AnswerTo(agreed[i])
    BY <1>9 DEF AnswersInOrder
  <2> QED
    BY <1>1, <2>1, <2>2, <2>5, <2>6, <2>7, <2>8, <2>9 DEF AnswersInOrder, n
<1> QED
  BY <1>1, <1>6, <1>7, <1>8, <1>9

LEMMA SendsAnswer == CcInv /\ Transmission => CcInv'
<1> SUFFICES ASSUME CcInv, Transmission PROVE CcInv'
  OBVIOUS
<1> USE DEF CcInv
<1>1. channel.out # <<>> /\ tool' = tool /\ agreed' = agreed
  BY DEF Transmission
<1>2. /\ channel \in [type : Nat, sno : Nat, rno : Nat, state : Nat, out : Seq(AnswersOf)]
      /\ channel # NoChannel /\ channel.type = 2 /\ ~tool.gone /\ tool.rno \in Nat
  BY <1>1 DEF ChannelTyped, ToolTyped, NoChannel
<1>3. ToolTyped'
  BY <1>1 DEF ToolTyped
<1>4. CASE channel.state = Attempts
  <2>1. channel' = [channel EXCEPT !.out = Tail(@), !.state = 0] /\ dropped' /\ cables' = cables
    BY <1>4 DEF Transmission
  <2>2. Tail(channel.out) \in Seq(AnswersOf)
    BY <1>1, <1>2, TailOf
  <2> DEFINE t == Tail(channel.out)
             C == [type : Nat, sno : Nat, rno : Nat, state : Nat, out : Seq(AnswersOf)]
             c1 == [channel EXCEPT !.out = t]
  <2>3. channel' = [c1 EXCEPT !.state = 0]
    BY <1>2, <2>1
  <2> HIDE DEF t
  <2>4. c1 \in C /\ c1.rno = channel.rno /\ c1.type = 2
    BY <1>2, <2>2 DEF t
  <2> HIDE DEF c1
  <2>5. channel' \in C /\ channel'.rno = channel.rno /\ channel'.type = 2 /\ channel'.state = 0
    BY <2>3, <2>4
  <2>6. channel' # NoChannel
    BY <2>5 DEF NoChannel
  <2>7. ChannelTyped'
    BY <1>1, <1>2, <2>5, <2>6 DEF ChannelTyped
  <2>8. AskedOnce'
    BY <1>1, <1>2, <2>1, <2>5, <2>6 DEF AskedOnce
  <2> QED
    BY <1>3, <2>1, <2>7, <2>8
<1>5. CASE channel.state # Attempts
  <2>1. /\ channel' = [channel EXCEPT !.state = @ + 1] /\ dropped' = dropped
        /\ cables' = cables \cup {ToTool("request", channel.sno, Head(channel.out))}
    BY <1>5 DEF Transmission
  <2>2. /\ channel' \in [type : Nat, sno : Nat, rno : Nat, state : Nat, out : Seq(AnswersOf)]
        /\ channel'.sno = channel.sno /\ channel'.rno = channel.rno /\ channel'.type = 2
        /\ channel'.out = channel.out
    BY <1>2, <2>1
  <2>3. channel' # NoChannel
    BY <2>2 DEF NoChannel
  <2>4. ChannelTyped'
    BY <1>1, <1>2, <2>2, <2>3 DEF ChannelTyped
  <2>5. \A c \in cables' : c \in cables \/ (/\ c.to = "tool" /\ c.kind = "request" /\ c.seqno = channel.sno
                                          /\ c.data = Head(channel.out))
    BY <2>1 DEF ToTool
  <2>6. AskedOnce'
    <3>1. Head(channel.out) \in AnswersOf /\ channel.sno \in Nat
      BY <1>1, <1>2, TailOf
    <3> QED
      BY <1>1, <1>2, <2>2, <2>3, <2>5, <3>1 DEF AskedOnce
  <2>7. ASSUME ~dropped PROVE AnswersInOrder'
    <3> DEFINE n == Len(agreed)
               m == Len(channel.out)
               s == channel.sno
    <3>1. m \in Nat \ {0} /\ Head(channel.out) = channel.out[1] /\ s \in Nat
      BY <1>1, <1>2, TailOf
    <3>2. n = s + m /\ \A i \in 1 .. m : channel.out[i] = AnswerTo(agreed[s + i])
      BY <1>2, <2>7 DEF AnswersInOrder
    <3> HIDE DEF n, m, s
    <3>3. s < n /\ Head(channel.out) = AnswerTo(agreed[s + 1])
      BY <3>1, <3>2
    <3>4. s < Len(agreed) /\ Head(channel.out) = AnswerTo(agreed[channel.sno + 1]) /\ channel.sno <= channel.sno
          /\ channel.sno < Len(agreed)
      BY <1>2, <3>3 DEF n, s
    <3> QED
      BY <1>1, <1>2, <2>2, <2>3, <2>5, <2>7, <3>4 DEF AnswersInOrder
  <2> QED
    BY <1>3, <2>1, <2>4, <2>6, <2>7
<1> QED
  BY <1>4, <1>5

LEMMA AsksQuestion ==
  ASSUME CcInv, NEW q \in Questions, PutQuestion(q) PROVE CcInv'
<1> USE DEF CcInv
<1>1. /\ channel # NoChannel /\ ~tool.gone /\ tool.open = NoQuestion /\ tool.asked < MaxQuestions
      /\ tool' = [tool EXCEPT !.open = q, !.asked = @ + 1]
      /\ cables' = cables \cup {ToServer("request", tool.sno, q)}
      /\ channel' = channel /\ agreed' = agreed /\ dropped' = dropped
  BY DEF PutQuestion
<1>2. /\ tool.asked \in Nat /\ tool.sno \in Nat /\ tool.sno <= tool.asked /\ MaxQuestions \in Nat
      /\ Len(agreed) <= tool.asked /\ channel.rno <= tool.asked /\ Len(agreed) \in Nat /\ channel.rno \in Nat
  BY <1>1, ConfigChannelAssumption DEF AskedOnce, ToolTyped, ChannelTyped
<1>3. /\ tool'.open = q /\ tool'.asked = tool.asked + 1 /\ tool'.sno = tool.sno /\ tool'.rno = tool.rno
      /\ tool'.got = tool.got /\ tool'.gone = tool.gone /\ ToolTyped'
  <2> DEFINE C == [sno : Nat, rno : Nat, open : Questions \cup {NoQuestion}, asked : Nat,
                   got : Seq(AnswersOf), gone : BOOLEAN]
             c1 == [tool EXCEPT !.open = q]
  <2>1. tool \in C /\ tool' = [c1 EXCEPT !.asked = tool.asked + 1]
    BY <1>1 DEF ToolTyped
  <2>2. /\ c1 \in C /\ c1.open = q /\ c1.sno = tool.sno /\ c1.rno = tool.rno /\ c1.got = tool.got
        /\ c1.gone = tool.gone
    BY <2>1
  <2> HIDE DEF c1
  <2>3. /\ tool' \in C /\ tool'.open = q /\ tool'.asked = tool.asked + 1 /\ tool'.sno = tool.sno
        /\ tool'.rno = tool.rno /\ tool'.got = tool.got /\ tool'.gone = tool.gone
    BY <1>2, <2>1, <2>2
  <2> QED
    BY <2>3 DEF ToolTyped
<1>4. \A c \in cables' : c \in cables \/ (/\ c.to = "server" /\ c.kind = "request" /\ c.seqno = tool.sno
                                        /\ c.data = q)
  BY <1>1 DEF ToServer
<1>5. ChannelTyped'
  BY <1>1, <1>3 DEF ChannelTyped
<1>6. AskedOnce'
  <2>1. ASSUME NEW c \in cables'
        PROVE  /\ c.seqno \in Nat
               /\ c.to = "server" /\ c.kind = "request" => c.data \in Questions /\ c.seqno < tool'.asked
               /\ c.to = "tool" /\ c.kind # "ack" => c.data \in AnswersOf
    <3>1. CASE c \in cables
      BY <1>2, <1>3, <3>1 DEF AskedOnce
    <3>2. CASE c \notin cables
      BY <1>2, <1>3, <1>4, <3>2
    <3> QED
      BY <3>1, <3>2
  <2>2. /\ tool'.asked <= MaxQuestions /\ tool'.sno <= tool'.asked /\ tool'.sno < tool'.asked
        /\ Len(agreed') <= tool'.asked /\ channel'.rno <= tool'.asked
    BY <1>1, <1>2, <1>3
  <2> QED
    BY <1>1, <2>1, <2>2 DEF AskedOnce
<1>7. ~dropped => AnswersInOrder'
  BY <1>1, <1>3, <1>4 DEF AnswersInOrder
<1> QED
  BY <1>1, <1>3, <1>5, <1>6, <1>7

LEMMA AsksAgain == CcInv /\ PutAgain => CcInv'
<1> SUFFICES ASSUME CcInv, PutAgain PROVE CcInv'
  OBVIOUS
<1> USE DEF CcInv
<1>1. /\ tool.open # NoQuestion /\ ~tool.gone
      /\ cables' = cables \cup {ToServer("request", tool.sno, tool.open)}
      /\ channel' = channel /\ tool' = tool /\ agreed' = agreed /\ dropped' = dropped
  BY DEF PutAgain
<1>2. tool.open \in Questions /\ tool.sno \in Nat /\ tool.sno < tool.asked
  BY <1>1 DEF ToolTyped, AskedOnce
<1>3. channel # NoChannel
  BY <1>1 DEF AskedOnce
<1>4. \A c \in cables' : c \in cables \/ (/\ c.to = "server" /\ c.kind = "request" /\ c.seqno = tool.sno
                                        /\ c.data = tool.open)
  BY <1>1 DEF ToServer
<1>5. ToolTyped' /\ ChannelTyped'
  BY <1>1 DEF ToolTyped, ChannelTyped
<1>6. AskedOnce'
  BY <1>1, <1>2, <1>3, <1>4 DEF AskedOnce
<1>7. ~dropped => AnswersInOrder'
  BY <1>1, <1>4 DEF AnswersInOrder
<1> QED
  BY <1>1, <1>5, <1>6, <1>7

LEMMA ToolTakes ==
  ASSUME CcInv, NEW p \in cables, ToolHears(p) PROVE CcInv'
<1> USE DEF CcInv
<1>1. /\ p.to = "tool" /\ ~tool.gone /\ channel' = channel /\ agreed' = agreed /\ dropped' = dropped
      /\ channel # NoChannel /\ p.seqno \in Nat
  BY DEF ToolHears, AskedOnce
<1>2. /\ tool.asked \in Nat /\ tool.asked < 256 /\ tool.sno \in Nat /\ tool.rno \in Nat
      /\ tool.got \in Seq(AnswersOf) /\ Len(agreed) \in Nat /\ Len(agreed) <= tool.asked
      /\ tool \in [sno : Nat, rno : Nat, open : Questions \cup {NoQuestion}, asked : Nat,
                   got : Seq(AnswersOf), gone : BOOLEAN]
  BY ConfigChannelAssumption DEF AskedOnce, ToolTyped
<1>3. CASE p.kind = "ack"
  <2>1. /\ tool.open # NoQuestion /\ p.seqno = tool.sno /\ cables' = cables
        /\ tool' = [tool EXCEPT !.open = NoQuestion, !.sno = Following(@)]
    BY <1>3 DEF ToolHears
  <2>2. tool.sno < tool.asked /\ Following(tool.sno) = tool.sno + 1
    BY <1>2, <2>1, NumbersFollow DEF AskedOnce
  <2>3. /\ tool'.open = NoQuestion /\ tool'.asked = tool.asked /\ tool'.sno = tool.sno + 1
        /\ tool'.rno = tool.rno /\ tool'.got = tool.got /\ tool'.gone = tool.gone /\ ToolTyped'
    <3> DEFINE C == [sno : Nat, rno : Nat, open : Questions \cup {NoQuestion}, asked : Nat,
                     got : Seq(AnswersOf), gone : BOOLEAN]
               c1 == [tool EXCEPT !.open = NoQuestion]
    <3>1. tool' = [c1 EXCEPT !.sno = tool.sno + 1]
      BY <1>2, <2>1, <2>2
    <3>2. /\ c1 \in C /\ c1.open = NoQuestion /\ c1.sno = tool.sno /\ c1.rno = tool.rno
          /\ c1.got = tool.got /\ c1.gone = tool.gone /\ c1.asked = tool.asked
      BY <1>2
    <3> HIDE DEF c1
    <3>3. /\ tool' \in C /\ tool'.open = NoQuestion /\ tool'.asked = tool.asked
          /\ tool'.sno = tool.sno + 1 /\ tool'.rno = tool.rno /\ tool'.got = tool.got
          /\ tool'.gone = tool.gone
      BY <1>2, <3>1, <3>2
    <3> QED
      BY <3>3 DEF ToolTyped
  <2>4. ChannelTyped'
    BY <1>1, <2>3 DEF ChannelTyped
  <2>5. AskedOnce'
    BY <1>1, <1>2, <2>1, <2>2, <2>3 DEF AskedOnce
  <2>6. ~dropped => AnswersInOrder'
    BY <1>1, <2>1, <2>3 DEF AnswersInOrder
  <2> QED
    BY <1>1, <2>3, <2>4, <2>5, <2>6
<1>4. CASE p.kind # "ack"
  <2>1. /\ p.seqno = tool.rno \/ Following(p.seqno) = tool.rno
        /\ cables' = cables \cup {ToServer("ack", p.seqno, 0)}
        /\ tool' = IF p.seqno = tool.rno
                   THEN [tool EXCEPT !.rno = Following(@), !.got = Append(@, p.data)] ELSE tool
    BY <1>4 DEF ToolHears
  <2>2. \A c \in cables' : c \in cables \/ (c.to = "server" /\ c.kind = "ack" /\ c.seqno = p.seqno)
    BY <2>1 DEF ToServer
  <2>3. CASE p.seqno # tool.rno
    <3>1. tool' = tool /\ Following(p.seqno) = tool.rno
      BY <2>1, <2>3
    <3>2. ToolTyped' /\ ChannelTyped' /\ AskedOnce'
      BY <1>1, <2>2, <3>1 DEF ToolTyped, ChannelTyped, AskedOnce
    <3>3. ASSUME ~dropped PROVE AnswersInOrder'
      <4>1. p.seqno < Len(agreed)
        BY <1>1, <1>4, <3>3 DEF AnswersInOrder
      <4>2. Following(p.seqno) = p.seqno + 1
        <5> DEFINE n == Len(agreed)
                   x == p.seqno
        <5>1. x \in Nat /\ x < n /\ n <= tool.asked /\ n \in Nat
          BY <1>1, <1>2, <4>1
        <5> HIDE DEF n, x
        <5>2. x < 255
          BY <1>2, <5>1
        <5> QED
          BY <5>1, <5>2, NumbersFollow DEF x
      <4>3. p.seqno < tool.rno
        BY <1>1, <1>2, <3>1, <4>2
      <4> QED
        BY <1>1, <2>2, <3>1, <3>3, <4>3 DEF AnswersInOrder
    <3> QED
      BY <1>1, <3>2, <3>3
  <2>4. CASE p.seqno = tool.rno
    <3> DEFINE C == [sno : Nat, rno : Nat, open : Questions \cup {NoQuestion}, asked : Nat,
                     got : Seq(AnswersOf), gone : BOOLEAN]
               f == Following(tool.rno)
               g == Append(tool.got, p.data)
               c1 == [tool EXCEPT !.rno = f]
    <3>1. p.data \in AnswersOf /\ f \in Nat
      BY <1>1, <1>2, <1>4, NumbersFollow DEF AskedOnce
    <3>2. g \in Seq(AnswersOf) /\ Len(g) = Len(tool.got) + 1 /\ Len(tool.got) \in Nat
          /\ g[Len(tool.got) + 1] = p.data /\ \A i \in 1 .. Len(tool.got) : g[i] = tool.got[i]
      <4> HIDE DEF AnswersOf
      <4> QED
        BY <1>2, <3>1
    <3>3. tool' = [c1 EXCEPT !.got = g]
      BY <1>2, <2>1, <2>4
    <3> HIDE DEF g, f
    <3>4. /\ c1 \in C /\ c1.open = tool.open /\ c1.sno = tool.sno /\ c1.rno = f
          /\ c1.gone = tool.gone /\ c1.asked = tool.asked
      BY <1>2, <3>1
    <3> HIDE DEF c1
    <3>5. /\ tool' \in C /\ tool'.open = tool.open /\ tool'.asked = tool.asked
          /\ tool'.sno = tool.sno /\ tool'.rno = f /\ tool'.got = g
          /\ tool'.gone = tool.gone
      BY <3>2, <3>3, <3>4
    <3>6. ToolTyped'
      BY <3>5 DEF ToolTyped
    <3>7. ChannelTyped'
      BY <1>1, <3>5 DEF ChannelTyped
    <3>8. AskedOnce'
      BY <1>1, <2>2, <3>5 DEF AskedOnce
    <3>9. ASSUME ~dropped PROVE AnswersInOrder'
      <4> DEFINE n == Len(agreed)
                 m == Len(tool.got)
                 s == channel.sno
      <4>1. /\ p.seqno < n /\ p.data = AnswerTo(agreed[p.seqno + 1]) /\ p.seqno <= s
            /\ tool.rno = m /\ s <= m /\ n = s + Len(channel.out)
            /\ \A i \in 1 .. m : tool.got[i] = AnswerTo(agreed[i])
            /\ \A i \in 1 .. Len(channel.out) : channel.out[i] = AnswerTo(agreed[s + i])
        BY <1>1, <1>4, <3>9 DEF AnswersInOrder
      <4>2. n \in Nat /\ m \in Nat /\ s \in Nat /\ n < 256
        BY <1>2, <3>2 DEF ChannelTyped
      <4>3. /\ Len(g) = m + 1 /\ g[m + 1] = p.data /\ \A i \in 1 .. m : g[i] = tool.got[i]
        BY <3>2
      <4>4. \A c \in cables :
              /\ c.to = "tool" /\ c.kind # "ack" =>
                   /\ c.seqno < n /\ c.data = AnswerTo(agreed[c.seqno + 1]) /\ c.seqno <= s
              /\ c.to = "server" /\ c.kind = "ack" => c.seqno \in Nat /\ c.seqno < m
        BY <1>1, <3>9, <4>1 DEF AnswersInOrder, AskedOnce
      <4> HIDE DEF n, m, s
      <4>5. m < 255 /\ m < n /\ m = s /\ p.seqno = m
        BY <2>4, <4>1, <4>2
      <4>6. f = m + 1
        BY <4>1, <4>2, <4>5, NumbersFollow DEF f
      <4>7. ASSUME NEW i \in 1 .. m + 1 PROVE g[i] = AnswerTo(agreed[i])
        <5>1. CASE i \in 1 .. m
          BY <4>1, <4>3, <5>1
        <5>2. CASE i = m + 1
          BY <4>1, <4>3, <4>5, <5>2
        <5> QED
          BY <4>2, <5>1, <5>2
      <4>8. \A c \in cables' :
              /\ c.to = "tool" /\ c.kind # "ack" =>
                   /\ c.seqno < n /\ c.data = AnswerTo(agreed[c.seqno + 1]) /\ c.seqno <= s
              /\ c.to = "server" /\ c.kind = "ack" => c.seqno < m + 1
        <5> SUFFICES ASSUME NEW c \in cables'
              PROVE /\ c.to = "tool" /\ c.kind # "ack" =>
                         /\ c.seqno < n /\ c.data = AnswerTo(agreed[c.seqno + 1]) /\ c.seqno <= s
                    /\ c.to = "server" /\ c.kind = "ack" => c.seqno < m + 1
          OBVIOUS
        <5>1. CASE c \in cables
          BY <4>2, <4>4, <5>1
        <5>2. CASE c.to = "server" /\ c.kind = "ack" /\ c.seqno = p.seqno
          BY <4>2, <4>5, <5>2
        <5> QED
          BY <2>2, <5>1, <5>2
      <4>9. /\ f = Len(g) /\ Len(g) <= n /\ s <= f /\ f <= s + 1
            /\ \A i \in 1 .. Len(g) : g[i] = AnswerTo(agreed[i])
        BY <4>2, <4>3, <4>5, <4>6, <4>7
      <4> QED
        BY <1>1, <3>5, <4>1, <4>3, <4>6, <4>8, <4>9 DEF AnswersInOrder, n, s
    <3> QED
      BY <1>1, <3>6, <3>7, <3>8, <3>9
  <2> QED
    BY <2>3, <2>4
<1> QED
  BY <1>3, <1>4

LEMMA ChannelStep == CcInv /\ [ConfigChannelNext]_ccvars => CcInv'
<1>1. CcInv /\ UNCHANGED ccvars => CcInv'
  BY DEF CcInv, ccvars, ToolTyped, ChannelTyped, AskedOnce, AnswersInOrder
<1> QED
  BY <1>1, OpensChannel, ClosesChannel, HearsQuestion, HearsAcknowledgement, SendsAnswer,
     AsksQuestion, AsksAgain, ToolTakes
  DEF ConfigChannelNext

(* What the invariant says of the answers.                                 *)
LEMMA AnsweredByInv == CcInv => AnsweredOnce
<1> SUFFICES ASSUME CcInv, ~dropped PROVE
      /\ Len(tool.got) <= Len(agreed) /\ tool.got = SubSeq(AnswersDue, 1, Len(tool.got))
      /\ channel # NoChannel =>
           \E k \in {0, 1} : AnswersDue = tool.got \o SubSeq(channel.out, 1 + k, Len(channel.out))
  BY DEF AnsweredOnce
<1> DEFINE n == Len(agreed)
           d == Len(tool.got)
           Due == AnswersDue
<1>1. /\ tool.got \in Seq(AnswersOf) /\ agreed \in Seq(Questions) /\ n \in Nat /\ d \in Nat /\ d <= n
      /\ \A i \in 1 .. d : tool.got[i] = AnswerTo(agreed[i])
      /\ tool.rno = d
  BY DEF CcInv, ToolTyped, AskedOnce, AnswersInOrder
<1>2. /\ Due \in Seq(AnswersOf) /\ Len(Due) = n
      /\ \A i \in 1 .. n : Due[i] = AnswerTo(agreed[i])
  <2>1. Due = [i \in 1 .. n |-> AnswerTo(agreed[i])]
    BY <1>1 DEF AnswersDue
  <2>2. \A i \in 1 .. n : AnswerTo(agreed[i]) \in AnswersOf
    BY <1>1 DEF AnswersOf
  <2> HIDE DEF Due, n
  <2>3. Due \in Seq(AnswersOf) /\ Len(Due) = n
    <3> HIDE DEF AnswersOf
    <3> QED
      BY <1>1, <2>1, <2>2
  <2> QED
    BY <2>1, <2>3
<1> HIDE DEF Due, n
<1>3. tool.got = SubSeq(Due, 1, d)
  <2> DEFINE p == SubSeq(Due, 1, d)
  <2>1. /\ p \in Seq(AnswersOf) /\ Len(p) = d /\ \A i \in 1 .. d : p[i] = Due[i]
    <3> HIDE DEF AnswersOf
    <3> QED
      BY <1>1, <1>2
  <2> HIDE DEF p
  <2>2. \A i \in 1 .. d : p[i] = tool.got[i]
    BY <1>1, <1>2, <2>1
  <2>3. p = tool.got
    <3> HIDE DEF AnswersOf
    <3> QED
      BY <1>1, <2>1, <2>2
  <2> QED
    BY <2>3 DEF p
<1>4. ASSUME channel # NoChannel
      PROVE  \E k \in {0, 1} : Due = tool.got \o SubSeq(channel.out, 1 + k, Len(channel.out))
  <2> DEFINE o == channel.out
             m == Len(o)
             s == channel.sno
             k == d - s
             t == SubSeq(o, 1 + k, m)
             w == tool.got \o t
  <2>1. /\ s <= d /\ d <= s + 1 /\ n = s + m /\ \A i \in 1 .. m : o[i] = AnswerTo(agreed[s + i])
        /\ o \in Seq(AnswersOf) /\ s \in Nat /\ m \in Nat
    BY <1>1, <1>4 DEF CcInv, AnswersInOrder, ChannelTyped, n
  <2> HIDE DEF m, o, s, d
  <2>2. k \in {0, 1} /\ k <= m /\ m - k = n - d /\ m - k \in Nat /\ k \in Nat
    BY <1>1, <2>1
  <2> HIDE DEF k
  <2>3. t \in Seq(AnswersOf) /\ Len(t) = m - k /\ \A i \in 1 .. m - k : t[i] = o[k + i]
    <3> HIDE DEF AnswersOf
    <3>1. m = Len(o)
      BY DEF m
    <3> QED
      BY <2>1, <2>2, <3>1
  <2> HIDE DEF t
  <2>4. /\ w \in Seq(AnswersOf) /\ Len(w) = n
        /\ \A i \in 1 .. d : w[i] = tool.got[i]
        /\ \A i \in d + 1 .. n : w[i] = t[i - d]
    <3> HIDE DEF AnswersOf
    <3> DEFINE a == tool.got
    <3>1. d = Len(a) /\ a \in Seq(AnswersOf) /\ d \in Nat /\ n \in Nat
      BY <1>1 DEF d
    <3>2. t \in Seq(AnswersOf) /\ Len(t) = n - d /\ n - d \in Nat
      BY <2>2, <2>3
    <3> HIDE DEF a
    <3>3. /\ a \o t \in Seq(AnswersOf) /\ Len(a \o t) = Len(a) + Len(t)
          /\ \A i \in 1 .. Len(a) : (a \o t)[i] = a[i]
          /\ \A i \in Len(a) + 1 .. Len(a) + Len(t) : (a \o t)[i] = t[i - Len(a)]
      BY <3>1, <3>2
    <3>4. w = a \o t /\ Len(a) + Len(t) = n
      BY <3>1, <3>2 DEF w, a
    <3> QED
      BY <3>1, <3>3, <3>4 DEF a
  <2> HIDE DEF w
  <2>5. ASSUME NEW i \in 1 .. n PROVE w[i] = Due[i]
    <3>1. CASE i \in 1 .. d
      BY <1>1, <1>2, <2>4, <3>1
    <3>2. CASE i \in d + 1 .. n
      <4>1. i - d \in 1 .. m - k /\ w[i] = t[i - d]
        BY <1>1, <2>2, <2>4, <3>2
      <4>2. t[i - d] = o[k + (i - d)] /\ k + (i - d) = i - s /\ i - s \in 1 .. m
        BY <1>1, <2>1, <2>2, <2>3, <4>1 DEF k
      <4>3. o[i - s] = AnswerTo(agreed[s + (i - s)]) /\ s + (i - s) = i
        BY <2>1, <4>2
      <4> QED
        BY <1>2, <4>1, <4>2, <4>3
    <3> QED
      BY <1>1, <3>1, <3>2
  <2>6. Due = w
    <3> HIDE DEF AnswersOf
    <3> QED
      BY <1>1, <1>2, <2>4, <2>5
  <2> QED
    BY <2>2, <2>6 DEF w, t, o, m
<1> QED
  BY <1>1, <1>3, <1>4 DEF Due, n

(* AnsweredOnce: a question that was acknowledged is answered once and in  *)
(* order, whatever is lost, repeated or late (DEVICE_CONFIGURATION_REQUEST *)
(* and _ACK of eibnetserver.cpp).                                          *)
THEOREM QuestionsAnswered == ConfigChannelSpec => []AnsweredOnce
<1>1. ConfigChannelInit => CcInv
  BY ConfigChannelAssumption
  DEF ConfigChannelInit, CcInv, ToolTyped, ChannelTyped, AskedOnce, AnswersInOrder, NoChannel
<1> QED
  BY <1>1, ChannelStep, AnsweredByInv, PTL DEF ConfigChannelSpec

----------------------------------------------------------------------------
(* Ordered: a client gets what it is sent, in the order it was sent, from  *)
(* parts of the daemon that exist (client.cpp, layer4.cpp, eibd.cpp and    *)
(* the configuration channels of eibnetserver.cpp).                        *)
THEOREM ClientsServedInOrder ==
  ClientsSpec /\ ConnectionlessSpec /\ DaemonSpec /\ ConfigChannelSpec => []Ordered
<1>1. InStep /\ Delivered /\ PartsOutlast /\ AnsweredOnce => Ordered
  BY DEF Ordered
<1> QED
  BY <1>1, ClientsInStep, FramesDelivered, PartsStand, QuestionsAnswered, PTL

=============================================================================
