-------------------------- MODULE LiveUpdatesProofs --------------------------
(***************************************************************************)
(* What TLAPS proves about LiveUpdates, for any set of pages and           *)
(* confirmations, any size of the queues and the history, any replay and   *)
(* any number of events.                                                   *)
(***************************************************************************)
EXTENDS LiveUpdates, SequenceTheorems, TLAPS

(* The positions of the next k events, after n. *)
Events(n, k) == [i \in 1 .. k |-> n + i]

(* s holds the positions up to n, without a gap. *)
Block(s, n) ==
    /\ s \in Seq(Int)
    /\ Len(s) <= n
    /\ \A i \in 1 .. Len(s) : s[i] = n - Len(s) + i

(* What a page was given since it connected (h): a replay of r events that ends *)
(* where the connection began (b), and later events; d were dropped and q is    *)
(* what waits of the n events there are.                                        *)
Fits(h, q, b, d, n, r) ==
    /\ h \in Seq(Int) /\ Increasing(h)
    /\ r \in 0 .. Len(h)
    /\ \A i \in 1 .. r : h[i] = b - r + i
    /\ \A i \in r + 1 .. Len(h) : h[i] > b
    /\ \A i \in 1 .. Len(h) : h[i] <= n - Len(q)
    /\ Len(h) - r + Len(q) + d = n - b

LastOf(h, b) == IF h # <<>> /\ h[Len(h)] > b THEN h[Len(h)] ELSE b

(* The queue: events are missing before it only while it is full. *)
Waits(h, q, b, n) ==
    /\ Block(q, n) /\ Len(q) <= QueueSize
    /\ b + Len(q) <= n
    /\ LastOf(h, b) <= n - Len(q)
    /\ LastOf(h, b) = n - Len(q) \/ Len(q) = QueueSize

-----------------------------------------------------------------------------
(* Sequences of positions. *)
LEMMA BlockIs ==
  ASSUME NEW s, NEW n, Block(s, n)
  PROVE  /\ s \in Seq(Int) /\ Len(s) \in Nat /\ Len(s) <= n
         /\ \A i \in 1 .. Len(s) : s[i] = n - Len(s) + i
BY DEF Block

LEMMA BlockNewest ==
  ASSUME NEW s, NEW n \in Nat, Block(s, n), NEW k \in Nat
  PROVE  /\ Block(Newest(k, s), n)
         /\ Len(Newest(k, s)) = IF Len(s) <= k THEN Len(s) ELSE k
         /\ Len(Newest(k, s)) + Excess(k, s) = Len(s)
<1>1. PICK m : m = Len(s) /\ m \in Nat /\ m <= n
  BY BlockIs
<1>2. CASE m <= k
  BY <1>1, <1>2 DEF Newest, Excess
<1>3. CASE m > k
  <2>1. PICK a \in Int : a = m - k + 1
    BY <1>1
  <2>2. PICK t : t = SubSeq(s, a, m)
    OBVIOUS
  <2>3. \A i \in 1 .. m : s[i] \in Int /\ s[i] = n - m + i
    <3>1. s \in Seq(Int) /\ \A i \in 1 .. Len(s) : s[i] = n - Len(s) + i
      BY BlockIs
    <3> QED
      BY <1>1, <3>1
  <2>4. \A i \in a .. m : s[i] \in Int
    <3>1. \A i \in a .. m : i \in 1 .. m
      BY <1>1, <1>3, <2>1
    <3> QED
      BY <2>3, <3>1
  <2>5. /\ t \in Seq(Int) /\ Len(t) = IF a <= m THEN m - a + 1 ELSE 0
        /\ \A i \in 1 .. m - a + 1 : t[i] = s[a + i - 1]
    BY <1>1, <2>1, <2>2, <2>4, SubSeqProperties
  <2>6. m - a + 1 = k /\ Len(t) = k
    BY <1>1, <1>3, <2>1, <2>5
  <2>7. ASSUME NEW i \in 1 .. k PROVE t[i] = n - k + i
    <3>1. t[i] = s[a + i - 1]
      BY <2>5, <2>6
    <3>2. a + i - 1 \in 1 .. m /\ n - m + (a + i - 1) = n - k + i
      BY <1>1, <1>3, <2>1
    <3> QED
      BY <2>3, <3>1, <3>2
  <2>8. Newest(k, s) = t /\ Excess(k, s) = m - k
    BY <1>1, <1>3, <2>1, <2>2 DEF Newest, Excess
  <2>9. Block(t, n)
    <3>1. k <= n
      BY <1>1, <1>3
    <3> QED
      BY <2>5, <2>6, <2>7, <3>1 DEF Block
  <2> QED
    BY <1>1, <1>3, <2>6, <2>8, <2>9
<1> QED
  BY <1>1, <1>2, <1>3

LEMMA EventsAre ==
  ASSUME NEW n \in Nat, NEW k \in Nat
  PROVE  /\ Events(n, k) \in Seq(Int) /\ Len(Events(n, k)) = k
         /\ \A i \in 1 .. k : Events(n, k)[i] = n + i
<1>1. PICK e : e = Events(n, k)
  OBVIOUS
<1>2. e = [i \in 1 .. k |-> n + i]
  BY <1>1 DEF Events
<1>3. e \in Seq(Int) /\ Len(e) = k /\ \A i \in 1 .. k : e[i] = n + i
  BY <1>2
<1> QED
  BY <1>1, <1>3

LEMMA BlockExtended ==
  ASSUME NEW s, NEW n \in Nat, Block(s, n), NEW k \in Nat
  PROVE  Block(s \o Events(n, k), n + k) /\ Len(s \o Events(n, k)) = Len(s) + k
<1>1. PICK e \in Seq(Int) : /\ e = Events(n, k) /\ Len(e) = k
                            /\ \A i \in 1 .. k : e[i] = n + i
  BY EventsAre, Zenon
<1>2. PICK m : m = Len(s) /\ m \in Nat /\ m <= n
  BY BlockIs
<1>3. PICK t : t = s \o e
  OBVIOUS
<1>4. /\ t \in Seq(Int) /\ Len(t) = m + k
      /\ \A i \in 1 .. m + k : t[i] = IF i <= m THEN s[i] ELSE e[i - m]
  <2>1. s \in Seq(Int)
    BY BlockIs
  <2>2. /\ s \o e \in Seq(Int) /\ Len(s \o e) = Len(s) + Len(e)
        /\ \A i \in 1 .. Len(s) + Len(e) :
              (s \o e)[i] = IF i <= Len(s) THEN s[i] ELSE e[i - Len(s)]
    BY <1>1, <2>1, ConcatProperties, Zenon
  <2> QED
    BY <1>1, <1>2, <1>3, <2>2, Zenon
<1>5. ASSUME NEW i \in 1 .. m + k PROVE t[i] = n - m + i
  <2>1. CASE i <= m
    BY <1>2, <1>4, <2>1 DEF Block
  <2>2. CASE i > m
    <3>1. PICK j : j = i - m /\ j \in 1 .. k
      BY <1>2, <2>2
    <3>2. t[i] = e[j]
      BY <1>2, <1>4, <2>2, <3>1
    <3>3. e[j] = n + j
      BY <1>1, <3>1
    <3> QED
      BY <1>2, <3>1, <3>2, <3>3
  <2> QED
    BY <1>2, <2>1, <2>2
<1>6. Block(t, n + k)
  BY <1>2, <1>4, <1>5 DEF Block
<1> QED
  BY <1>1, <1>2, <1>3, <1>4, <1>6

LEMMA BlockTail ==
  ASSUME NEW s, NEW n \in Nat, Block(s, n), s # <<>>
  PROVE  /\ Block(Tail(s), n) /\ Len(Tail(s)) = Len(s) - 1 /\ Len(s) \in Nat \ {0}
         /\ Head(s) = n - Len(s) + 1
<1>1. s \in Seq(Int) /\ Len(s) \in Nat \ {0}
  BY EmptySeq DEF Block
<1>2. /\ Tail(s) \in Seq(Int) /\ Len(Tail(s)) = Len(s) - 1
      /\ \A i \in 1 .. Len(Tail(s)) : Tail(s)[i] = s[i + 1]
  BY <1>1, HeadTailProperties
<1>3. Head(s) = s[1]
  BY <1>1
<1>4. PICK t : t = Tail(s)
  OBVIOUS
<1>5. \A i \in 1 .. Len(t) : t[i] = n - Len(t) + i
  BY <1>1, <1>2, <1>4 DEF Block
<1> QED
  BY <1>1, <1>2, <1>3, <1>4, <1>5 DEF Block

LEMMA LastIsInt ==
  ASSUME NEW h \in Seq(Int), NEW b \in Int
  PROVE  LastOf(h, b) \in Int
<1>1. h # <<>> => Len(h) \in 1 .. Len(h)
  BY EmptySeq
<1> QED
  BY <1>1, ElementOfSeq DEF LastOf

(* offer: the queue takes k events, and drops old ones to make room. *)
LEMMA TakesEvents ==
  ASSUME NEW h, NEW q, NEW b \in Nat, NEW n \in Nat, Waits(h, q, b, n), h \in Seq(Int),
         NEW k \in Nat
  PROVE  /\ Waits(h, Newest(QueueSize, q \o Events(n, k)), b, n + k)
         /\ Len(Newest(QueueSize, q \o Events(n, k)))
                + Excess(QueueSize, q \o Events(n, k)) = Len(q) + k
         /\ Excess(QueueSize, q \o Events(n, k)) \in Nat
<1>0. /\ Block(q, n) /\ Len(q) <= QueueSize /\ b + Len(q) <= n
      /\ LastOf(h, b) <= n - Len(q)
      /\ LastOf(h, b) = n - Len(q) \/ Len(q) = QueueSize
  BY DEF Waits
<1>1. QueueSize \in Nat \ {0} /\ n + k \in Nat
  BY BusAssumption
<1>2. PICK t, p : t = q \o Events(n, k) /\ p = Newest(QueueSize, t)
  OBVIOUS
<1>3. PICK m : m = Len(q) /\ m \in Nat
  BY <1>0, BlockIs
<1>7. Block(t, n + k) /\ Len(t) = m + k
  BY <1>0, <1>2, <1>3, BlockExtended
<1>4. /\ Block(p, n + k) /\ Len(p) = (IF m + k <= QueueSize THEN m + k ELSE QueueSize)
      /\ Len(p) + Excess(QueueSize, t) = m + k
  <2>1. /\ Block(p, n + k) /\ Len(p) = (IF Len(t) <= QueueSize THEN Len(t) ELSE QueueSize)
        /\ Len(p) + Excess(QueueSize, t) = Len(t)
    <3>1. QueueSize \in Nat
      BY <1>1
    <3> QED
      BY <1>1, <1>2, <1>7, <3>1, BlockNewest, Zenon
  <2>2. Len(t) = m + k
    BY <1>7
  <2> QED
    BY <2>1, <2>2, Zenon
<1>5. Excess(QueueSize, t) \in Nat
  BY <1>1, <1>3, <1>7 DEF Excess
<1>6. LastOf(h, b) \in Int
  BY LastIsInt
<1>8. Waits(h, p, b, n + k)
  <2>1. PICK l \in Int, y \in Nat : l = LastOf(h, b) /\ y = Len(p)
    BY <1>1, <1>4, <1>6, BlockIs
  <2>2. /\ m <= QueueSize /\ b + m <= n /\ l <= n - m /\ (l = n - m \/ m = QueueSize)
        /\ y = (IF m + k <= QueueSize THEN m + k ELSE QueueSize)
    BY <1>0, <1>3, <1>4, <2>1
  <2>3. /\ y <= QueueSize /\ b + y <= n + k /\ l <= n + k - y
        /\ (l = n + k - y \/ y = QueueSize)
    <3>1. CASE m + k <= QueueSize
      BY <1>1, <1>3, <2>1, <2>2, <3>1
    <3>2. CASE ~(m + k <= QueueSize)
      BY <1>1, <1>3, <2>1, <2>2, <3>2
    <3> QED
      BY <3>1, <3>2
  <2>4. /\ Len(p) <= QueueSize /\ b + Len(p) <= n + k /\ LastOf(h, b) <= (n + k) - Len(p)
        /\ (LastOf(h, b) = (n + k) - Len(p) \/ Len(p) = QueueSize)
    BY <2>1, <2>3
  <2> QED
    BY <1>4, <2>4, Zenon DEF Waits
<1> QED
  BY <1>1, <1>2, <1>3, <1>4, <1>5, <1>8

LEMMA FitsStill ==
  ASSUME NEW h, NEW q, NEW b \in Nat, NEW d \in Nat, NEW n \in Nat, NEW r,
         Fits(h, q, b, d, n, r), NEW k \in Nat, NEW x \in Nat, NEW p,
         Len(q) \in Nat, Len(p) \in Nat, Len(p) + x = Len(q) + k
  PROVE  Fits(h, p, b, d + x, n + k, r)
<1>1. PICK y, z, m : /\ y = Len(q) /\ z = Len(p) /\ m = Len(h) /\ m \in Nat
                    /\ y \in Nat /\ z \in Nat /\ z + x = y + k
  BY LenProperties DEF Fits
<1>2. /\ r \in 0 .. m /\ m - r + y + d = n - b
      /\ \A i \in 1 .. m : h[i] \in Int /\ h[i] <= n - y
  BY <1>1 DEF Fits
<1>3. m - r + z + (d + x) = (n + k) - b
  BY <1>1, <1>2
<1>4. ASSUME NEW i \in 1 .. m PROVE h[i] <= (n + k) - z
  <2>1. PICK a \in Int : a = h[i] /\ a <= n - y
    BY <1>2
  <2> QED
    BY <1>1, <2>1
<1> QED
  BY <1>1, <1>3, <1>4 DEF Fits

(* get: the page is given the oldest event that waits. *)
LEMMA GivesOldest ==
  ASSUME NEW h, NEW q, NEW b \in Nat, NEW d \in Nat, NEW n \in Nat, NEW r,
         Fits(h, q, b, d, n, r), Waits(h, q, b, n), q # <<>>
  PROVE  /\ Fits(Append(h, Head(q)), Tail(q), b, d, n, r)
         /\ Waits(Append(h, Head(q)), Tail(q), b, n)
         /\ LastOf(Append(h, Head(q)), b) = Head(q)
<1>1. /\ Block(Tail(q), n) /\ Len(Tail(q)) = Len(q) - 1 /\ Len(q) \in Nat \ {0}
      /\ Head(q) = n - Len(q) + 1
  BY BlockTail DEF Waits
<1>2. PICK x, t, g : x = Head(q) /\ t = Tail(q) /\ g = Append(h, x)
  OBVIOUS
<1>0. h \in Seq(Int)
  BY DEF Fits
<1>3. PICK m : m = Len(h) /\ m \in Nat
  BY <1>0
<1>4. x \in Int /\ x > b
  BY <1>1, <1>2 DEF Waits
<1>5. /\ g \in Seq(Int) /\ Len(g) = m + 1 /\ g # <<>> /\ g[m + 1] = x
      /\ \A i \in 1 .. m : g[i] = h[i]
  BY <1>2, <1>3, <1>4, AppendProperties DEF Fits
<1>6. \A i \in 1 .. m : h[i] \in Int /\ h[i] < x
  BY <1>1, <1>2, <1>3 DEF Fits
<1>7. Increasing(g)
  <2>1. ASSUME NEW i \in 1 .. m + 1, NEW j \in 1 .. m + 1, i < j PROVE g[i] < g[j]
    <3>1. i \in 1 .. m /\ (j \in 1 .. m \/ j = m + 1)
      BY <1>3, <2>1
    <3>2. CASE j = m + 1
      BY <1>5, <1>6, <3>1, <3>2
    <3>3. CASE j \in 1 .. m
      <4>1. DOMAIN h = 1 .. m
        BY <1>3 DEF Fits
      <4> QED
        BY <1>5, <2>1, <3>1, <3>3, <4>1 DEF Fits, Increasing
    <3> QED
      BY <3>1, <3>2, <3>3
  <2>2. DOMAIN g = 1 .. m + 1
    BY <1>3, <1>5
  <2> QED
    BY <2>1, <2>2 DEF Increasing
<1>8. r \in 0 .. m /\ \A i \in 1 .. m + 1 : i \in 1 .. m \/ i = m + 1
  BY <1>3 DEF Fits
<1>9. Fits(g, t, b, d, n, r)
  <2>1. \A i \in 1 .. r : g[i] = b - r + i
    BY <1>3, <1>5, <1>8 DEF Fits
  <2>2. \A i \in r + 1 .. m + 1 : g[i] > b
    <3>1. \A i \in r + 1 .. m + 1 : i = m + 1 \/ (i \in 1 .. m /\ i \in r + 1 .. m)
      BY <1>3, <1>8
    <3> QED
      BY <1>3, <1>4, <1>5, <3>1 DEF Fits
  <2>3. \A i \in 1 .. m + 1 : g[i] <= n - Len(t)
    BY <1>1, <1>2, <1>3, <1>5, <1>6, <1>8
  <2>4. m + 1 - r + Len(t) + d = n - b
    <3>1. m - r + Len(q) + d = n - b
      BY <1>3 DEF Fits
    <3>2. Len(q) \in Nat /\ Len(t) = Len(q) - 1
      BY <1>1, <1>2
    <3>3. PICK y \in Int : y = Len(q) /\ Len(t) = y - 1
      BY <3>2
    <3>4. m - r + y + d = n - b /\ r \in Int
      BY <1>8, <3>1, <3>3
    <3>5. m + 1 - r + (y - 1) + d = n - b
      BY <1>3, <3>4
    <3> QED
      BY <3>3, <3>5
  <2>5. Len(g) = m + 1 /\ r \in 0 .. Len(g) /\ g \in Seq(Int)
    BY <1>3, <1>5, <1>8
  <2>6. Len(g) - r + Len(t) + d = n - b
    BY <1>1, <1>2, <1>3, <1>8, <2>4, <2>5
  <2>7. /\ \A i \in r + 1 .. Len(g) : g[i] > b
        /\ \A i \in 1 .. Len(g) : g[i] <= n - Len(t)
    BY <2>2, <2>3, <2>5, Zenon
  <2> QED
    BY <1>7, <2>1, <2>5, <2>6, <2>7, Zenon DEF Fits
<1>10. LastOf(g, b) = x
  BY <1>4, <1>5 DEF LastOf
<1>11. Waits(g, t, b, n)
  <2>1. Len(q) <= QueueSize /\ b + Len(q) <= n /\ QueueSize \in Nat
    BY BusAssumption DEF Waits
  <2>2. PICK y : y = Len(q) /\ y \in Nat \ {0} /\ Len(t) = y - 1 /\ x = n - y + 1
    BY <1>1, <1>2
  <2>3. /\ Block(t, n) /\ Len(t) <= QueueSize /\ b + Len(t) <= n
        /\ LastOf(g, b) = n - Len(t)
    BY <1>1, <1>2, <1>4, <1>10, <2>1, <2>2
  <2>4. n - Len(t) <= n - Len(t)
    BY <2>2
  <2> QED
    BY <2>3, <2>4 DEF Waits
<1> QED
  BY <1>2, <1>9, <1>10, <1>11
-----------------------------------------------------------------------------
(* What a page in a place of its connection has (f), is being sent (x) and *)
(* has waiting (q), of n events.                                           *)
Sees(place, b, d, f, x, q, n) ==
    /\ b \in Nat /\ b <= n /\ d \in Nat
    /\ f \in Seq(Int) /\ x \in Seq(Int)
    /\ \A i \in 1 .. Len(f) : f[i] <= n
    /\ place \in {"greeting", "up"} => Waits(f \o x, q, b, n)
    /\ place = "greeting" =>
        /\ Block(x, b)
        /\ \A i \in 1 .. Len(f) : f[i] <= b
        /\ Len(q) + d = n - b
    /\ place = "up" =>
        /\ Len(x) <= 1
        /\ \E r \in 0 .. Len(f) : Fits(f \o x, q, b, d, n, r)

(* Nothing newer than b has been given. *)
LEMMA LastIsBase ==
  ASSUME NEW h \in Seq(Int), NEW b \in Int, \A i \in 1 .. Len(h) : h[i] <= b
  PROVE  LastOf(h, b) = b
<1>1. h # <<>> => Len(h) \in 1 .. Len(h)
  BY EmptySeq
<1>2. \A i \in 1 .. Len(h) : h[i] \in Int
  BY ElementOfSeq
<1>3. ASSUME h # <<>> PROVE ~(h[Len(h)] > b)
  <2>1. PICK m, y : m = Len(h) /\ y = h[m] /\ y \in Int /\ y <= b
    BY <1>1, <1>2, <1>3
  <2> QED
    BY <2>1
<1> QED
  BY <1>3 DEF LastOf

LEMMA JoinedBelow ==
  ASSUME NEW f \in Seq(Int), NEW x \in Seq(Int), NEW b \in Int,
         \A i \in 1 .. Len(f) : f[i] <= b, \A i \in 1 .. Len(x) : x[i] <= b
  PROVE  /\ f \o x \in Seq(Int) /\ LastOf(f \o x, b) = b
         /\ \A i \in 1 .. Len(f \o x) : (f \o x)[i] <= b
<1>1. PICK h, k, m : h = f \o x /\ k = Len(f) /\ m = Len(x) /\ k \in Nat /\ m \in Nat
  BY LenProperties
<1>2. /\ h \in Seq(Int) /\ Len(h) = k + m
      /\ \A i \in 1 .. k + m : h[i] = IF i <= k THEN f[i] ELSE x[i - k]
  BY <1>1, ConcatProperties
<1>3. ASSUME NEW i \in 1 .. k + m PROVE h[i] <= b
  <2>1. CASE i <= k
    <3>1. i \in 1 .. k
      BY <1>1, <2>1
    <3> QED
      BY <1>1, <1>2, <2>1, <3>1
  <2>2. CASE i > k
    <3>1. PICK j : j = i - k /\ j \in 1 .. m
      BY <1>1, <2>2
    <3> QED
      BY <1>1, <1>2, <2>2, <3>1
  <2> QED
    BY <1>1, <2>1, <2>2
<1> QED
  BY <1>1, <1>2, <1>3, LastIsBase

LEMMA BlockBelow ==
  ASSUME NEW s, NEW n \in Nat, Block(s, n)
  PROVE  \A i \in 1 .. Len(s) : s[i] <= n
<1>1. PICK m : m = Len(s) /\ m \in Nat /\ \A i \in 1 .. m : s[i] = n - m + i
  BY BlockIs
<1> QED
  BY <1>1

LEMMA BlockEmpty ==
  ASSUME NEW n \in Nat
  PROVE  Block(<<>>, n) /\ Len(<<>>) = 0 /\ <<>> \in Seq(Int)
<1>1. <<>> \in Seq(Int) /\ Len(<<>>) = 0
  BY EmptySeq
<1> QED
  BY <1>1 DEF Block

(* Events are published. *)
LEMMA SeesEvents ==
  ASSUME NEW place, NEW b, NEW d, NEW f, NEW x, NEW q, NEW n \in Nat,
         Sees(place, b, d, f, x, q, n), place \in {"greeting", "up"},
         NEW k \in Nat
  PROVE  Sees(place, b, d + Excess(QueueSize, q \o Events(n, k)), f, x,
              Newest(QueueSize, q \o Events(n, k)), n + k)
<1>1. PICK p, y, h : /\ p = Newest(QueueSize, q \o Events(n, k))
                    /\ y = Excess(QueueSize, q \o Events(n, k))
                    /\ h = f \o x
  OBVIOUS
<1>2. /\ b \in Nat /\ b <= n /\ d \in Nat /\ f \in Seq(Int) /\ x \in Seq(Int)
      /\ \A i \in 1 .. Len(f) : f[i] <= n
      /\ Waits(h, q, b, n)
  BY <1>1 DEF Sees
<1>3. h \in Seq(Int)
  BY <1>1, <1>2, ConcatProperties
<1>4. Waits(h, p, b, n + k) /\ Len(p) + y = Len(q) + k /\ y \in Nat
  <2>1. /\ Waits(h, Newest(QueueSize, q \o Events(n, k)), b, n + k)
        /\ Len(Newest(QueueSize, q \o Events(n, k)))
                + Excess(QueueSize, q \o Events(n, k)) = Len(q) + k
        /\ Excess(QueueSize, q \o Events(n, k)) \in Nat
    BY <1>2, <1>3, TakesEvents, Zenon
  <2> QED
    BY <1>1, <2>1, Zenon
<1>5. Len(p) \in Nat /\ Len(q) \in Nat
  BY <1>2, <1>4, BlockIs DEF Waits
<1>6. b <= n + k /\ d + y \in Nat
  BY <1>2, <1>4
<1>7. \A i \in 1 .. Len(f) : f[i] <= n + k
  <2>1. ASSUME NEW i \in 1 .. Len(f) PROVE f[i] <= n + k
    <3>1. f[i] \in Int /\ f[i] <= n
      BY <1>2, ElementOfSeq
    <3> QED
      BY <3>1
  <2> QED
    BY <2>1
<1>8. CASE place = "greeting"
  <2>1. Len(q) + d = n - b /\ Block(x, b) /\ \A i \in 1 .. Len(f) : f[i] <= b
    BY <1>8 DEF Sees
  <2>2. Len(p) + (d + y) = (n + k) - b
    <3>1. PICK u \in Nat, v \in Nat : u = Len(p) /\ v = Len(q)
      BY <1>5
    <3>2. u + y = v + k /\ v + d = n - b
      BY <1>4, <2>1, <3>1
    <3>3. u + (d + y) = (n + k) - b
      BY <1>2, <1>4, <3>2
    <3> QED
      BY <3>1, <3>3
  <2> QED
    BY <1>1, <1>2, <1>4, <1>6, <1>7, <1>8, <2>1, <2>2 DEF Sees
<1>9. CASE place = "up"
  <2>1. PICK r \in 0 .. Len(f) : Fits(h, q, b, d, n, r)
    BY <1>1, <1>9 DEF Sees
  <2>2. Fits(h, p, b, d + y, n + k, r) /\ Len(x) <= 1
    BY <1>2, <1>4, <1>5, <1>9, <2>1, FitsStill DEF Sees
  <2> QED
    BY <1>1, <1>2, <1>4, <1>6, <1>7, <1>9, <2>2 DEF Sees
<1> QED
  BY <1>8, <1>9

(* subscribe, and the history. *)
LEMMA SeesSubscription ==
  ASSUME NEW place, NEW b, NEW d, NEW f, NEW x, NEW q, NEW n \in Nat,
         Sees(place, b, d, f, x, q, n), NEW past, Block(past, n)
  PROVE  /\ Sees("greeting", n, 0, f, Newest(Replay, past), <<>>, n)
         /\ LastOf(f \o Newest(Replay, past), n) = n
<1>1. PICK y : y = Newest(Replay, past)
  OBVIOUS
<1>2. Block(y, n) /\ y \in Seq(Int)
  BY <1>1, UpdatesAssumption, BlockNewest, BlockIs
<1>3. f \in Seq(Int) /\ \A i \in 1 .. Len(f) : f[i] <= n
  BY DEF Sees
<1>4. LastOf(f \o y, n) = n
  <2>1. n \in Int /\ \A i \in 1 .. Len(y) : y[i] <= n
    BY <1>2, BlockBelow
  <2> QED
    BY <1>2, <1>3, <2>1, JoinedBelow, Zenon
<1>5. Waits(f \o y, <<>>, n, n)
  BY <1>4, BlockEmpty, BusAssumption DEF Waits
<1>6. Len(<<>>) + 0 = n - n
  BY BlockEmpty
<1> QED
  BY <1>1, <1>2, <1>3, <1>4, <1>5, <1>6 DEF Sees

(* The greeting arrives. *)
LEMMA SeesGreeting ==
  ASSUME NEW b, NEW d, NEW f, NEW x, NEW q, NEW n \in Nat, Sees("greeting", b, d, f, x, q, n)
  PROVE  /\ Sees("up", b, d, x, <<>>, q, n)
         /\ LastOf(f \o x, b) = b /\ LastOf(x \o <<>>, b) = b
<1>1. /\ b \in Nat /\ b <= n /\ d \in Nat /\ f \in Seq(Int) /\ x \in Seq(Int)
      /\ Waits(f \o x, q, b, n) /\ Block(x, b) /\ Len(q) + d = n - b
      /\ \A i \in 1 .. Len(f) : f[i] <= b
  BY DEF Sees
<1>2. x \o <<>> = x
  BY <1>1, ConcatEmptySeq
<1>3. \A i \in 1 .. Len(x) : x[i] <= b
  BY <1>1, BlockBelow
<1>4. LastOf(x, b) = b /\ LastOf(f \o x, b) = b
  BY <1>1, <1>3, LastIsBase, JoinedBelow
<1>5. Waits(x, q, b, n)
  BY <1>1, <1>4 DEF Waits
<1>6. PICK m, y : /\ m = Len(x) /\ y = Len(q) /\ m \in Nat /\ y \in Nat /\ y <= n
                 /\ b + y <= n /\ DOMAIN x = 1 .. m
  BY <1>1, BlockIs, LenProperties DEF Waits
<1>7. \A i \in 1 .. m : x[i] = b - m + i
  BY <1>1, <1>6 DEF Block
<1>8. Increasing(x)
  BY <1>1, <1>6, <1>7 DEF Increasing
<1>9. Fits(x, q, b, d, n, m)
  <2>1. \A i \in m + 1 .. m : FALSE
    BY <1>6
  <2>2. \A i \in 1 .. m : x[i] <= n - y
    BY <1>1, <1>6, <1>7
  <2>3. m - m + y + d = n - b
    BY <1>1, <1>6
  <2> QED
    BY <1>1, <1>6, <1>7, <1>8, <2>1, <2>2, <2>3 DEF Fits
<1>10. \A i \in 1 .. Len(x) : x[i] <= n
  BY <1>1, <1>6, <1>7
<1>11. m \in 0 .. Len(x) /\ <<>> \in Seq(Int) /\ Len(<<>>) <= 1
  BY <1>6, BlockEmpty
<1> QED
  BY <1>1, <1>2, <1>4, <1>5, <1>9, <1>10, <1>11 DEF Sees

(* _pump takes an event from the queue. *)
LEMMA SeesPump ==
  ASSUME NEW b, NEW d, NEW f, NEW q, NEW n \in Nat, Sees("up", b, d, f, <<>>, q, n), q # <<>>
  PROVE  /\ Sees("up", b, d, f, <<Head(q)>>, Tail(q), n)
         /\ LastOf(f \o <<Head(q)>>, b) = Head(q)
         /\ Waits(f \o <<>>, q, b, n) /\ Head(q) = n - Len(q) + 1 /\ Len(q) \in Nat \ {0}
<1>1. /\ b \in Nat /\ b <= n /\ d \in Nat /\ f \in Seq(Int)
      /\ \A i \in 1 .. Len(f) : f[i] <= n
      /\ Waits(f \o <<>>, q, b, n)
  BY DEF Sees
<1>2. f \o <<>> = f
  BY <1>1, ConcatEmptySeq
<1>3. PICK r \in 0 .. Len(f) : Fits(f, q, b, d, n, r)
  BY <1>2 DEF Sees
<1>4. Head(q) = n - Len(q) + 1 /\ Len(q) \in Nat \ {0}
  BY <1>1, BlockTail DEF Waits
<1>5. Head(q) \in Int /\ <<Head(q)>> \in Seq(Int) /\ Len(<<Head(q)>>) <= 1
  <2>1. Head(q) \in Int
    BY <1>4
  <2> QED
    BY <2>1
<1>6. Append(f, Head(q)) = f \o <<Head(q)>>
  BY <1>1, <1>5, AppendIsConcat
<1>7. /\ Fits(f \o <<Head(q)>>, Tail(q), b, d, n, r) /\ Waits(f \o <<Head(q)>>, Tail(q), b, n)
      /\ LastOf(f \o <<Head(q)>>, b) = Head(q)
  <2>1. /\ Fits(Append(f, Head(q)), Tail(q), b, d, n, r)
        /\ Waits(Append(f, Head(q)), Tail(q), b, n)
        /\ LastOf(Append(f, Head(q)), b) = Head(q)
    <3>1. Waits(f, q, b, n)
      BY <1>1, <1>2, Zenon
    <3>2. b \in Nat /\ d \in Nat
      BY <1>1, Zenon
    <3> QED
      BY <1>3, <3>1, <3>2, GivesOldest, Zenon
  <2> QED
    BY <1>6, <2>1, Zenon
<1> QED
  BY <1>1, <1>3, <1>4, <1>5, <1>7 DEF Sees

(* It arrives at the page. *)
LEMMA SeesArrival ==
  ASSUME NEW b, NEW d, NEW f, NEW x, NEW q, NEW n \in Nat, Sees("up", b, d, f, x, q, n), x # <<>>
  PROVE  /\ Sees("up", b, d, Append(f, Head(x)), <<>>, q, n)
         /\ Append(f, Head(x)) \o <<>> = f \o x
<1>1. /\ b \in Nat /\ b <= n /\ d \in Nat /\ f \in Seq(Int) /\ x \in Seq(Int)
      /\ Len(x) <= 1 /\ Waits(f \o x, q, b, n)
  BY DEF Sees
<1>2. PICK y \in Int : y = Head(x) /\ x = <<y>>
  <2>0. Len(x) \in Nat \ {0}
    BY <1>1, EmptySeq
  <2>5. Len(x) <= 1
    BY <1>1, Zenon
  <2>1. Len(x) = 1
    BY <2>0, <2>5
  <2>2. x[1] \in Int
    BY <1>1, <2>1, ElementOfSeq
  <2>3. Head(x) = x[1]
    BY <1>1, <2>0
  <2>4. x = <<x[1]>>
    BY <1>1, <2>1, <2>2, SeqEqual
  <2> QED
    BY <2>2, <2>3, <2>4
<1>3. PICK g : g = Append(f, y) /\ g = f \o x /\ g \in Seq(Int) /\ Len(g) = Len(f) + 1
  <2>1. Append(f, y) = f \o <<y>>
    BY <1>1, AppendIsConcat
  <2>2. Append(f, y) \in Seq(Int) /\ Len(Append(f, y)) = Len(f) + 1
    BY <1>1, AppendProperties
  <2> QED
    BY <1>2, <2>1, <2>2, Zenon
<1>4. g \o <<>> = g
  BY <1>3, ConcatEmptySeq
<1>5. PICK r \in 0 .. Len(f) : Fits(g, q, b, d, n, r)
  BY <1>3 DEF Sees
<1>6. r \in 0 .. Len(g)
  BY <1>3, <1>5 DEF Fits
<1>7. \A i \in 1 .. Len(g) : g[i] <= n
  <2>1. PICK z \in Nat : z = Len(q)
    BY <1>1, BlockIs DEF Waits
  <2>2. \A i \in 1 .. Len(g) : g[i] \in Int /\ g[i] <= n - z
    BY <1>3, <1>5, <2>1, ElementOfSeq DEF Fits
  <2> QED
    BY <2>1, <2>2
<1>8. <<>> \in Seq(Int) /\ Len(<<>>) <= 1
  BY BlockEmpty
<1> QED
  BY <1>1, <1>2, <1>3, <1>4, <1>5, <1>6, <1>7, <1>8 DEF Sees
-----------------------------------------------------------------------------
(* What the events say. *)
Kinds == {"emergency.stop", "computer.stopped", "tool.awaiting_permission", "chat.delta"}

Said == Kinds \X ({"on", "off", ""} \cup Questions)

(* The invariant: the history and every queue hold the newest positions without *)
(* a gap, and every page has what belongs before its queue.                     *)
FeedInv ==
    /\ log \in Seq(Said)
    /\ Block(history, Len(log))
    /\ conn \in [Clients -> {"off", "connecting", "greeting", "up"}]
    /\ since = [c \in Clients |-> since[c]]
    /\ dropped = [c \in Clients |-> dropped[c]]
    /\ feed = [c \in Clients |-> feed[c]]
    /\ inflight = [c \in Clients |-> inflight[c]]
    /\ queue = [c \in Clients |-> queue[c]]
    /\ subscribers = {c \in Clients : conn[c] \in {"greeting", "up"}}
    /\ \A c \in Clients :
          Sees(conn[c], since[c], dropped[c], feed[c], inflight[c], queue[c], Len(log))

Given(c) == IF c \in subscribers THEN LastOf(Had(c), since[c]) ELSE 0

TheLast == [c \in Clients |-> Given(c)]

(* The steps of LossyFeed. *)
Moves ==
    \/ /\ Len(log') \in {Len(log) + 1, Len(log) + 2}
       /\ UNCHANGED <<subscribers, TheLast>>
    \/ /\ Len(log') = Len(log)
       /\ \/ \E c \in Clients :
               /\ c \notin subscribers
               /\ subscribers' = subscribers \cup {c}
               /\ TheLast' = [TheLast EXCEPT ![c] = Len(log)]
          \/ \E c \in subscribers :
               /\ TheLast[c] < Len(log)
               /\ TheLast' = [TheLast EXCEPT ![c] =
                                 IF TheLast[c] + 1 > Len(log) - QueueSize THEN TheLast[c] + 1
                                 ELSE Len(log) - QueueSize + 1]
               /\ UNCHANGED subscribers
          \/ \E gone \in {Clients} \cup {{c} : c \in Clients} :
               /\ subscribers' = subscribers \ gone
               /\ TheLast' = [c \in Clients |-> IF c \in gone THEN 0 ELSE TheLast[c]]
          \/ UNCHANGED <<subscribers, TheLast>>

(* Nothing that the invariant is about changes. *)
LEMMA NothingMoves ==
  ASSUME FeedInv, UNCHANGED <<busVars, socketVars, feed>>
  PROVE  FeedInv' /\ Moves
<1>1. UNCHANGED <<log, history, subscribers, queue, dropped, conn, since, inflight, feed>>
  BY DEF busVars, socketVars
<1>2. FeedInv'
  BY <1>1 DEF FeedInv
<1>3. UNCHANGED TheLast
  BY <1>1 DEF TheLast, Given, Had
<1> QED
  BY <1>1, <1>2, <1>3 DEF Moves

LEMMA SeesOffline ==
  ASSUME NEW place, NEW b, NEW d, NEW f, NEW x, NEW q, NEW n \in Nat,
         Sees(place, b, d, f, x, q, n), place \notin {"greeting", "up"}, NEW k \in Nat
  PROVE  Sees(place, b, d, f, x, q, n + k)
<1>1. /\ b \in Nat /\ b <= n + k /\ d \in Nat
      /\ f \in Seq(Int) /\ x \in Seq(Int)
      /\ \A i \in 1 .. Len(f) : f[i] <= n
  BY DEF Sees
<1>2. ASSUME NEW i \in 1 .. Len(f) PROVE f[i] <= n + k
  <2>1. f[i] \in Int /\ f[i] <= n
    BY <1>1, ElementOfSeq
  <2> QED
    BY <2>1
<1> QED
  BY <1>1, <1>2 DEF Sees

(* emit *)
LEMMA Published ==
  ASSUME FeedInv, NEW contents \in Seq(Said), Len(contents) \in {1, 2}, Emit(contents),
         UNCHANGED <<socketVars, feed>>
  PROVE  FeedInv' /\ Moves
<1>1. PICK n, k : n = Len(log) /\ k = Len(contents) /\ n \in Nat /\ k \in Nat /\ k \in {1, 2}
  BY LenProperties DEF FeedInv
<1>2. UNCHANGED <<conn, since, inflight, feed, subscribers>>
  BY DEF socketVars, Emit
<1>3. /\ log' = log \o contents
      /\ history' = Newest(HistorySize, history \o Events(n, k))
      /\ queue' = [c \in Clients |-> IF c \in subscribers
                     THEN Newest(QueueSize, queue[c] \o Events(n, k)) ELSE queue[c]]
      /\ dropped' = [c \in Clients |-> IF c \in subscribers
                     THEN dropped[c] + Excess(QueueSize, queue[c] \o Events(n, k)) ELSE dropped[c]]
  BY <1>1 DEF Emit, Offered, Events
<1>4. log' \in Seq(Said) /\ Len(log') = n + k
  BY <1>1, <1>3, ConcatProperties DEF FeedInv
<1>5. Block(history', n + k)
  <2>1. Block(history, n)
    BY <1>1 DEF FeedInv
  <2>2. Block(history \o Events(n, k), n + k)
    BY <1>1, <2>1, BlockExtended, Zenon
  <2>3. n + k \in Nat /\ HistorySize \in Nat
    BY <1>1, BusAssumption
  <2>4. Block(Newest(HistorySize, history \o Events(n, k)), n + k)
    BY <2>2, <2>3, BlockNewest, Zenon
  <2> QED
    BY <1>3, <2>4, Zenon
<1>6. ASSUME NEW c \in Clients
      PROVE  Sees(conn[c], since[c], dropped'[c], feed[c], inflight[c], queue'[c], n + k)
  <2>1. Sees(conn[c], since[c], dropped[c], feed[c], inflight[c], queue[c], n)
    BY <1>1 DEF FeedInv
  <2>2. CASE c \in subscribers
    <3>1. conn[c] \in {"greeting", "up"}
      BY <2>2 DEF FeedInv
    <3>2. /\ queue'[c] = Newest(QueueSize, queue[c] \o Events(n, k))
          /\ dropped'[c] = dropped[c] + Excess(QueueSize, queue[c] \o Events(n, k))
      BY <1>3, <2>2
    <3>3. Sees(conn[c], since[c], dropped[c] + Excess(QueueSize, queue[c] \o Events(n, k)),
               feed[c], inflight[c], Newest(QueueSize, queue[c] \o Events(n, k)), n + k)
      BY <1>1, <2>1, <3>1, SeesEvents, Zenon
    <3> QED
      BY <3>2, <3>3, Zenon
  <2>3. CASE c \notin subscribers
    <3>1. conn[c] \notin {"greeting", "up"}
      BY <2>3 DEF FeedInv
    <3>2. queue'[c] = queue[c] /\ dropped'[c] = dropped[c]
      BY <1>3, <2>3
    <3> QED
      BY <1>1, <2>1, <3>1, <3>2, SeesOffline
  <2> QED
    BY <2>2, <2>3
<1>7. queue' = [c \in Clients |-> queue'[c]] /\ dropped' = [c \in Clients |-> dropped'[c]]
  BY <1>3
<1>8. FeedInv'
  BY <1>2, <1>4, <1>5, <1>6, <1>7 DEF FeedInv
<1>9. UNCHANGED TheLast
  BY <1>2 DEF TheLast, Given, Had
<1> QED
  BY <1>1, <1>2, <1>4, <1>8, <1>9 DEF Moves

LEMMA SeesLeaver ==
  ASSUME NEW n \in Nat, NEW place \in {"off", "connecting"}, NEW b \in Nat, b <= n,
         NEW f \in Seq(Int), \A i \in 1 .. Len(f) : f[i] <= n, NEW q
  PROVE  Sees(place, b, 0, f, <<>>, q, n)
BY BlockEmpty DEF Sees

(* unsubscribe, for some or all. *)
LEMMA Leaves ==
  ASSUME FeedInv, NEW gone \in {Clients} \cup {{c} : c \in Clients}, Detach(gone),
         UNCHANGED <<log, since>>, history' \in {history, <<>>},
         conn' \in [Clients -> {"off", "connecting", "greeting", "up"}],
         inflight' = [c \in Clients |-> IF c \in gone THEN <<>> ELSE inflight[c]],
         feed' = [c \in Clients |-> feed'[c]],
         \A c \in Clients : feed'[c] \in {feed[c], <<>>},
         \A c \in Clients \ gone : conn'[c] = conn[c] /\ feed'[c] = feed[c],
         \A c \in gone : conn'[c] \in {"off", "connecting"}
  PROVE  FeedInv' /\ Moves
<1>1. PICK n : n = Len(log) /\ n \in Nat /\ n = Len(log')
  BY LenProperties DEF FeedInv
<1>2. gone \subseteq Clients
  OBVIOUS
<1>3. /\ subscribers' = subscribers \ gone
      /\ queue' = [c \in Clients |-> IF c \in gone THEN <<>> ELSE queue[c]]
      /\ dropped' = [c \in Clients |-> IF c \in gone THEN 0 ELSE dropped[c]]
  BY DEF Detach
<1>4. subscribers' = {c \in Clients : conn'[c] \in {"greeting", "up"}}
  BY <1>2, <1>3 DEF FeedInv
<1>5. Block(history', n)
  BY <1>1, BlockEmpty DEF FeedInv
<1>6. ASSUME NEW c \in Clients
      PROVE  Sees(conn'[c], since[c], dropped'[c], feed'[c], inflight'[c], queue'[c], n)
  <2>1. Sees(conn[c], since[c], dropped[c], feed[c], inflight[c], queue[c], n)
    BY <1>1 DEF FeedInv
  <2>2. CASE c \in gone
    <3>1. conn'[c] \in {"off", "connecting"} /\ dropped'[c] = 0 /\ inflight'[c] = <<>>
      BY <1>3, <2>2
    <3>2. feed'[c] \in Seq(Int) /\ \A i \in 1 .. Len(feed'[c]) : feed'[c][i] <= n
      <4>1. CASE feed'[c] = feed[c]
        BY <2>1, <4>1 DEF Sees
      <4>2. CASE feed'[c] = <<>>
        BY <4>2, BlockEmpty
      <4> QED
        BY <4>1, <4>2
    <3>3. since[c] \in Nat /\ since[c] <= n
      BY <2>1 DEF Sees
    <3>4. Sees(conn'[c], since[c], 0, feed'[c], <<>>, queue'[c], n)
      BY <1>1, <3>1, <3>2, <3>3, SeesLeaver, Zenon
    <3> QED
      BY <3>1, <3>4, Zenon
  <2>3. CASE c \notin gone
    BY <1>3, <2>1, <2>3
  <2> QED
    BY <2>2, <2>3
<1>7. /\ queue' = [c \in Clients |-> queue'[c]] /\ dropped' = [c \in Clients |-> dropped'[c]]
      /\ inflight' = [c \in Clients |-> inflight'[c]] /\ since' = [c \in Clients |-> since'[c]]
  BY <1>3 DEF FeedInv
<1>8. FeedInv'
  BY <1>1, <1>4, <1>5, <1>6, <1>7 DEF FeedInv
<1>9. TheLast' = [c \in Clients |-> IF c \in gone THEN 0 ELSE TheLast[c]]
  <2>1. ASSUME NEW c \in Clients PROVE Given(c)' = IF c \in gone THEN 0 ELSE Given(c)
    <3>1. CASE c \in gone
      BY <1>3, <3>1 DEF Given
    <3>2. CASE c \notin gone
      BY <1>3, <3>2 DEF Given, Had
    <3> QED
      BY <3>1, <3>2
  <2> QED
    BY <2>1 DEF TheLast
<1> QED
  BY <1>1, <1>3, <1>8, <1>9 DEF Moves
(* Only one page and its connection change. *)
LEMMA OneMoves ==
  ASSUME FeedInv, NEW c \in Clients, UNCHANGED <<log, history>>,
         conn' \in [Clients -> {"off", "connecting", "greeting", "up"}],
         since' = [u \in Clients |-> since'[u]], dropped' = [u \in Clients |-> dropped'[u]],
         feed' = [u \in Clients |-> feed'[u]], inflight' = [u \in Clients |-> inflight'[u]],
         queue' = [u \in Clients |-> queue'[u]],
         \A u \in Clients \ {c} :
            /\ conn'[u] = conn[u] /\ since'[u] = since[u] /\ dropped'[u] = dropped[u]
            /\ feed'[u] = feed[u] /\ inflight'[u] = inflight[u] /\ queue'[u] = queue[u],
         subscribers' = {u \in Clients : conn'[u] \in {"greeting", "up"}},
         Sees(conn'[c], since'[c], dropped'[c], feed'[c], inflight'[c], queue'[c], Len(log))
  PROVE  FeedInv' /\ \A u \in Clients \ {c} : Given(u)' = Given(u)
<1>1. ASSUME NEW u \in Clients
      PROVE  Sees(conn'[u], since'[u], dropped'[u], feed'[u], inflight'[u], queue'[u], Len(log))
  <2>1. CASE u = c
    BY <2>1, Zenon
  <2>2. CASE u # c
    BY <2>2 DEF FeedInv
  <2> QED
    BY <2>1, <2>2
<1>2. FeedInv'
  BY <1>1 DEF FeedInv
<1>3. \A u \in Clients \ {c} : Given(u)' = Given(u)
  BY DEF FeedInv, Given, Had
<1> QED
  BY <1>2, <1>3

LEMMA Opens ==
  ASSUME FeedInv, NEW c \in Clients, OpenPage(c)
  PROVE  FeedInv' /\ Moves
<1>1. /\ conn[c] = "off" /\ conn' = [conn EXCEPT ![c] = "connecting"]
      /\ UNCHANGED <<log, history, subscribers, queue, dropped, since, inflight, feed>>
  BY DEF OpenPage, busVars
<1>2. Sees("connecting", since[c], dropped[c], feed[c], inflight[c], queue[c], Len(log))
  BY <1>1 DEF FeedInv, Sees
<1>3. subscribers' = {u \in Clients : conn'[u] \in {"greeting", "up"}}
  BY <1>1 DEF FeedInv
<1>4. conn' \in [Clients -> {"off", "connecting", "greeting", "up"}] /\ conn'[c] = "connecting"
  BY <1>1 DEF FeedInv
<1>5. FeedInv'
  BY <1>1, <1>2, <1>3, <1>4, OneMoves DEF FeedInv
<1>6. UNCHANGED TheLast
  BY <1>1 DEF TheLast, Given, Had
<1> QED
  BY <1>1, <1>5, <1>6 DEF Moves

LEMMA Subscribes ==
  ASSUME FeedInv, NEW c \in Clients, Subscribe(c)
  PROVE  FeedInv' /\ Moves
<1>1. /\ conn[c] = "connecting" /\ conn' = [conn EXCEPT ![c] = "greeting"]
      /\ subscribers' = subscribers \cup {c}
      /\ queue' = [queue EXCEPT ![c] = <<>>] /\ dropped' = [dropped EXCEPT ![c] = 0]
      /\ since' = [since EXCEPT ![c] = Len(log)]
      /\ inflight' = [inflight EXCEPT ![c] = Newest(Replay, history)]
      /\ UNCHANGED <<log, history, feed>>
  BY DEF Subscribe, Attach, pageVars
<1>2. PICK n : n = Len(log) /\ n \in Nat
  BY LenProperties DEF FeedInv
<1>3. /\ conn' \in [Clients -> {"off", "connecting", "greeting", "up"}]
      /\ conn'[c] = "greeting" /\ queue'[c] = <<>> /\ dropped'[c] = 0 /\ since'[c] = n
      /\ inflight'[c] = Newest(Replay, history) /\ feed'[c] = feed[c]
  BY <1>1, <1>2 DEF FeedInv
<1>4. /\ Sees("greeting", n, 0, feed[c], Newest(Replay, history), <<>>, n)
      /\ LastOf(feed[c] \o Newest(Replay, history), n) = n
  <2>1. Sees(conn[c], since[c], dropped[c], feed[c], inflight[c], queue[c], n) /\ Block(history, n)
    BY <1>2 DEF FeedInv
  <2> QED
    BY <1>2, <2>1, SeesSubscription
<1>5. subscribers' = {u \in Clients : conn'[u] \in {"greeting", "up"}} /\ c \notin subscribers
  BY <1>1 DEF FeedInv
<1>6. Sees(conn'[c], since'[c], dropped'[c], feed'[c], inflight'[c], queue'[c], Len(log))
  BY <1>2, <1>3, <1>4, Zenon
<1>7. FeedInv' /\ \A u \in Clients \ {c} : Given(u)' = Given(u)
  BY <1>1, <1>3, <1>5, <1>6, OneMoves DEF FeedInv
<1>8. Given(c)' = n
  BY <1>1, <1>3, <1>4 DEF Given, Had
<1>9. TheLast' = [TheLast EXCEPT ![c] = n]
  BY <1>7, <1>8 DEF TheLast
<1> QED
  BY <1>1, <1>2, <1>5, <1>7, <1>9 DEF Moves

LEMMA IsGreeted ==
  ASSUME FeedInv, NEW c \in Clients, Greeted(c)
  PROVE  FeedInv' /\ Moves
<1>1. /\ conn[c] = "greeting" /\ conn' = [conn EXCEPT ![c] = "up"]
      /\ feed' = [feed EXCEPT ![c] = inflight[c]]
      /\ inflight' = [inflight EXCEPT ![c] = <<>>]
      /\ UNCHANGED <<log, history, subscribers, queue, dropped, since>>
  BY DEF Greeted, busVars
<1>2. PICK n : n = Len(log) /\ n \in Nat
  BY LenProperties DEF FeedInv
<1>3. /\ conn' \in [Clients -> {"off", "connecting", "greeting", "up"}]
      /\ conn'[c] = "up" /\ feed'[c] = inflight[c] /\ inflight'[c] = <<>>
  BY <1>1 DEF FeedInv
<1>4. /\ Sees("up", since[c], dropped[c], inflight[c], <<>>, queue[c], n)
      /\ LastOf(feed[c] \o inflight[c], since[c]) = since[c]
      /\ LastOf(inflight[c] \o <<>>, since[c]) = since[c]
  <2>1. Sees("greeting", since[c], dropped[c], feed[c], inflight[c], queue[c], n)
    BY <1>1, <1>2 DEF FeedInv
  <2> QED
    BY <1>2, <2>1, SeesGreeting
<1>5. subscribers' = {u \in Clients : conn'[u] \in {"greeting", "up"}}
  BY <1>1 DEF FeedInv
<1>6. Sees(conn'[c], since'[c], dropped'[c], feed'[c], inflight'[c], queue'[c], Len(log))
  BY <1>1, <1>2, <1>3, <1>4, Zenon
<1>7. FeedInv' /\ \A u \in Clients \ {c} : Given(u)' = Given(u)
  BY <1>1, <1>3, <1>5, <1>6, OneMoves DEF FeedInv
<1>8. Given(c)' = Given(c)
  BY <1>1, <1>3, <1>4 DEF Given, Had
<1>9. UNCHANGED TheLast
  BY <1>7, <1>8 DEF TheLast
<1> QED
  BY <1>1, <1>7, <1>9 DEF Moves

(* What a full queue has kept is the oldest that LossyFeed still has. *)
LEMMA HeadIsOldest ==
  ASSUME NEW h, NEW q, NEW b \in Nat, NEW n \in Nat, Waits(h, q, b, n), LastOf(h, b) \in Int,
         Len(q) \in Nat \ {0}, NEW y, y = n - Len(q) + 1
  PROVE  /\ LastOf(h, b) < n
         /\ y = IF LastOf(h, b) + 1 > n - QueueSize THEN LastOf(h, b) + 1 ELSE n - QueueSize + 1
<1>1. PICK m, l : /\ m = Len(q) /\ m \in Nat \ {0} /\ l = LastOf(h, b) /\ l \in Int
                 /\ m <= QueueSize /\ l <= n - m /\ (l = n - m \/ m = QueueSize)
  BY DEF Waits
<1>2. QueueSize \in Nat
  BY BusAssumption
<1>3. l < n /\ n - m + 1 = IF l + 1 > n - QueueSize THEN l + 1 ELSE n - QueueSize + 1
  <2>1. CASE l = n - m
    BY <1>1, <1>2, <2>1
  <2>2. CASE m = QueueSize
    BY <1>1, <1>2, <2>2
  <2> QED
    BY <1>1, <2>1, <2>2
<1> QED
  BY <1>1, <1>3

LEMMA Pumps ==
  ASSUME FeedInv, NEW c \in Clients, Pump(c)
  PROVE  FeedInv' /\ Moves
<1>1. /\ conn[c] = "up" /\ inflight[c] = <<>> /\ queue[c] # <<>>
      /\ queue' = [queue EXCEPT ![c] = Tail(queue[c])]
      /\ inflight' = [inflight EXCEPT ![c] = <<Head(queue[c])>>]
      /\ UNCHANGED <<log, history, subscribers, dropped, conn, since, feed>>
  BY DEF Pump, Get, pageVars
<1>2. PICK n : n = Len(log) /\ n \in Nat
  BY LenProperties DEF FeedInv
<1>3. /\ queue'[c] = Tail(queue[c]) /\ inflight'[c] = <<Head(queue[c])>>
      /\ conn' \in [Clients -> {"off", "connecting", "greeting", "up"}]
  BY <1>1 DEF FeedInv
<1>4. Sees("up", since[c], dropped[c], feed[c], <<>>, queue[c], n)
  BY <1>1, <1>2 DEF FeedInv
<1>5. /\ Sees("up", since[c], dropped[c], feed[c], <<Head(queue[c])>>, Tail(queue[c]), n)
      /\ LastOf(feed[c] \o <<Head(queue[c])>>, since[c]) = Head(queue[c])
      /\ Waits(feed[c] \o <<>>, queue[c], since[c], n)
      /\ Head(queue[c]) = n - Len(queue[c]) + 1 /\ Len(queue[c]) \in Nat \ {0}
  <2>1. PICK b, d, f, q : b = since[c] /\ d = dropped[c] /\ f = feed[c] /\ q = queue[c]
    OBVIOUS
  <2>2. Sees("up", b, d, f, <<>>, q, n) /\ q # <<>> /\ n \in Nat
    BY <1>1, <1>2, <1>4, <2>1
  <2>3. /\ Sees("up", b, d, f, <<Head(q)>>, Tail(q), n)
        /\ LastOf(f \o <<Head(q)>>, b) = Head(q)
        /\ Waits(f \o <<>>, q, b, n) /\ Head(q) = n - Len(q) + 1 /\ Len(q) \in Nat \ {0}
    BY <2>2, SeesPump
  <2> QED
    BY <2>1, <2>3
<1>6. subscribers' = {u \in Clients : conn'[u] \in {"greeting", "up"}} /\ c \in subscribers
  BY <1>1 DEF FeedInv
<1>7. Sees(conn'[c], since'[c], dropped'[c], feed'[c], inflight'[c], queue'[c], Len(log))
  BY <1>1, <1>2, <1>3, <1>5, Zenon
<1>8. FeedInv' /\ \A u \in Clients \ {c} : Given(u)' = Given(u)
  BY <1>1, <1>3, <1>6, <1>7, OneMoves DEF FeedInv
<1>9. Given(c)' = Head(queue[c]) /\ Given(c) = LastOf(feed[c] \o <<>>, since[c])
  BY <1>1, <1>3, <1>5, <1>6 DEF Given, Had
<1>10. since[c] \in Nat /\ LastOf(feed[c] \o <<>>, since[c]) \in Int
  <2>1. since[c] \in Nat /\ feed[c] \in Seq(Int)
    BY <1>4 DEF Sees
  <2>2. feed[c] \o <<>> \in Seq(Int)
    BY <2>1, ConcatEmptySeq
  <2> QED
    BY <2>1, <2>2, LastIsInt
<1>11. /\ Given(c) < n
       /\ Head(queue[c]) = IF Given(c) + 1 > n - QueueSize THEN Given(c) + 1
                            ELSE n - QueueSize + 1
  <2>1. PICK h, q, b, y : /\ h = feed[c] \o <<>> /\ q = queue[c] /\ b = since[c]
                          /\ y = Head(q)
    OBVIOUS
  <2>2. /\ Waits(h, q, b, n) /\ LastOf(h, b) \in Int /\ b \in Nat /\ n \in Nat
        /\ Len(q) \in Nat \ {0} /\ y = n - Len(q) + 1
    BY <1>2, <1>5, <1>10, <2>1
  <2>3. /\ LastOf(h, b) < n
        /\ y = IF LastOf(h, b) + 1 > n - QueueSize THEN LastOf(h, b) + 1 ELSE n - QueueSize + 1
    BY <2>2, HeadIsOldest
  <2> QED
    BY <1>9, <2>1, <2>3
<1>12. TheLast[c] = Given(c) /\ TheLast' = [TheLast EXCEPT ![c] = Head(queue[c])]
  BY <1>8, <1>9 DEF TheLast
<1> QED
  BY <1>1, <1>2, <1>6, <1>8, <1>11, <1>12 DEF Moves

LEMMA Arrives ==
  ASSUME FeedInv, NEW c \in Clients, Arrive(c)
  PROVE  FeedInv' /\ Moves
<1>1. /\ conn[c] = "up" /\ inflight[c] # <<>>
      /\ feed' = [feed EXCEPT ![c] = Append(feed[c], Head(inflight[c]))]
      /\ inflight' = [inflight EXCEPT ![c] = <<>>]
      /\ UNCHANGED <<log, history, subscribers, queue, dropped, conn, since>>
  BY DEF Arrive, busVars
<1>2. PICK n : n = Len(log) /\ n \in Nat
  BY LenProperties DEF FeedInv
<1>3. /\ feed'[c] = Append(feed[c], Head(inflight[c])) /\ inflight'[c] = <<>>
      /\ conn' \in [Clients -> {"off", "connecting", "greeting", "up"}]
  BY <1>1 DEF FeedInv
<1>4. Sees("up", since[c], dropped[c], feed[c], inflight[c], queue[c], n)
  BY <1>1, <1>2 DEF FeedInv
<1>5. /\ Sees("up", since[c], dropped[c], Append(feed[c], Head(inflight[c])), <<>>, queue[c], n)
      /\ Append(feed[c], Head(inflight[c])) \o <<>> = feed[c] \o inflight[c]
  <2>1. PICK b, d, f, x, q : /\ b = since[c] /\ d = dropped[c] /\ f = feed[c]
                             /\ x = inflight[c] /\ q = queue[c]
    OBVIOUS
  <2>2. Sees("up", b, d, f, x, q, n) /\ x # <<>> /\ n \in Nat
    BY <1>1, <1>2, <1>4, <2>1
  <2>3. /\ Sees("up", b, d, Append(f, Head(x)), <<>>, q, n)
        /\ Append(f, Head(x)) \o <<>> = f \o x
    BY <2>2, SeesArrival
  <2> QED
    BY <2>1, <2>3
<1>6. subscribers' = {u \in Clients : conn'[u] \in {"greeting", "up"}}
  BY <1>1 DEF FeedInv
<1>7. Sees(conn'[c], since'[c], dropped'[c], feed'[c], inflight'[c], queue'[c], Len(log))
  BY <1>1, <1>2, <1>3, <1>5, Zenon
<1>8. FeedInv' /\ \A u \in Clients \ {c} : Given(u)' = Given(u)
  BY <1>1, <1>3, <1>6, <1>7, OneMoves DEF FeedInv
<1>9. Given(c)' = Given(c)
  <2>1. Had(c)' = Had(c)
    BY <1>3, <1>5, Zenon DEF Had
  <2> QED
    BY <1>1, <2>1 DEF Given
<1>10. UNCHANGED TheLast
  BY <1>8, <1>9 DEF TheLast
<1> QED
  BY <1>1, <1>8, <1>10 DEF Moves

-----------------------------------------------------------------------------
(* Every step keeps the invariant and is a step of LossyFeed. *)
LEMMA OneIsSaid ==
  ASSUME NEW x \in Said
  PROVE  <<x>> \in Seq(Said) /\ Len(<<x>>) = 1
OBVIOUS

LEMMA TwoAreSaid ==
  ASSUME NEW x \in Said, NEW y \in Said
  PROVE  <<x, y>> \in Seq(Said) /\ Len(<<x, y>>) = 2
OBVIOUS

LEMMA ContentIsSaid ==
  ASSUME NEW a \in Kinds, NEW b \in {"on", "off", ""} \cup Questions
  PROVE  \E x \in Said : x = <<a, b>>
BY Zenon DEF Said

LEMMA FeedStarts == Init => FeedInv
<1> SUFFICES ASSUME Init PROVE FeedInv
  OBVIOUS
<1>1. /\ log = <<>> /\ history = <<>> /\ subscribers = {} /\ queue = [c \in Clients |-> <<>>]
      /\ dropped = [c \in Clients |-> 0] /\ conn = [c \in Clients |-> "off"]
      /\ since = [c \in Clients |-> 0] /\ inflight = [c \in Clients |-> <<>>]
      /\ feed = [c \in Clients |-> <<>>]
  BY DEF Init, BusInit
<1>2. log \in Seq(Said) /\ Len(log) = 0 /\ Block(history, 0)
  BY <1>1, BlockEmpty
<1>3. Sees("off", 0, 0, <<>>, <<>>, <<>>, 0)
  BY BlockEmpty DEF Sees
<1> QED
  BY <1>1, <1>2, <1>3 DEF FeedInv

LEMMA Engages ==
  ASSUME FeedInv, Engage
  PROVE  FeedInv' /\ Moves
<1>1. CASE engaged
  <2>1. UNCHANGED <<busVars, socketVars, feed>>
    BY <1>1 DEF Engage, pageVars
  <2> QED
    BY <2>1, NothingMoves
<1>2. CASE ~engaged
  <2>1. /\ Emit(<< <<"emergency.stop", "on">>, <<"computer.stopped", "">> >>)
        /\ UNCHANGED <<socketVars, feed>>
    BY <1>2, Zenon DEF Engage, Announce, pageVars
  <2>2. PICK x \in Said : x = <<"emergency.stop", "on">>
    BY ContentIsSaid, Zenon DEF Kinds
  <2>3. PICK y \in Said : y = <<"computer.stopped", "">>
    BY ContentIsSaid, Zenon DEF Kinds
  <2>4. Emit(<<x, y>>)
    BY <2>1, <2>2, <2>3, Zenon
  <2>5. <<x, y>> \in Seq(Said) /\ Len(<<x, y>>) \in {1, 2}
    BY <2>4, TwoAreSaid
  <2> QED
    BY <2>1, <2>4, <2>5, Published
<1> QED
  BY <1>1, <1>2

LEMMA Releases ==
  ASSUME FeedInv, Release
  PROVE  FeedInv' /\ Moves
<1>1. CASE ~engaged
  <2>1. UNCHANGED <<busVars, socketVars, feed>>
    BY <1>1 DEF Release, pageVars
  <2> QED
    BY <2>1, NothingMoves
<1>2. CASE engaged
  <2>1. PICK x \in Said : x = <<"emergency.stop", "off">>
    BY ContentIsSaid, Zenon DEF Kinds
  <2>2. Emit(<<x>>) /\ UNCHANGED <<socketVars, feed>>
    BY <1>2, <2>1 DEF Release, Announce, pageVars
  <2> QED
    BY <2>2, OneIsSaid, Published
<1> QED
  BY <1>1, <1>2

LEMMA Asks ==
  ASSUME FeedInv, NEW q \in Questions, AskUser(q)
  PROVE  FeedInv' /\ Moves
<1>1. PICK x \in Said : x = <<"tool.awaiting_permission", q>>
  BY ContentIsSaid, Zenon DEF Kinds
<1>2. Emit(<<x>>) /\ UNCHANGED <<socketVars, feed>>
  BY <1>1 DEF AskUser, Announce, pageVars
<1> QED
  BY <1>2, OneIsSaid, Published

LEMMA Chatters ==
  ASSUME FeedInv, Chatter
  PROVE  FeedInv' /\ Moves
<1>1. PICK x \in Said : x = <<"chat.delta", "">>
  BY ContentIsSaid, Zenon DEF Kinds
<1>2. Emit(<<x>>) /\ UNCHANGED <<socketVars, feed>>
  BY <1>1, Zenon DEF Chatter, Announce, pageVars
<1> QED
  BY <1>2, OneIsSaid, Published

LEMMA Loses ==
  ASSUME FeedInv, NEW c \in Clients, Lose(c)
  PROVE  FeedInv' /\ Moves
<1>1. /\ conn' = [conn EXCEPT ![c] = "connecting"] /\ inflight' = [inflight EXCEPT ![c] = <<>>]
      /\ Detach({c}) /\ UNCHANGED <<log, history, since, feed>>
  BY DEF Lose, pageVars
<1>2. inflight' = [u \in Clients |-> IF u \in {c} THEN <<>> ELSE inflight[u]]
  BY <1>1 DEF FeedInv
<1>3. /\ conn' \in [Clients -> {"off", "connecting", "greeting", "up"}]
      /\ \A u \in Clients \ {c} : conn'[u] = conn[u]
      /\ \A u \in {c} : conn'[u] \in {"off", "connecting"}
  BY <1>1 DEF FeedInv
<1>4. feed' = [u \in Clients |-> feed'[u]]
  BY <1>1 DEF FeedInv
<1> QED
  BY <1>1, <1>2, <1>3, <1>4, Leaves

LEMMA Closes ==
  ASSUME FeedInv, NEW c \in Clients, ClosePage(c)
  PROVE  FeedInv' /\ Moves
<1>1. /\ conn' = [conn EXCEPT ![c] = "off"] /\ inflight' = [inflight EXCEPT ![c] = <<>>]
      /\ feed' = [feed EXCEPT ![c] = <<>>]
      /\ Detach({c}) /\ UNCHANGED <<log, history, since>>
  BY DEF ClosePage
<1>2. inflight' = [u \in Clients |-> IF u \in {c} THEN <<>> ELSE inflight[u]]
  BY <1>1 DEF FeedInv
<1>3. /\ conn' \in [Clients -> {"off", "connecting", "greeting", "up"}]
      /\ \A u \in Clients \ {c} : conn'[u] = conn[u]
      /\ \A u \in {c} : conn'[u] \in {"off", "connecting"}
  BY <1>1 DEF FeedInv
<1>4. /\ feed' = [u \in Clients |-> feed'[u]]
      /\ \A u \in Clients : feed'[u] \in {feed[u], <<>>}
      /\ \A u \in Clients \ {c} : feed'[u] = feed[u]
  BY <1>1 DEF FeedInv
<1> QED
  BY <1>1, <1>2, <1>3, <1>4, Leaves

LEMMA Restarted ==
  ASSUME FeedInv, Restart
  PROVE  FeedInv' /\ Moves
<1>1. /\ conn' = [c \in Clients |-> IF conn[c] = "off" THEN "off" ELSE "connecting"]
      /\ inflight' = [c \in Clients |-> <<>>] /\ history' = <<>>
      /\ Detach(Clients) /\ UNCHANGED <<log, since, feed>>
  BY DEF Restart
<1>2. inflight' = [c \in Clients |-> IF c \in Clients THEN <<>> ELSE inflight[c]]
  BY <1>1
<1>3. /\ conn' \in [Clients -> {"off", "connecting", "greeting", "up"}]
      /\ \A c \in Clients : conn'[c] \in {"off", "connecting"}
  BY <1>1
<1>4. feed' = [c \in Clients |-> feed'[c]]
  BY <1>1 DEF FeedInv
<1> QED
  BY <1>1, <1>2, <1>3, <1>4, Leaves

LEMMA FeedStep ==
  ASSUME FeedInv, [Next]_vars
  PROVE  FeedInv' /\ Moves
<1>1. ASSUME NEW c \in Clients, Socket(c) PROVE FeedInv' /\ Moves
  BY <1>1, Subscribes, IsGreeted, Pumps, Arrives, Loses DEF Socket
<1>2. ASSUME NEW c \in Clients, Page(c) PROVE FeedInv' /\ Moves
  <2>1. CASE OpenPage(c)
    BY <2>1, Opens
  <2>2. CASE ClosePage(c)
    BY <2>2, Closes
  <2>3. CASE Serve(c) \/ TakeAnswer(c) \/ LookedUp(c)
    <3>1. UNCHANGED <<busVars, socketVars, feed>>
      BY <2>3 DEF Serve, TakeAnswer, LookedUp
    <3> QED
      BY <3>1, NothingMoves
  <2> QED
    BY <1>2, <2>1, <2>2, <2>3 DEF Page
<1>3. ASSUME NEW c \in Clients, NEW q \in Questions, Click(c, q) PROVE FeedInv' /\ Moves
  <2>1. UNCHANGED <<busVars, socketVars, feed>>
    BY <1>3 DEF Click
  <2> QED
    BY <2>1, NothingMoves
<1>4. ASSUME NEW q \in Questions, StopAsking(q) PROVE FeedInv' /\ Moves
  <2>1. UNCHANGED <<busVars, socketVars, feed>>
    BY <1>4 DEF StopAsking, pageVars
  <2> QED
    BY <2>1, NothingMoves
<1>5. ASSUME UNCHANGED vars PROVE FeedInv' /\ Moves
  <2>1. UNCHANGED <<busVars, socketVars, feed>>
    BY <1>5 DEF vars, pageVars
  <2> QED
    BY <2>1, NothingMoves
<1> QED
  BY <1>1, <1>2, <1>3, <1>4, <1>5, Asks, Engages, Releases, Chatters, Restarted DEF Next

LEMMA FeedHolds == Spec => []FeedInv
<1>1. FeedInv /\ [Next]_vars => FeedInv'
  BY FeedStep
<1> QED
  BY FeedStarts, <1>1, PTL DEF Spec

-----------------------------------------------------------------------------
(* The stream of a page as a whole. *)
Continues(all, b, d, n, r) ==
    /\ Increasing(all)
    /\ \A i \in 1 .. r : all[i] = b - r + i
    /\ \A i \in r + 1 .. Len(all) : all[i] > b
    /\ Len(all) - r + d = n - b

LEMMA StreamFits ==
  ASSUME NEW h, NEW q, NEW b \in Nat, NEW d \in Nat, NEW n \in Nat, NEW r,
         Fits(h, q, b, d, n, r), Block(q, n), b + Len(q) <= n
  PROVE  Continues(h \o q, b, d, n, r)
<1>1. PICK m, k, t : /\ m = Len(h) /\ k = Len(q) /\ m \in Nat /\ k \in Nat /\ t = h \o q
  BY BlockIs, LenProperties DEF Fits
<1>2. /\ r \in 0 .. m /\ m - r + k + d = n - b /\ b + k <= n
      /\ \A i \in 1 .. m : h[i] \in Int /\ h[i] <= n - k
  BY <1>1 DEF Fits
<1>3. /\ t \in Seq(Int) /\ Len(t) = m + k
      /\ \A i \in 1 .. m + k : t[i] = IF i <= m THEN h[i] ELSE q[i - m]
  <2>1. h \in Seq(Int) /\ q \in Seq(Int)
    BY BlockIs DEF Fits
  <2>2. /\ h \o q \in Seq(Int) /\ Len(h \o q) = Len(h) + Len(q)
        /\ \A i \in 1 .. Len(h) + Len(q) :
              (h \o q)[i] = IF i <= Len(h) THEN h[i] ELSE q[i - Len(h)]
    BY <2>1, ConcatProperties, Zenon
  <2> QED
    BY <1>1, <2>2, Zenon
<1>4. \A i \in 1 .. m : t[i] = h[i]
  <2>1. \A i \in 1 .. m : i \in 1 .. m + k /\ i <= m
    BY <1>1
  <2> QED
    BY <1>3, <2>1
<1>5. ASSUME NEW i \in m + 1 .. m + k PROVE t[i] = n - k + (i - m)
  <2>1. PICK j : j = i - m /\ j \in 1 .. k /\ i \in 1 .. m + k /\ ~(i <= m)
    BY <1>1, <1>5
  <2>2. t[i] = q[j]
    BY <1>3, <2>1
  <2>3. q[j] = n - k + j
    BY <1>1, <2>1, BlockIs
  <2> QED
    BY <2>1, <2>2, <2>3
<1>6. Increasing(t)
  <2>1. ASSUME NEW i \in 1 .. m + k, NEW j \in 1 .. m + k, i < j PROVE t[i] < t[j]
    <3>1. CASE j <= m
      <4>1. i \in 1 .. m /\ j \in 1 .. m
        BY <1>1, <2>1, <3>1
      <4>2. h[i] < h[j]
        <5>1. DOMAIN h = 1 .. m
          BY <1>1 DEF Fits
        <5> QED
          BY <2>1, <4>1, <5>1 DEF Fits, Increasing
      <4> QED
        BY <1>4, <4>1, <4>2
    <3>2. CASE i <= m /\ j > m
      <4>1. i \in 1 .. m /\ j \in m + 1 .. m + k
        BY <1>1, <3>2
      <4>2. PICK x \in Int : x = h[i] /\ x <= n - k
        BY <1>2, <4>1
      <4>3. t[i] = x /\ t[j] = n - k + (j - m)
        BY <1>4, <1>5, <4>1, <4>2
      <4> QED
        BY <1>1, <4>1, <4>2, <4>3
    <3>3. CASE i > m
      <4>1. i \in m + 1 .. m + k /\ j \in m + 1 .. m + k
        BY <1>1, <2>1, <3>3
      <4>2. t[i] = n - k + (i - m) /\ t[j] = n - k + (j - m)
        BY <1>5, <4>1
      <4> QED
        BY <1>1, <2>1, <4>2
    <3> QED
      BY <1>1, <2>1, <3>1, <3>2, <3>3
  <2>2. DOMAIN t = 1 .. m + k
    BY <1>1, <1>3
  <2> QED
    BY <2>1, <2>2 DEF Increasing
<1>7. \A i \in 1 .. r : t[i] = b - r + i
  <2>1. \A i \in 1 .. r : i \in 1 .. m
    BY <1>1, <1>2
  <2> QED
    BY <1>4, <2>1 DEF Fits
<1>8. ASSUME NEW i \in r + 1 .. m + k PROVE t[i] > b
  <2>1. CASE i <= m
    <3>1. i \in 1 .. m /\ i \in r + 1 .. m
      BY <1>1, <1>2, <2>1
    <3>2. h[i] > b
      BY <1>1, <3>1 DEF Fits
    <3> QED
      BY <1>4, <3>1, <3>2
  <2>2. CASE i > m
    <3>1. i \in m + 1 .. m + k
      BY <1>1, <1>2, <2>2
    <3>2. t[i] = n - k + (i - m)
      BY <1>5, <3>1
    <3> QED
      BY <1>1, <1>2, <3>1, <3>2
  <2> QED
    BY <1>1, <1>2, <2>1, <2>2
<1>9. m + k - r + d = n - b
  BY <1>1, <1>2
<1>10. Continues(t, b, d, n, r)
  <2>1. Len(t) = m + k
    BY <1>3, Zenon
  <2>2. Increasing(t)
    BY <1>6
  <2>3. \A i \in 1 .. r : t[i] = b - r + i
    BY <1>7
  <2>4. \A i \in r + 1 .. m + k : t[i] > b
    BY <1>8
  <2>5. m + k - r + d = n - b
    BY <1>9
  <2>6. \A i \in r + 1 .. Len(t) : t[i] > b
    BY <2>1, <2>4
  <2>7. Len(t) - r + d = n - b
    BY <1>1, <1>2, <2>1, <2>5
  <2> QED
    BY <2>2, <2>3, <2>6, <2>7, Zenon DEF Continues
<1> QED
  BY <1>1, <1>10, Zenon

LEMMA PageFits ==
  ASSUME NEW b, NEW d, NEW f, NEW x, NEW q, NEW n \in Nat, Sees("up", b, d, f, x, q, n)
  PROVE  \E r \in 0 .. Len(f) : Continues((f \o x) \o q, b, d, n, r)
<1>1. b \in Nat /\ d \in Nat /\ Waits(f \o x, q, b, n)
  BY DEF Sees
<1>2. PICK r \in 0 .. Len(f) : Fits(f \o x, q, b, d, n, r)
  BY DEF Sees
<1>3. Block(q, n) /\ b + Len(q) <= n
  BY <1>1 DEF Waits
<1> QED
  BY <1>1, <1>2, <1>3, StreamFits, Zenon

(* events_socket, _pump and offer: what a page was replayed, what it was sent   *)
(* since and what waits for it follow on each other without a repeat, without a *)
(* gap at the join, and with every missing event counted as dropped.            *)
THEOREM FeedAlwaysFits == Spec => []NoGapNoRepeat
<1>1. FeedInv => NoGapNoRepeat
  <2> SUFFICES ASSUME FeedInv, NEW c \in Clients, conn[c] = "up"
               PROVE  \E r \in 0 .. Len(feed[c]) :
                        Continues(Had(c) \o queue[c], since[c], dropped[c], Len(log), r)
    BY Zenon DEF NoGapNoRepeat, Continues
  <2>1. Len(log) \in Nat
    BY LenProperties DEF FeedInv
  <2>2. Sees("up", since[c], dropped[c], feed[c], inflight[c], queue[c], Len(log))
    BY DEF FeedInv
  <2> QED
    BY <2>1, <2>2, PageFits, Zenon DEF Had
<1> QED
  BY FeedHolds, <1>1, PTL

-----------------------------------------------------------------------------
(* The bus implements LossyFeed. *)
Positions(h, b) == {b} \cup {h[i] : i \in 1 .. Len(h)}

LEMMA LastIsGreatest ==
  ASSUME NEW h \in Seq(Int), NEW b \in Int,
         Increasing(h) \/ \A i \in 1 .. Len(h) : h[i] <= b
  PROVE  LastOf(h, b) = CHOOSE p \in Positions(h, b) : \A r \in Positions(h, b) : r <= p
<1>1. PICK m, l : m = Len(h) /\ m \in Nat /\ l = LastOf(h, b) /\ l \in Int
  BY LastIsInt, LenProperties
<1>2. \A i \in 1 .. m : h[i] \in Int
  BY <1>1, ElementOfSeq
<1>3. \A r \in Positions(h, b) : r \in Int /\ (r = b \/ \E i \in 1 .. m : r = h[i])
  BY <1>1, <1>2 DEF Positions
<1>4. ASSUME NEW i \in 1 .. m PROVE h[i] <= l
  <2>1. CASE \A j \in 1 .. Len(h) : h[j] <= b
    <3>1. l = b
      BY <1>1, <2>1, LastIsBase
    <3> QED
      BY <1>1, <2>1, <3>1
  <2>2. CASE Increasing(h)
    <3>1. m \in 1 .. m /\ h # <<>>
      BY <1>1, EmptySeq
    <3>2. PICK x, y : x = h[i] /\ y = h[m] /\ x \in Int /\ y \in Int
      BY <1>2, <3>1
    <3>3. x <= y
      <4>1. DOMAIN h = 1 .. m
        BY <1>1
      <4>2. i = m \/ i < m
        BY <1>1
      <4>3. CASE i = m
        BY <3>2, <4>3
      <4>4. CASE i < m
        BY <2>2, <3>1, <3>2, <4>1, <4>4 DEF Increasing
      <4> QED
        BY <4>2, <4>3, <4>4
    <3>4. l = IF y > b THEN y ELSE b
      BY <1>1, <3>1, <3>2 DEF LastOf
    <3> QED
      BY <3>2, <3>3, <3>4
  <2> QED
    BY <2>1, <2>2
<1>5. b <= l /\ l \in Positions(h, b)
  <2>1. h # <<>> => m \in 1 .. m
    BY <1>1, EmptySeq
  <2>2. l = b \/ (m \in 1 .. m /\ l = h[m])
    BY <1>1, <2>1 DEF LastOf
  <2>3. CASE l = b
    BY <1>1, <2>3 DEF Positions
  <2>4. CASE l # b
    <3>1. m \in 1 .. m /\ l = h[m] /\ l > b
      BY <1>1, <2>1, <2>2, <2>4 DEF LastOf
    <3> QED
      BY <1>1, <3>1 DEF Positions
  <2> QED
    BY <2>3, <2>4
<1>6. \A r \in Positions(h, b) : r <= l
  BY <1>3, <1>4, <1>5
<1>7. \A p \in Positions(h, b) : (\A r \in Positions(h, b) : r <= p) => p = l
  <2>1. ASSUME NEW p \in Positions(h, b), \A r \in Positions(h, b) : r <= p PROVE p = l
    <3>1. p \in Int /\ l <= p /\ p <= l
      BY <1>3, <1>5, <1>6, <2>1
    <3> QED
      BY <1>1, <3>1
  <2> QED
    BY <2>1
<1>8. PICK G : G = Positions(h, b)
  OBVIOUS
<1>9. l = CHOOSE p \in G : \A r \in G : r <= p
  <2>1. l \in G /\ (\A r \in G : r <= l)
    BY <1>5, <1>6, <1>8
  <2>2. \A p \in G : (\A r \in G : r <= p) => p = l
    BY <1>7, <1>8
  <2> QED
    BY <2>1, <2>2, Zenon
<1> QED
  BY <1>1, <1>8, <1>9

Mapped == [c \in Clients |-> LastGiven(c)] = TheLast

LEMMA MappingIs ==
  ASSUME FeedInv
  PROVE  Mapped
<1>1. ASSUME NEW c \in Clients, c \in subscribers PROVE LastGiven(c) = Given(c)
  <2>1. PICK h, b : h = Had(c) /\ b = since[c]
    OBVIOUS
  <2>2. h \in Seq(Int) /\ b \in Int /\ (Increasing(h) \/ \A i \in 1 .. Len(h) : h[i] <= b)
    <3>1. PICK d, f, x, q, n : /\ d = dropped[c] /\ f = feed[c] /\ x = inflight[c]
                               /\ q = queue[c] /\ n = Len(log)
      OBVIOUS
    <3>2. conn[c] \in {"greeting", "up"} /\ Sees(conn[c], b, d, f, x, q, n) /\ h = f \o x
      BY <1>1, <2>1, <3>1 DEF FeedInv, Had
    <3>3. CASE conn[c] = "up"
      <4>1. \E r : Fits(f \o x, q, b, d, n, r)
        BY <3>2, <3>3 DEF Sees
      <4> QED
        BY <3>2, <4>1 DEF Fits, Sees
    <3>4. CASE conn[c] = "greeting"
      <4>1. /\ f \in Seq(Int) /\ x \in Seq(Int) /\ b \in Nat /\ Block(x, b)
            /\ \A i \in 1 .. Len(f) : f[i] <= b
        BY <3>2, <3>4 DEF Sees
      <4>2. \A i \in 1 .. Len(x) : x[i] <= b
        BY <4>1, BlockBelow
      <4>3. h \in Seq(Int) /\ (\A i \in 1 .. Len(h) : h[i] <= b)
        BY <3>2, <4>1, <4>2, JoinedBelow
      <4> QED
        BY <4>1, <4>3
    <3> QED
      BY <3>2, <3>3, <3>4
  <2>3. LastOf(h, b) = CHOOSE p \in Positions(h, b) : \A r \in Positions(h, b) : r <= p
    BY <2>2, LastIsGreatest
  <2>4. /\ LastGiven(c) = CHOOSE p \in Positions(h, b) : \A r \in Positions(h, b) : r <= p
        /\ Given(c) = LastOf(h, b)
    BY <1>1, <2>1, Zenon DEF LastGiven, Positions, Given
  <2> QED
    BY <2>3, <2>4, Zenon
<1>2. ASSUME NEW c \in Clients, c \notin subscribers PROVE LastGiven(c) = Given(c)
  BY <1>2, Zenon DEF LastGiven, Given
<1>3. \A c \in Clients : LastGiven(c) = Given(c)
  BY <1>1, <1>2
<1> QED
  BY <1>3, Zenon DEF Mapped, TheLast

LEMMA FeedMoves ==
  ASSUME FeedInv, Mapped, Mapped', Moves
  PROVE  [Feed!FeedNext]_(Feed!feedVars)
<1>1. PICK l, m, n, u : l = TheLast /\ m = TheLast' /\ n = Len(log) /\ u = Len(log')
  OBVIOUS
<1>2. [c \in Clients |-> LastGiven(c)] = l /\ [c \in Clients |-> LastGiven(c)]' = m
  BY <1>1, Zenon DEF Mapped
<1>3. n \in Nat
  BY <1>1, LenProperties DEF FeedInv
<1>4. \A c \in subscribers : c \in Clients
  BY DEF FeedInv
<1>5. CASE u \in {n + 1, n + 2} /\ subscribers' = subscribers /\ m = l
  <2>1. \E k \in 1 .. 2 : u = n + k
    BY <1>3, <1>5
  <2>2. Feed!Publish
    BY <1>1, <1>2, <1>5, <2>1, Zenon DEF Feed!Publish
  <2> QED
    BY <2>2 DEF Feed!FeedNext
<1>6. ASSUME u = n, NEW c \in Clients, c \notin subscribers,
             subscribers' = subscribers \cup {c}, m = [l EXCEPT ![c] = n]
      PROVE  Feed!FeedNext
  <2>1. Feed!Join(c)
    BY <1>1, <1>2, <1>6, Zenon DEF Feed!Join
  <2> QED
    BY <2>1 DEF Feed!FeedNext
<1>7. ASSUME u = n, NEW c \in subscribers, l[c] < n, subscribers' = subscribers,
             m = [l EXCEPT ![c] = IF l[c] + 1 > n - QueueSize THEN l[c] + 1
                                  ELSE n - QueueSize + 1]
      PROVE  Feed!FeedNext
  <2>1. Feed!Give(c)
    BY <1>1, <1>2, <1>7, Zenon DEF Feed!Give, Feed!Oldest
  <2> QED
    BY <1>4, <2>1 DEF Feed!FeedNext
<1>8. ASSUME u = n, NEW gone \in {Clients} \cup {{c} : c \in Clients},
             subscribers' = subscribers \ gone,
             m = [c \in Clients |-> IF c \in gone THEN 0 ELSE l[c]]
      PROVE  Feed!FeedNext
  <2>1. Feed!Part(gone)
    BY <1>1, <1>2, <1>8, Zenon DEF Feed!Part
  <2> QED
    BY <2>1 DEF Feed!FeedNext
<1>9. CASE u = n /\ subscribers' = subscribers /\ m = l
  BY <1>1, <1>2, <1>9, Zenon DEF Feed!feedVars
<1> QED
  BY <1>1, <1>5, <1>6, <1>7, <1>8, <1>9 DEF Moves

(* The bus with its sockets keeps the promise of LossyFeed: from the moment it is *)
(* connected a page is given the events in order, and always the oldest it has    *)
(* not had among the QueueSize newest.                                            *)
THEOREM FeedImplemented == Spec => ImplementsFeed
<1>1. Init => Feed!FeedInit
  <2> SUFFICES ASSUME Init PROVE Feed!FeedInit
    OBVIOUS
  <2>1. Len(log) = 0 /\ subscribers = {}
    BY DEF Init, BusInit
  <2>2. [c \in Clients |-> LastGiven(c)] = [c \in Clients |-> 0]
    BY <2>1 DEF LastGiven
  <2> QED
    BY <2>1, <2>2 DEF Feed!FeedInit
<1>2. FeedInv => Mapped
  BY MappingIs
<1>3. FeedInv /\ [Next]_vars => Moves
  BY FeedStep
<1>4. FeedInv /\ Mapped /\ Mapped' /\ Moves => [Feed!FeedNext]_(Feed!feedVars)
  BY FeedMoves
<1> QED
  BY FeedHolds, <1>1, <1>2, <1>3, <1>4, PTL DEF Spec, ImplementsFeed, Feed!FeedSpec

=============================================================================
