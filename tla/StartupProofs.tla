--------------------------- MODULE StartupProofs ---------------------------
(***************************************************************************)
(* The pace of the two schedulers, proved for every length of a minute,    *)
(* every step of the cron expression and all periods with which a server   *)
(* keeps up. The arithmetic of periods and ticks is in the lemmas; what    *)
(* remains is how far the last block made and the last turn of SendBlock   *)
(* may be apart when a given number of blocks waits.                       *)
(***************************************************************************)
EXTENDS Startup, TLAPS

(* Division with remainder.                                                *)
LEMMA Quotient ==
    ASSUME NEW a \in Nat, NEW b \in Nat \ {0}
    PROVE  /\ a \div b \in Nat /\ (a \div b) * b \in Nat
           /\ (a \div b) * b <= a /\ a < (a \div b) * b + b
           /\ a % b \in Nat /\ a % b < b /\ a = (a \div b) * b + (a % b)
<1> DEFINE q == a \div b
           r == a % b
<1>1. q \in Nat /\ r \in 0 .. b - 1 /\ a = b * q + r
  OBVIOUS
<1> HIDE DEF q, r
<1>2. q * b \in Nat /\ q * b = b * q
  BY <1>1, SMT
<1>3. q \in Nat /\ q * b \in Nat /\ q * b <= a /\ a < q * b + b
      /\ r \in Nat /\ r < b /\ a = q * b + r
  BY <1>1, <1>2
<1>4. QED
  BY <1>3 DEF q, r

LEMMA Product ==
    ASSUME NEW a \in Nat, NEW b \in Nat
    PROVE  a * b \in Nat
OBVIOUS

(* Periods of the same length do not overlap.                              *)
LEMMA Apart ==
    ASSUME NEW p \in Nat, NEW q \in Nat, NEW b \in Nat \ {0}, p < q
    PROVE  p * b + b <= q * b
<1>1. PICK d \in Nat : q = p + 1 + d
  <2>1. q - p - 1 \in Nat /\ q = p + 1 + (q - p - 1)
    OBVIOUS
  <2>2. QED
    BY <2>1
<1>2. d * b \in Nat /\ p * b \in Nat
  BY Product
<1>3. q * b = p * b + b + d * b
  BY <1>1, SMT
<1>4. QED
  BY <1>2, <1>3

(* A number in the q-th period of length b.                                *)
LEMMA Within ==
    ASSUME NEW a \in Nat, NEW b \in Nat \ {0}, NEW q \in Nat,
           q * b <= a, a < q * b + b
    PROVE  a \div b = q /\ a % b = a - q * b
<1> DEFINE p == a \div b
           low == p * b
           here == q * b
<1>1. /\ p \in Nat /\ low \in Nat /\ low <= a /\ a < low + b
      /\ a = low + (a % b) /\ a % b \in Nat
  BY Quotient
<1>2. here \in Nat
  BY Product
<1>3. p < q => low + b <= here
  <2> HIDE DEF p
  <2>1. QED BY <1>1, Apart DEF low, here
<1>4. q < p => here + b <= low
  <2> HIDE DEF p
  <2>1. QED BY <1>1, Apart DEF low, here
<1> HIDE DEF p, low, here
<1>5. here <= a /\ a < here + b
  BY DEF here
<1>6. p = q
  BY <1>1, <1>2, <1>3, <1>4, <1>5
<1>7. low = here
  BY <1>6 DEF low, here
<1>8. a % b = a - here
  BY <1>1, <1>2, <1>7
<1>9. QED
  BY <1>6, <1>8 DEF p, here

LEMMA Multiple ==
    ASSUME NEW q \in Nat, NEW b \in Nat \ {0}
    PROVE  (q * b) % b = 0 /\ (q * b) \div b = q
<1>1. q * b \in Nat
  BY Product
<1> DEFINE a == q * b
<1>2. a \in Nat /\ q * b <= a /\ a < q * b + b /\ a - q * b = 0
  BY <1>1
<1>3. a % b = 0 /\ a \div b = q
  <2> HIDE DEF a
  <2>1. a \div b = q /\ a % b = a - q * b
    BY <1>2, Within
  <2>2. QED
    BY <1>2, <2>1
<1>4. QED
  BY <1>3 DEF a

----------------------------------------------------------------------------
(* The ticks of SendBlock.                                                 *)
IsTick(t) == (t % Minute) % Step = 0

LEMMA Constants ==
    Minute \in Nat \ {0} /\ Step \in Nat \ {0} /\ Step <= Minute
BY StartupAssumption

(* Among any Step seconds in a row there is one with a tick.               *)
LEMMA TickWithin ==
    ASSUME NEW from \in Nat
    PROVE  \E u \in from .. from + Step - 1 : IsTick(u)
<1> DEFINE q == from \div Minute
           m == from % Minute
           r == m % Step
           k == m \div Step
<1>1. /\ q \in Nat /\ m \in Nat /\ m < Minute /\ q * Minute \in Nat
      /\ from = q * Minute + m
  BY Constants, Quotient
<1>2. r \in Nat /\ r < Step /\ k \in Nat /\ k * Step \in Nat /\ m = k * Step + r
  <2> HIDE DEF m
  <2>1. QED BY <1>1, Constants, Quotient
<1>3. CASE r = 0
  <2>1. IsTick(from) /\ from \in from .. from + Step - 1
    BY <1>3, Constants DEF IsTick
  <2>2. QED
    BY <2>1
<1> HIDE DEF q, m, r, k
<1>4. CASE r # 0 /\ m + (Step - r) < Minute
  <2> DEFINE u == from + (Step - r)
             v == m + (Step - r)
  <2>1. u \in from .. from + Step - 1 /\ u \in Nat /\ v \in Nat
    BY <1>1, <1>2, <1>4, Constants
  <2>2. q * Minute <= u /\ u < q * Minute + Minute /\ u - q * Minute = v
    BY <1>1, <1>2, <1>4, Constants
  <2>3. u % Minute = v
    <3> HIDE DEF u, v
    <3>1. QED BY <1>1, <2>1, <2>2, Constants, Within
  <2>4. v = (k + 1) * Step
    <3>1. (k + 1) * Step = k * Step + Step
      BY <1>2, Constants, SMT
    <3>2. v = k * Step + Step
      BY <1>1, <1>2, Constants
    <3>3. QED
      BY <3>1, <3>2
  <2>5. v % Step = 0
    <3>1. k + 1 \in Nat
      BY <1>2
    <3>2. ((k + 1) * Step) % Step = 0
      BY <3>1, Constants, Multiple
    <3>3. QED
      BY <2>4, <3>2
  <2>6. IsTick(u)
    BY <2>3, <2>5 DEF IsTick
  <2>7. QED
    BY <2>1, <2>6
<1>5. CASE r # 0 /\ ~ (m + (Step - r) < Minute)
  <2> DEFINE u == from + (Minute - m)
  <2>1. u \in from .. from + Step - 1
    BY <1>1, <1>2, <1>5, Constants
  <2>2. u = (q + 1) * Minute
    <3>1. (q + 1) * Minute = q * Minute + Minute
      BY <1>1, Constants, SMT
    <3>2. QED
      BY <1>1, <3>1, Constants
  <2>3. u % Minute = 0
    <3>1. q + 1 \in Nat
      BY <1>1
    <3>2. QED
      BY <2>2, <3>1, Constants, Multiple
  <2>4. 0 % Step = 0
    BY Constants
  <2>5. IsTick(u)
    BY <2>3, <2>4 DEF IsTick
  <2>6. QED
    BY <2>1, <2>5
<1>6. QED
  BY <1>3, <1>4, <1>5

----------------------------------------------------------------------------
(* Periods.                                                                *)
LEMMA Later ==
    ASSUME NEW a \in Nat, NEW c \in Nat, NEW b \in Nat \ {0}, a <= c
    PROVE  a \div b <= c \div b
<1> DEFINE p == a \div b
           q == c \div b
<1>1. /\ p \in Nat /\ q \in Nat /\ p * b \in Nat /\ q * b \in Nat
      /\ p * b <= a /\ c < q * b + b
  BY Quotient
<1> HIDE DEF p, q
<1>2. q < p => q * b + b <= p * b
  BY <1>1, Apart
<1>3. p <= q
  BY <1>1, <1>2
<1>4. QED
  BY <1>3 DEF p, q

(* A second is at most one period further than the last.                   *)
LEMMA NextPeriod ==
    ASSUME NEW a \in Nat, NEW b \in Nat \ {0}
    PROVE  (a + 1) \div b <= (a \div b) + 1
<1> DEFINE p == a \div b
           q == (a + 1) \div b
<1>1. /\ p \in Nat /\ q \in Nat /\ p * b \in Nat /\ q * b \in Nat
      /\ a < p * b + b /\ q * b <= a + 1
  BY Quotient
<1>2. (p + 1) * b = p * b + b
  <2> HIDE DEF p
  <2>1. QED BY <1>1, SMT
<1> HIDE DEF p, q
<1>3. p + 1 < q => (p + 1) * b + b <= q * b
  BY <1>1, Apart
<1>4. q <= p + 1
  BY <1>1, <1>2, <1>3
<1>5. QED
  BY <1>4 DEF p, q

(* The number of the period of Node in which period q of SendBlock begins. *)
In(q, s, n) == (q * s) \div n

(* Within two periods of SendBlock at most two of Node begin after the one  *)
(* under way, and within one at most one, when SendBlock's are not longer. *)
LEMMA TwoPeriods ==
    ASSUME NEW q \in Nat, NEW s \in Nat \ {0}, NEW n \in Nat \ {0}, s <= n,
           NEW t \in Nat, t \div s <= q + 1
    PROVE  t \div n <= In(q, s, n) + 2
<1> DEFINE start == q * s
           p == start \div n
           r == t \div n
           k == t \div s
<1>1. start \in Nat
  BY Product
<1>2. p \in Nat /\ p * n \in Nat /\ start < p * n + n
  <2> HIDE DEF start
  <2>1. QED BY <1>1, Quotient
<1>3. /\ r \in Nat /\ r * n \in Nat /\ r * n <= t
      /\ k \in Nat /\ k * s \in Nat /\ t < k * s + s
  BY Quotient
<1>4. k * s <= start + s
  <2> HIDE DEF k
  <2>1. k <= q \/ k = q + 1
    BY <1>3 DEF k
  <2>2. CASE k = q + 1
    <3>1. (q + 1) * s = q * s + s
      BY SMT
    <3>2. QED
      BY <1>1, <2>2, <3>1
  <2>3. CASE k = q
    BY <1>1, <2>3
  <2>4. CASE k < q
    <3>1. k * s + s <= q * s
      BY <1>3, <2>4, Apart
    <3>2. QED
      BY <1>1, <1>3, <3>1
  <2>5. QED
    BY <1>3, <2>1, <2>2, <2>3, <2>4
<1>5. t < p * n + n + n + n
  <2> HIDE DEF k, p, start
  <2>1. QED BY <1>1, <1>2, <1>3, <1>4
<1>6. (p + 3) * n = p * n + n + n + n
  <2> HIDE DEF p
  <2>1. QED BY <1>2, SMT
<1>7. p + 2 < r => FALSE
  <2> HIDE DEF p, r
  <2>1. p + 2 < r => (p + 2) * n + n <= r * n
    BY <1>2, <1>3, Apart
  <2>2. (p + 2) * n + n = (p + 3) * n
    BY <1>2, SMT
  <2>3. (p + 2) * n \in Nat /\ (p + 3) * n \in Nat
    BY <1>2, Product
  <2>4. QED
    BY <1>2, <1>3, <1>5, <1>6, <2>1, <2>2, <2>3
<1>8. r <= p + 2
  <2> HIDE DEF p, r
  <2>1. QED BY <1>2, <1>3, <1>7
<1>9. QED
  BY <1>8 DEF In, p, r, start

LEMMA OnePeriod ==
    ASSUME NEW q \in Nat, NEW s \in Nat \ {0}, NEW n \in Nat \ {0}, s <= n
    PROVE  In(q, s, n) \in Nat /\ In(q + 1, s, n) \in Nat /\ In(q + 1, s, n) <= In(q, s, n) + 1
<1> DEFINE start == q * s
           next == (q + 1) * s
           p == start \div n
           r == next \div n
<1>1. start \in Nat /\ next \in Nat /\ next = start + s
  <2>1. (q + 1) * s = q * s + s
    BY SMT
  <2>2. q * s \in Nat
    BY Product
  <2>3. QED
    BY <2>1, <2>2
<1> HIDE DEF start, next
<1>2. /\ p \in Nat /\ p * n \in Nat /\ start < p * n + n
      /\ r \in Nat /\ r * n \in Nat /\ r * n <= next
  BY <1>1, Quotient
<1> HIDE DEF p, r
<1>3. (p + 1) * n = p * n + n
  BY <1>2, SMT
<1>4. p + 1 < r => (p + 1) * n + n <= r * n
  BY <1>2, Apart
<1>5. r <= p + 1
  BY <1>1, <1>2, <1>3, <1>4
<1>6. QED
  BY <1>2, <1>5 DEF In, p, r, start, next

(* A period does not begin after a second it contains.                     *)
LEMMA BeginsBefore ==
    ASSUME NEW w \in Nat, NEW t \in Nat, w <= t, NEW s \in Nat \ {0}, NEW n \in Nat \ {0}
    PROVE  In(w \div s, s, n) \in Nat /\ In(w \div s, s, n) <= t \div n
<1> DEFINE start == (w \div s) * s
<1>1. start \in Nat /\ start <= w
  BY Quotient
<1> HIDE DEF start
<1>2. start \div n \in Nat /\ start \div n <= t \div n
  BY <1>1, Later, Quotient
<1>3. QED
  BY <1>2 DEF In, start

----------------------------------------------------------------------------
(* The inductive invariant.                                                *)
interval == node["interval"]
period == node["send_interval"]
nodeStamp == old_time_stamp["node"]
sendStamp == old_time_stamp["send_block"]

Making == IF "node" \in working THEN 1 ELSE 0
Owed == IF owing THEN 1 ELSE 0

(* The blocks made or in the making for which SendBlock has had no turn.   *)
Ahead == unsent + Making - Owed - missed

(* The last second whose tick of SendBlock is over.                        *)
Seen == IF "send_block" \in ticks THEN now - 1 ELSE now

(* The period of Node that was under way when SendBlock's with w began.    *)
Begun(w) == In(w \div period, period, interval)

(* SendBlock has had its turn of the period with second w, and not since.  *)
(* It is one period behind at most, and Node's last work is as far ahead of *)
(* that turn as blocks wait.                                               *)
Turn(w) ==
    /\ sendStamp <= w
    /\ now \div period <= (w \div period) + 1
    /\ \A t \in w + 1 .. Seen : ~ IsTick(t)
    /\ \/ Ahead <= before + 1
       \/ Ahead <= before + 2 + (nodeStamp \div interval) - Begun(w)

Types ==
    /\ file \in Files /\ node \in [NodeFields -> Int]
    /\ now \in Nat /\ unsent \in Nat /\ before \in Nat /\ missed \in Nat
    /\ old_time_stamp \in [Names -> Nat]
    /\ \A name \in Names : old_time_stamp[name] <= now

(* What is known to the chain or to a work is in the table.                *)
Rows == submitted \/ data = "next" => unsent > 0

Lives == phase = "reading" => started = {}

Backlog == KeepsUp => \E w \in 0 .. now : Turn(w)

IInv == Types /\ Rows /\ Lives /\ Backlog

LEMMA Numbers ==
    ASSUME Types, KeepsUp
    PROVE  /\ interval \in Nat \ {0} /\ period \in Nat \ {0}
           /\ period <= interval /\ Step <= period
           /\ Making \in {0, 1} /\ Owed \in {0, 1} /\ Ahead \in Int
           /\ nodeStamp \in Nat /\ sendStamp \in Nat /\ nodeStamp <= now /\ sendStamp <= now
           /\ now \in Nat /\ unsent \in Nat /\ before \in Nat /\ missed \in Nat
           /\ "send_block" \in started
<1>1. interval \in Int /\ period \in Int
  BY DEF Types, interval, period, NodeFields
<1>2. interval > 0 /\ period > 0 /\ period <= interval /\ Step <= period
      /\ "send_block" \in started
  BY DEF KeepsUp, interval, period
<1>3. Making \in {0, 1} /\ Owed \in {0, 1}
  BY DEF Making, Owed
<1>4. unsent \in Nat /\ missed \in Nat /\ before \in Nat /\ now \in Nat
  BY DEF Types
<1>5. Ahead \in Int
  BY <1>3, <1>4 DEF Ahead
<1>6. nodeStamp \in Nat /\ sendStamp \in Nat /\ nodeStamp <= now /\ sendStamp <= now
  BY DEF Types, nodeStamp, sendStamp, Names
<1>7. QED
  BY <1>1, <1>2, <1>3, <1>4, <1>5, <1>6

(* The period that was under way, and the one of Node's last work.         *)
LEMMA Periods ==
    ASSUME Types, KeepsUp, NEW w \in 0 .. now
    PROVE  /\ w \in Nat /\ Begun(w) \in Nat /\ Begun(w) <= now \div interval
           /\ now \div interval \in Nat /\ nodeStamp \div interval \in Nat
<1>1. /\ interval \in Nat \ {0} /\ period \in Nat \ {0} /\ now \in Nat /\ nodeStamp \in Nat
  BY Numbers
<1>2. w \in Nat /\ w <= now
  BY <1>1
<1>3. /\ In(w \div period, period, interval) \in Nat
      /\ In(w \div period, period, interval) <= now \div interval
  BY ONLY <1>1, <1>2, BeginsBefore
<1>4. now \div interval \in Nat /\ nodeStamp \div interval \in Nat
  BY ONLY <1>1, Quotient
<1>5. QED
  BY <1>2, <1>3, <1>4 DEF Begun

LEMMA AheadType ==
    ASSUME Types'
    PROVE  Ahead' \in Int
<1>1. unsent' \in Nat /\ missed' \in Nat
  BY DEF Types
<1>2. Making' \in {0, 1} /\ Owed' \in {0, 1}
  BY DEF Making, Owed
<1>3. QED
  BY <1>1, <1>2 DEF Ahead

LEMMA Bounded == IInv => BacklogBounded
<1> SUFFICES ASSUME IInv, KeepsUp PROVE unsent <= before + 5 + missed
  BY DEF BacklogBounded
<1>1. Types /\ KeepsUp
  BY DEF IInv
<1>2. PICK w \in 0 .. now : Turn(w)
  BY DEF IInv, Backlog
<1>3. /\ interval \in Nat \ {0} /\ period \in Nat \ {0} /\ period <= interval
      /\ now \in Nat /\ nodeStamp \in Nat /\ nodeStamp <= now
      /\ Making \in {0, 1} /\ Owed \in {0, 1} /\ unsent \in Nat /\ before \in Nat /\ missed \in Nat
  BY <1>1, Numbers
<1>4. w \in Nat /\ w \div period \in Nat /\ now \div period <= (w \div period) + 1
  BY <1>2, <1>3, Quotient DEF Turn
<1>5. now \div interval <= Begun(w) + 2
  BY <1>3, <1>4, TwoPeriods DEF Begun
<1>6. nodeStamp \div interval <= now \div interval
  BY <1>3, Later
<1>7. Begun(w) \in Nat /\ now \div interval \in Nat /\ nodeStamp \div interval \in Nat
  BY <1>1, <1>2, Periods
<1>8. Ahead <= before + 4
  <2>1. Ahead <= before + 1 \/ Ahead <= before + 2 + (nodeStamp \div interval) - Begun(w)
    BY <1>2 DEF Turn
  <2>2. Ahead \in Int
    BY <1>1, Numbers
  <2>3. QED
    BY <1>3, <1>5, <1>6, <1>7, <2>1, <2>2
<1>9. QED
  BY <1>3, <1>8 DEF Ahead

LEMMA Beginning == Init => IInv
<1> SUFFICES ASSUME Init PROVE IInv
  OBVIOUS
<1>1. /\ phase = "reading" /\ started = {} /\ file \in Files /\ node = NodeDefault
      /\ now = 0 /\ before = unsent /\ unsent \in Nat /\ missed = 0
      /\ old_time_stamp = [name \in Names |-> 0] /\ submitted = FALSE /\ data = "none"
  BY StartupAssumption DEF Init
<1>2. Types
  <2>1. node \in [NodeFields -> Int]
    BY <1>1, StartupAssumption
  <2>2. QED
    BY <1>1, <2>1 DEF Types
<1>3. Rows /\ Lives
  BY <1>1 DEF Rows, Lives
<1>4. Backlog
  BY <1>1 DEF Backlog, KeepsUp
<1>5. QED
  BY <1>2, <1>3, <1>4 DEF IInv

----------------------------------------------------------------------------
(* Four ways in which the backlog is kept. First: nothing changes for it,  *)
(* or as many blocks go as come.                                           *)
LEMMA Stays ==
    ASSUME KeepsUp' => KeepsUp, Backlog, Types, Types',
           UNCHANGED <<now, ticks, node, old_time_stamp, before>>,
           Ahead' <= Ahead \/ Ahead' <= before + 1
    PROVE  Backlog'
<1> SUFFICES ASSUME KeepsUp' PROVE \E w \in 0 .. now : Turn(w)'
  BY DEF Backlog
<1>1. PICK w \in 0 .. now : Turn(w)
  BY DEF Backlog
<1>2. UNCHANGED <<interval, period, nodeStamp, sendStamp, Seen>>
  BY DEF interval, period, nodeStamp, sendStamp, Seen
<1>3. Begun(w)' = Begun(w)
  BY <1>2 DEF Begun, In
<1>4. Ahead \in Int /\ Ahead' \in Int /\ before \in Nat
  BY Numbers, AheadType
<1>5. Begun(w) \in Nat /\ nodeStamp \div interval \in Nat
  BY Periods
<1>6. \/ Ahead' <= before + 1
      \/ Ahead' <= before + 2 + (nodeStamp \div interval) - Begun(w)
  <2>1. Ahead <= before + 1 \/ Ahead <= before + 2 + (nodeStamp \div interval) - Begun(w)
    BY <1>1 DEF Turn
  <2>2. QED
    BY <1>4, <1>5, <2>1
<1>7. Turn(w)'
  <2>1. /\ sendStamp' <= w /\ (now \div period)' <= (w \div period') + 1
        /\ \A t \in w + 1 .. Seen' : ~ IsTick(t)
    BY <1>1, <1>2 DEF Turn
  <2>2. before' = before /\ (nodeStamp \div interval)' = nodeStamp \div interval
    BY <1>2
  <2>3. QED
    BY <1>3, <1>6, <2>1, <2>2 DEF Turn, IsTick
<1>8. QED
  BY <1>7

(* Second: Node begins a work, in a new period.                            *)
LEMMA NodeBegins ==
    ASSUME KeepsUp, Backlog, Types, Types',
           UNCHANGED <<now, node, before, sendStamp, Seen>>,
           nodeStamp' = now, nodeStamp \div interval # now \div interval, Ahead' <= Ahead + 1
    PROVE  \E w \in 0 .. now : Turn(w)'
<1>1. PICK w \in 0 .. now : Turn(w)
  BY DEF Backlog
<1>2. UNCHANGED <<interval, period>>
  BY DEF interval, period
<1>3. Begun(w)' = Begun(w)
  BY <1>2 DEF Begun, In
<1>4. /\ Ahead \in Int /\ before \in Nat /\ now \in Nat
      /\ interval \in Nat \ {0} /\ period \in Nat \ {0} /\ nodeStamp \in Nat /\ nodeStamp <= now
  BY Numbers
<1>5. Ahead' \in Int
  BY AheadType
<1>6. /\ Begun(w) \in Nat /\ Begun(w) <= now \div interval
      /\ nodeStamp \div interval \in Nat /\ now \div interval \in Nat
  BY Periods
<1>7. nodeStamp \div interval <= now \div interval
  BY <1>4, Later
<1>8. Ahead' <= before + 2 + (now \div interval) - Begun(w)
  <2> DEFINE here == nodeStamp \div interval
             there == now \div interval
  <2>1. Ahead <= before + 1 \/ Ahead <= before + 2 + here - Begun(w)
    BY <1>1 DEF Turn
  <2>2. here \in Nat /\ there \in Nat /\ here < there /\ Begun(w) <= there
    BY <1>6, <1>7
  <2> HIDE DEF here, there
  <2>3. Ahead' <= before + 2 + there - Begun(w)
    BY <1>4, <1>5, <1>6, <2>1, <2>2
  <2>4. QED
    BY <2>3 DEF there
<1>9. Turn(w)'
  <2>1. /\ sendStamp' <= w /\ (now \div period)' <= (w \div period') + 1
        /\ \A t \in w + 1 .. Seen' : ~ IsTick(t)
    BY <1>1, <1>2 DEF Turn
  <2>2. before' = before /\ (nodeStamp \div interval)' = now \div interval
    BY <1>2
  <2>3. QED
    BY <1>3, <1>8, <2>1, <2>2 DEF Turn, IsTick
<1>10. QED
  BY <1>9

(* Third: a tick of SendBlock is over. Either it was not due, or there is  *)
(* one block less that has had no turn.                                    *)
LEMMA TurnPasses ==
    ASSUME KeepsUp, Backlog, Types, Types',
           UNCHANGED <<node, before, nodeStamp>>,
           now' \in {now, now + 1}, sendStamp' \in {sendStamp, now},
           \A t \in now + 1 .. Seen' : ~ IsTick(t),
           \/ Ahead' <= Ahead - 1
           \/ Ahead' <= Ahead /\ sendStamp \div period = now \div period
    PROVE  \E w \in 0 .. now : Turn(w)'
<1>1. PICK w \in 0 .. now : Turn(w)
  BY DEF Backlog
<1>2. UNCHANGED <<interval, period>>
  BY DEF interval, period
<1>3. /\ Ahead \in Int /\ before \in Nat /\ now \in Nat
      /\ interval \in Nat \ {0} /\ period \in Nat \ {0} /\ period <= interval
      /\ nodeStamp \in Nat /\ sendStamp \in Nat /\ sendStamp <= now
  BY Numbers
<1>4. Ahead' \in Int
  BY AheadType
<1>5. PICK v \in 0 .. now : v = now
  BY <1>3
<1> DEFINE p == w \div period
           q == v \div period
<1>6. /\ p \in Nat /\ q \in Nat /\ p <= q /\ q <= p + 1
      /\ sendStamp \div period \in Nat /\ sendStamp \div period <= p
  <2>1. w \in Nat /\ v \in Nat /\ sendStamp <= w /\ w <= v
    BY <1>1, <1>3, <1>5 DEF Turn
  <2>2. q <= p + 1
    BY <1>1, <1>5 DEF Turn
  <2>3. QED
    BY <1>3, <2>1, <2>2, Later, Quotient
<1>7. Begun(w) = In(p, period, interval) /\ Begun(v) = In(q, period, interval)
  BY DEF Begun
<1> HIDE DEF p, q
<1>8. q = p \/ q = p + 1
  BY <1>6
<1>9. /\ Begun(w) \in Nat /\ Begun(v) \in Nat /\ Begun(v) <= Begun(w) + 1
      /\ (q = p => Begun(v) = Begun(w))
  <2>1. /\ In(p, period, interval) \in Nat /\ In(p + 1, period, interval) \in Nat
        /\ In(p + 1, period, interval) <= In(p, period, interval) + 1
    BY ONLY <1>3, <1>6, OnePeriod
  <2>2. CASE q = p
    BY <1>7, <2>1, <2>2
  <2>3. CASE q = p + 1
    <3>1. q # p
      BY <1>6, <2>3
    <3>2. QED
      BY <1>7, <2>1, <2>3, <3>1
  <2>4. QED
    BY <1>8, <2>2, <2>3
<1>10. Ahead' <= Ahead - 1 \/ (Ahead' <= Ahead /\ q = p)
  BY <1>3, <1>5, <1>6 DEF q
<1>11. nodeStamp \div interval \in Nat
  BY <1>3, Quotient
<1>12. \/ Ahead' <= before + 1
       \/ Ahead' <= before + 2 + (nodeStamp \div interval) - Begun(v)
  <2>1. Ahead <= before + 1 \/ Ahead <= before + 2 + (nodeStamp \div interval) - Begun(w)
    BY <1>1 DEF Turn
  <2> DEFINE here == nodeStamp \div interval
  <2> HIDE DEF here
  <2>2. here \in Nat
    BY <1>11 DEF here
  <2>3. Ahead <= before + 1 \/ Ahead <= before + 2 + here - Begun(w)
    BY <2>1 DEF here
  <2>4. Ahead' <= before + 1 \/ Ahead' <= before + 2 + here - Begun(v)
    BY <1>3, <1>4, <1>9, <1>10, <2>2, <2>3
  <2>5. QED
    BY <2>4 DEF here
<1>13. Begun(v)' = Begun(v)
  BY <1>2 DEF Begun, In
<1>14. (now \div period)' <= (v \div period') + 1
  <2>1. now' \div period <= (now \div period) + 1
    <3> DEFINE t == now \div period
    <3>1. t \in Nat /\ (now + 1) \div period <= t + 1
      BY <1>3, NextPeriod, Quotient
    <3> HIDE DEF t
    <3>2. CASE now' = now + 1
      BY <3>1, <3>2 DEF t
    <3>3. CASE now' = now
      BY <3>1, <3>3 DEF t
    <3>4. QED
      BY <3>2, <3>3
  <2>2. QED
    BY <1>2, <1>5, <2>1
<1>15. Turn(v)'
  <2>1. sendStamp' <= v
    BY <1>3, <1>5
  <2>2. \A t \in v + 1 .. Seen' : ~ IsTick(t)
    BY <1>5
  <2>3. before' = before /\ (nodeStamp \div interval)' = nodeStamp \div interval
    BY <1>2
  <2>4. QED
    BY <1>12, <1>13, <1>14, <2>1, <2>2, <2>3 DEF Turn, IsTick
<1>16. QED
  BY <1>15

(* Fourth: a second without a tick passes.                                 *)
LEMMA NoTick ==
    ASSUME KeepsUp, Backlog, Types,
           UNCHANGED <<node, before, old_time_stamp, Ahead>>,
           now' = now + 1, Seen = now,
           \/ Seen' = now
           \/ Seen' = now + 1 /\ ~ IsTick(now + 1)
    PROVE  \E w \in 0 .. now : Turn(w)'
<1>1. PICK w \in 0 .. now : Turn(w)
  BY DEF Backlog
<1>2. UNCHANGED <<interval, period, nodeStamp, sendStamp>>
  BY DEF interval, period, nodeStamp, sendStamp
<1>3. /\ now \in Nat /\ w \in Nat /\ period \in Nat \ {0} /\ Step <= period
  BY Numbers
<1> DEFINE p == w \div period
           q == now \div period
           r == (now + 1) \div period
<1>4. /\ p \in Nat /\ q \in Nat /\ r \in Nat /\ q <= p + 1 /\ r <= q + 1
  BY <1>1, <1>3, NextPeriod, Quotient DEF Turn
<1>5. r <= p + 1
  <2>1. ASSUME r = p + 2 PROVE FALSE
    <3> DEFINE from == (p + 1) * period
               end == (p + 2) * period
    <3>1. from \in Nat /\ end = from + period
      <4>1. (p + 2) * period = (p + 1) * period + period
        BY <1>3, <1>4, SMT
      <4>2. QED
        BY <1>3, <1>4, <4>1, Product
    <3>2. w < from
      <4>1. w < p * period + period /\ p * period \in Nat
        BY <1>3, Quotient
      <4>2. (p + 1) * period = p * period + period
        BY <1>3, <1>4, SMT
      <4>3. QED
        BY <4>1, <4>2
    <3>3. end <= now + 1
      <4>1. r * period <= now + 1
        BY <1>3, Quotient
      <4>2. QED
        BY <2>1, <4>1
    <3> HIDE DEF from, end
    <3>4. PICK u \in from .. from + Step - 1 : IsTick(u)
      BY <3>1, TickWithin
    <3>5. u \in w + 1 .. Seen
      BY <1>3, <3>1, <3>2, <3>3, <3>4, Constants
    <3>6. QED
      BY <1>1, <3>4, <3>5 DEF Turn
  <2> HIDE DEF p, q, r
  <2>2. QED
    BY <1>4, <2>1
<1>6. \A t \in w + 1 .. Seen' : ~ IsTick(t)
  <2>1. ASSUME NEW t \in w + 1 .. Seen' PROVE ~ IsTick(t)
    <3>1. t \in w + 1 .. now \/ (t = now + 1 /\ Seen' = now + 1)
      BY <1>3
    <3>2. QED
      BY <1>1, <1>3, <3>1 DEF Turn
  <2>2. QED
    BY <2>1
<1>7. Begun(w)' = Begun(w)
  BY <1>2 DEF Begun, In
<1>8. Turn(w)'
  <2>1. (now \div period)' <= (w \div period') + 1
    BY <1>2, <1>5
  <2>2. /\ sendStamp' <= w
        /\ \/ Ahead' <= before + 1
           \/ Ahead' <= before + 2 + (nodeStamp \div interval) - Begun(w)
    BY <1>1, <1>2 DEF Turn
  <2>3. before' = before /\ (nodeStamp \div interval)' = nodeStamp \div interval
    BY <1>2
  <2>4. QED
    BY <1>6, <1>7, <2>1, <2>2, <2>3 DEF Turn, IsTick
<1>9. QED
  BY <1>8

----------------------------------------------------------------------------
(* The steps of main. What they share: no row, no tick and no work.        *)
LEMMA MainStays ==
    ASSUME IInv, UNCHANGED <<clock, blocks, file, node, before>>,
           phase' # "reading", started' \subseteq started
    PROVE  IInv'
<1>1. Types /\ Rows /\ Backlog
  BY DEF IInv
<1>2. UNCHANGED <<now, ticks, old_time_stamp, working, data, submitted, unsent, owing, missed>>
  BY DEF clock, blocks
<1>3. Types' /\ Rows' /\ Lives'
  BY <1>1, <1>2 DEF Types, Rows, Lives
<1>4. KeepsUp' => KeepsUp
  BY DEF KeepsUp
<1>5. Ahead' <= Ahead
  <2>1. Ahead' = Ahead
    BY <1>2 DEF Ahead, Making, Owed
  <2>2. Ahead' \in Int
    BY <1>3, AheadType
  <2>3. QED
    BY <2>1, <2>2
<1>6. Backlog'
  BY <1>1, <1>2, <1>3, <1>4, <1>5, Stays
<1>7. QED
  BY <1>3, <1>6 DEF IInv

LEMMA CreateKeeps == IInv /\ createWithArgument => IInv'
<1> SUFFICES ASSUME IInv, createWithArgument PROVE IInv'
  OBVIOUS
<1>1. Types /\ Rows /\ Lives
  BY DEF IInv
<1>2. /\ started' = {} /\ phase' \in {"storage", "gone"}
      /\ UNCHANGED <<now, old_time_stamp, unsent, missed, before, file, data, submitted>>
  BY <1>1 DEF createWithArgument, Exit, Lives, clock, blocks
<1>3. node' \in [NodeFields -> Int]
  <2>1. node \in [NodeFields -> Int] /\ file \in Files
    BY <1>1 DEF Types
  <2>2. readNode(file.node) \in [NodeFields -> Int]
    <3>1. ASSUME NEW field \in NodeFields
          PROVE  (IF field \in DOMAIN file.node THEN Number(file.node[field])
                                                ELSE NodeDefault[field]) \in Int
      <4>1. CASE field \in DOMAIN file.node
        <5>1. file.node[field] \in Nat \cup {Blank, NaN}
          BY <2>1, <4>1, StartupAssumption DEF IsFile
        <5>2. QED
          BY <4>1, <5>1 DEF Number, Blank, NaN
      <4>2. CASE field \notin DOMAIN file.node
        BY <4>2, StartupAssumption
      <4>3. QED
        BY <4>1, <4>2
    <3>2. QED
      BY <3>1 DEF readNode
  <2>3. QED
    BY <2>1, <2>2 DEF createWithArgument
<1>4. Types' /\ Rows' /\ Lives'
  BY <1>1, <1>2, <1>3 DEF Types, Rows, Lives
<1>5. Backlog'
  BY <1>2 DEF Backlog, KeepsUp
<1>6. QED
  BY <1>4, <1>5 DEF IInv

LEMMA MainKeeps ==
    IInv /\ (makeStorage \/ makeServer \/ listen \/ Interrupt) => IInv'
<1> SUFFICES ASSUME IInv, makeStorage \/ makeServer \/ listen \/ Interrupt PROVE IInv'
  OBVIOUS
<1>1. UNCHANGED <<clock, blocks, file, node, before>>
  BY DEF makeStorage, makeServer, listen, Interrupt, config
<1>2. phase' # "reading" /\ started' \subseteq started
  BY DEF makeStorage, makeServer, listen, Interrupt, Exit
<1>3. QED
  BY <1>1, <1>2, MainStays

(* SendBlock starts with nothing it has to account for but what Node has in *)
(* the making.                                                             *)
LEMMA StartKeeps == IInv /\ startScheduler => IInv'
<1> SUFFICES ASSUME IInv, startScheduler PROVE IInv'
  OBVIOUS
<1>1. Types /\ Rows /\ Backlog
  BY DEF IInv
<1>2. UNCHANGED <<clock, blocks, file, node>>
  BY DEF startScheduler, config
<1>3. UNCHANGED <<now, ticks, old_time_stamp, working, data, submitted, unsent, owing, missed>>
  BY <1>2 DEF clock, blocks
<1>4. CASE Exit(1) /\ UNCHANGED before
  <2>1. phase' # "reading" /\ started' \subseteq started /\ before' = before
    BY <1>4 DEF Exit
  <2>2. QED
    BY <1>2, <2>1, MainStays
<1>5. ASSUME NEW name \in schedulers \ started, started' = started \cup {name},
             before' = IF name = "send_block" THEN unsent ELSE before, phase' = phase
      PROVE  IInv'
  <2>1. phase' = "starting"
    BY <1>5 DEF startScheduler, Exit
  <2>2. Types' /\ Rows' /\ Lives'
    BY <1>1, <1>2, <1>3, <1>5, <2>1 DEF Types, Rows, Lives
  <2>3. Ahead' = Ahead
    BY <1>3 DEF Ahead, Making, Owed
  <2>4. CASE name = "send_block"
    <3>1. now \in 0 .. now /\ now \in Nat
      BY <1>1 DEF Types
    <3>2. PICK v \in 0 .. now : v = now
      BY <3>1
    <3>3. ASSUME KeepsUp' PROVE Turn(v)'
      <4>1. sendStamp' <= v
        BY <1>1, <1>3, <3>2 DEF Types, sendStamp, Names
      <4>2. (now \div period)' <= (v \div period') + 1
        <5>1. period' \in Nat \ {0}
          <6>1. period' \in Int
            BY <2>2 DEF Types, period, NodeFields
          <6>2. period' > 0
            BY <3>3 DEF KeepsUp, period
          <6>3. QED
            BY <6>1, <6>2
        <5> DEFINE q == v \div period'
        <5>2. q \in Nat
          BY <3>1, <3>2, <5>1, Quotient
        <5> HIDE DEF q
        <5>3. q <= q + 1
          BY <5>2
        <5>4. QED
          BY <1>3, <3>2, <5>3 DEF q
      <4>3. Seen' <= v
        BY <1>3, <3>1, <3>2 DEF Seen
      <4>4. \A t \in v + 1 .. Seen' : ~ IsTick(t)
        <5>1. v + 1 .. Seen' = {}
          BY <1>3, <3>1, <3>2 DEF Seen
        <5>2. QED
          BY <5>1
      <4>5. Ahead <= unsent + 1
        <5>1. Making \in {0, 1} /\ Owed \in {0, 1} /\ unsent \in Nat /\ missed \in Nat
          BY <1>1 DEF Types, Making, Owed
        <5>2. QED
          BY <5>1 DEF Ahead
      <4>6. Ahead' <= before' + 1
        BY <1>5, <2>3, <2>4, <4>5
      <4>7. QED
        BY <4>1, <4>2, <4>4, <4>6 DEF Turn, IsTick
    <3>4. Backlog'
      BY <1>3, <3>3 DEF Backlog
    <3>5. QED
      BY <2>2, <3>4 DEF IInv
  <2>5. CASE name # "send_block"
    <3>1. before' = before /\ (KeepsUp' => KeepsUp)
      BY <1>2, <1>5, <2>5 DEF KeepsUp
    <3>2. Ahead' \in Int
      BY <2>2, AheadType
    <3>3. Ahead' <= Ahead
      BY <2>3, <3>2
    <3>4. Backlog'
      BY <1>1, <1>2, <1>3, <2>2, <3>1, <3>3, Stays
    <3>5. QED
      BY <2>2, <3>4 DEF IInv
  <2>6. QED
    BY <2>4, <2>5
<1>6. QED
  BY <1>4, <1>5 DEF startScheduler

----------------------------------------------------------------------------
(* The steps of the clock.                                                 *)
LEMMA DueWhen ==
    ASSUME Types, KeepsUp
    PROVE  /\ NodeDue <=> nodeStamp \div interval # now \div interval
           /\ SendDue <=> sendStamp \div period # now \div period
<1>1. interval # 0 /\ interval # NaN /\ period # 0 /\ period # NaN
  BY Numbers DEF NaN
<1>2. QED
  BY <1>1 DEF NodeDue, SendDue, Due, nodeStamp, sendStamp, interval, period

LEMMA SecondKeeps == IInv /\ Second => IInv'
<1> SUFFICES ASSUME IInv, Second PROVE IInv'
  OBVIOUS
<1>1. Types /\ Rows /\ Lives /\ Backlog
  BY DEF IInv
<1>2. /\ Alive /\ now' = now + 1 /\ now \in Nat /\ missed \in Nat
      /\ ticks' = {name \in started :
                      name = "send_block" => ((now + 1) % Minute) % Step = 0}
      /\ UNCHANGED <<phase, started, file, node, old_time_stamp>>
      /\ UNCHANGED <<working, data, submitted, unsent, owing, before>>
  BY <1>1 DEF Second, process, config, Types
<1>3. IF "send_block" \in ticks /\ SendDue THEN missed' = missed + 1 ELSE missed' = missed
  BY DEF Second, Misses
<1>4. Types'
  <2>1. \A name \in Names : old_time_stamp[name] \in Nat /\ old_time_stamp[name] <= now + 1
    BY <1>1 DEF Types
  <2>2. QED
    BY <1>1, <1>2, <1>3, <2>1 DEF Types
<1>5. Rows' /\ Lives'
  BY <1>1, <1>2 DEF Rows, Lives
<1>6. ASSUME KeepsUp' PROVE \E w \in 0 .. now + 1 : Turn(w)'
  <2>1. KeepsUp
    BY <1>2, <1>6 DEF KeepsUp
  <2>2. Ahead \in Int /\ "send_block" \in started
    BY <1>1, <2>1, Numbers
  <2>3. Ahead' = Ahead + missed - missed'
    BY <1>1, <1>2, <1>3 DEF Ahead, Making, Owed, Types
  <2>4. "send_block" \in ticks' <=> IsTick(now + 1)
    BY <1>2, <2>2 DEF IsTick
  <2>5. \/ Seen' = now
        \/ Seen' = now + 1 /\ ~ IsTick(now + 1)
    BY <1>2, <2>4 DEF Seen
  <2>6. UNCHANGED <<nodeStamp, sendStamp>>
    BY <1>2 DEF nodeStamp, sendStamp
  <2>7. CASE "send_block" \in ticks
    <3>1. \A t \in now + 1 .. Seen' : ~ IsTick(t)
      BY <1>2, <2>5
    <3>2. \/ Ahead' <= Ahead - 1
          \/ Ahead' <= Ahead /\ sendStamp \div period = now \div period
      BY <1>1, <1>2, <1>3, <2>1, <2>2, <2>3, <2>7, DueWhen
    <3>3. \E w \in 0 .. now : Turn(w)'
      BY <1>1, <1>2, <1>4, <2>1, <2>6, <3>1, <3>2, TurnPasses
    <3>4. QED
      BY <1>2, <3>3
  <2>8. CASE "send_block" \notin ticks
    <3>1. Seen = now
      BY <2>8 DEF Seen
    <3>2. Ahead' = Ahead
      BY <1>2, <1>3, <2>2, <2>3, <2>8
    <3>3. \E w \in 0 .. now : Turn(w)'
      BY <1>1, <1>2, <2>1, <2>5, <3>1, <3>2, NoTick
    <3>4. QED
      BY <1>2, <3>3
  <2>9. QED
    BY <2>7, <2>8
<1>7. Backlog'
  BY <1>2, <1>6 DEF Backlog
<1>8. QED
  BY <1>4, <1>5, <1>7 DEF IInv

(* A tick is over, whether or not a work begins.                           *)
LEMMA TickKeeps ==
    ASSUME IInv, Alive, NEW name \in Names, name \in ticks, ticks' = ticks \ {name},
           UNCHANGED <<phase, started, file, node, now, data, submitted, unsent, before>>,
           Types', name = "node" => UNCHANGED sendStamp, name = "send_block" => UNCHANGED nodeStamp,
           name = "node" => \/ UNCHANGED <<nodeStamp, working, owing, missed, old_time_stamp>>
                            \/ /\ NodeDue /\ nodeStamp' = now /\ Ahead' <= Ahead + 1,
           name = "send_block" => /\ sendStamp' \in {sendStamp, now}
                                  /\ \/ Ahead' <= Ahead - 1
                                     \/ Ahead' <= Ahead /\ ~ SendDue
    PROVE  IInv'
<1>1. Types /\ Rows /\ Lives /\ Backlog
  BY DEF IInv
<1>2. Rows' /\ Lives'
  BY <1>1 DEF Rows, Lives
<1>3. ASSUME KeepsUp' PROVE \E w \in 0 .. now : Turn(w)'
  <2>1. KeepsUp /\ now \in Nat
    BY <1>1, <1>3 DEF KeepsUp, Types
  <2>2. CASE name = "node"
    <3>1. Seen' = Seen /\ sendStamp' = sendStamp
      BY <2>2 DEF Seen
    <3>2. CASE UNCHANGED <<nodeStamp, working, owing, missed, old_time_stamp>>
      <4>1. Ahead' = Ahead
        BY <3>2 DEF Ahead, Making, Owed
      <4>2. PICK w \in 0 .. now : Turn(w)
        BY <1>1, <2>1 DEF Backlog
      <4>3. UNCHANGED <<interval, period>>
        BY DEF interval, period
      <4>4. Turn(w)'
        BY <3>1, <3>2, <4>1, <4>2, <4>3 DEF Turn, IsTick, Begun, In
      <4>5. QED
        BY <4>4
    <3>3. CASE NodeDue /\ nodeStamp' = now /\ Ahead' <= Ahead + 1
      BY <1>1, <2>1, <3>1, <3>3, DueWhen, NodeBegins
    <3>4. QED
      BY <2>2, <3>2, <3>3
  <2>3. CASE name = "send_block"
    <3>1. Seen' = now
      BY <2>3 DEF Seen
    <3>2. \A t \in now + 1 .. Seen' : ~ IsTick(t)
      BY <2>1, <3>1
    <3>3. \/ Ahead' <= Ahead - 1
          \/ Ahead' <= Ahead /\ sendStamp \div period = now \div period
      BY <1>1, <2>1, <2>3, DueWhen
    <3>4. QED
      BY <1>1, <2>1, <2>3, <3>2, <3>3, TurnPasses
  <2>4. QED
    BY <2>2, <2>3 DEF Names
<1>4. Backlog'
  BY <1>3 DEF Backlog
<1>5. QED
  BY <1>2, <1>4 DEF IInv

LEMMA SkipKeeps == ASSUME NEW name \in Names PROVE IInv /\ Skip(name) => IInv'
<1> SUFFICES ASSUME IInv, Skip(name) PROVE IInv'
  OBVIOUS
<1>1. Types
  BY DEF IInv
<1>2. /\ Alive /\ name \in ticks /\ ticks' = ticks \ {name}
      /\ UNCHANGED <<phase, started, file, node, now, old_time_stamp>>
      /\ UNCHANGED <<working, data, submitted, unsent, owing, before>>
  BY DEF Skip, process, config
<1>3. IF name = "send_block" /\ SendDue THEN missed' = missed + 1 ELSE missed' = missed
  BY DEF Skip, Misses
<1>4. Types'
  BY <1>1, <1>2, <1>3 DEF Types
<1>5. UNCHANGED <<nodeStamp, sendStamp>>
  BY <1>2 DEF nodeStamp, sendStamp
<1>6. Ahead' = Ahead + missed - missed' /\ Ahead \in Int /\ missed \in Nat
  <2>1. unsent \in Nat /\ missed \in Nat /\ missed' \in Nat
    BY <1>1, <1>4 DEF Types
  <2>2. Making' = Making /\ Owed' = Owed /\ Making \in {0, 1} /\ Owed \in {0, 1}
    BY <1>2 DEF Making, Owed
  <2>3. QED
    BY <1>2, <2>1, <2>2 DEF Ahead
<1>7. name = "send_block" => Ahead' <= Ahead - 1 \/ (Ahead' <= Ahead /\ ~ SendDue)
  BY <1>3, <1>6
<1>8. name = "node" => missed' = missed
  BY <1>3
<1>9. QED
  BY <1>2, <1>4, <1>5, <1>7, <1>8, TickKeeps

LEMMA NodeKeeps == IInv /\ WorkNode => IInv'
<1> SUFFICES ASSUME IInv, WorkNode PROVE IInv'
  OBVIOUS
<1>1. Types
  BY DEF IInv
<1>2. /\ Alive /\ "node" \in ticks /\ "node" \notin working /\ ticks' = ticks \ {"node"}
      /\ UNCHANGED <<phase, started, file, node, now, data, submitted, unsent, before>>
      /\ UNCHANGED <<owing, missed>>
  BY DEF WorkNode, Tick, process, config
<1>3. \/ NodeDue /\ old_time_stamp' = [old_time_stamp EXCEPT !["node"] = now]
                 /\ working' = working \cup {"node"}
      \/ UNCHANGED <<old_time_stamp, working>>
  BY DEF WorkNode
<1>4. old_time_stamp \in [Names -> Nat] /\ now \in Nat /\ unsent \in Nat /\ missed \in Nat
      /\ \A name \in Names : old_time_stamp[name] <= now
  BY <1>1 DEF Types
<1>5. Types' /\ sendStamp' = sendStamp
  <2>1. old_time_stamp' \in [Names -> Nat] /\ (\A name \in Names : old_time_stamp'[name] <= now)
        /\ old_time_stamp'["send_block"] = old_time_stamp["send_block"]
    BY <1>3, <1>4 DEF Names
  <2>2. QED
    BY <1>1, <1>2, <2>1 DEF Types, sendStamp
<1>6. \/ UNCHANGED <<nodeStamp, working, owing, missed, old_time_stamp>>
      \/ /\ NodeDue /\ nodeStamp' = now /\ Ahead' <= Ahead + 1
  <2>1. CASE UNCHANGED <<old_time_stamp, working>>
    BY <1>2, <2>1 DEF nodeStamp
  <2>2. CASE NodeDue /\ old_time_stamp' = [old_time_stamp EXCEPT !["node"] = now]
                     /\ working' = working \cup {"node"}
    <3>1. nodeStamp' = now
      BY <1>4, <2>2 DEF nodeStamp, Names
    <3>2. Making = 0 /\ Making' = 1 /\ Owed' = Owed /\ Owed \in {0, 1}
      BY <1>2, <2>2 DEF Making, Owed
    <3>3. Ahead' <= Ahead + 1
      BY <1>2, <1>4, <3>2 DEF Ahead
    <3>4. QED
      BY <2>2, <3>1, <3>3
  <2>3. QED
    BY <1>3, <2>1, <2>2
<1>7. "node" \in Names
  BY DEF Names
<1>8. QED
  BY <1>2, <1>5, <1>6, <1>7, TickKeeps

LEMMA SendKeeps == IInv /\ WorkSend => IInv'
<1> SUFFICES ASSUME IInv, WorkSend PROVE IInv'
  OBVIOUS
<1>1. Types
  BY DEF IInv
<1>2. /\ Alive /\ "send_block" \in ticks /\ ticks' = ticks \ {"send_block"}
      /\ UNCHANGED <<phase, started, file, node, now, data, submitted, unsent, before>>
  BY DEF WorkSend, Tick, process, config
<1>3. old_time_stamp \in [Names -> Nat] /\ now \in Nat /\ unsent \in Nat /\ missed \in Nat
      /\ \A name \in Names : old_time_stamp[name] <= now
  BY <1>1 DEF Types
<1>4. CASE SendDue
  <2>1. /\ old_time_stamp' = [old_time_stamp EXCEPT !["send_block"] = now]
        /\ working' = working \cup {"send_block"} /\ owing' = TRUE
        /\ missed' = IF owing THEN missed + 1 ELSE missed
    BY <1>4 DEF WorkSend, Misses
  <2>2. old_time_stamp' \in [Names -> Nat] /\ (\A name \in Names : old_time_stamp'[name] <= now)
        /\ old_time_stamp'["node"] = old_time_stamp["node"]
        /\ old_time_stamp'["send_block"] = now
    BY <1>3, <2>1 DEF Names
  <2>3. Types' /\ nodeStamp' = nodeStamp /\ sendStamp' = now
    BY <1>1, <1>2, <2>1, <2>2 DEF Types, nodeStamp, sendStamp
  <2>4. Making' = Making /\ Making \in {0, 1}
    BY <2>1 DEF Making
  <2>5. Ahead' <= Ahead - 1
    BY <1>2, <1>3, <2>1, <2>4 DEF Ahead, Owed
  <2>6. "send_block" \in Names /\ "send_block" # "node"
    BY DEF Names
  <2>7. QED
    BY <1>2, <2>3, <2>5, <2>6, TickKeeps
<1>5. CASE ~ SendDue
  <2>1. UNCHANGED <<old_time_stamp, working, owing, missed>>
    BY <1>5 DEF WorkSend
  <2>2. Types' /\ nodeStamp' = nodeStamp /\ sendStamp' = sendStamp
    BY <1>1, <1>2, <2>1 DEF Types, nodeStamp, sendStamp
  <2>3. Ahead' = Ahead /\ Ahead' \in Int
    BY <1>2, <2>1, <2>2, AheadType DEF Ahead, Making, Owed
  <2>4. Ahead' <= Ahead
    BY <2>3
  <2>5. "send_block" \in Names /\ "send_block" # "node"
    BY DEF Names
  <2>6. QED
    BY <1>2, <1>5, <2>2, <2>4, <2>5, TickKeeps
<1>6. QED
  BY <1>4, <1>5

(* The other steps of a work and those of the chain.                       *)
LEMMA WorkKeeps == IInv /\ (EndNode \/ ReadBlock \/ EndSend \/ Chain) => IInv'
<1> SUFFICES ASSUME IInv, EndNode \/ ReadBlock \/ EndSend \/ Chain PROVE IInv'
  OBVIOUS
<1>1. Types /\ Rows /\ Lives /\ Backlog
  BY DEF IInv
<1>2. UNCHANGED <<phase, started, file, node, now, ticks, old_time_stamp, before, missed>>
  BY DEF EndNode, ReadBlock, EndSend, Chain, Ends, process, config, clock
<1>3. unsent \in Nat /\ missed \in Nat /\ before \in Nat /\ Making \in {0, 1} /\ Owed \in {0, 1}
  BY <1>1 DEF Types, Making, Owed
<1>4. /\ unsent' \in Nat /\ Rows'
      /\ Ahead' <= Ahead \/ Ahead' <= before + 1
  <2>1. CASE EndNode
    <3>1. /\ unsent' \in {unsent, unsent + 1} /\ UNCHANGED <<data, submitted, owing>>
          /\ "node" \in working /\ working' = working \ {"node"}
      BY <2>1 DEF EndNode, Ends
    <3>2. Making = 1 /\ Making' = 0 /\ Owed' = Owed
      BY <3>1 DEF Making, Owed
    <3>3. unsent' \in Nat /\ unsent' <= unsent + 1 /\ unsent' >= unsent
      <4>1. unsent' = unsent \/ unsent' = unsent + 1
        BY <3>1
      <4>2. QED
        BY <1>3, <4>1
    <3>4. Rows'
      BY <1>1, <1>3, <3>1, <3>3 DEF Rows
    <3>5. Ahead' <= Ahead
      <4>1. Ahead = unsent + 1 - Owed - missed /\ Ahead' = unsent' + 0 - Owed - missed
        BY <1>2, <3>2 DEF Ahead
      <4>2. Owed \in Int /\ missed \in Int /\ unsent \in Int /\ unsent' \in Int
        BY <1>3, <3>3
      <4>3. \A a, b, c, d \in Int : b <= a + 1 => b + 0 - c - d <= a + 1 - c - d
        OBVIOUS
      <4>4. unsent' + 0 - Owed - missed <= unsent + 1 - Owed - missed
        BY <3>3, <4>2, <4>3, Zenon
      <4>5. QED
        BY <4>1, <4>4
    <3>6. QED
      BY <3>3, <3>4, <3>5
  <2>2. CASE ReadBlock
    <3>1. /\ UNCHANGED <<working, submitted, unsent>>
          /\ \/ unsent > 0 /\ data' = "next" /\ owing' = owing
             \/ unsent = 0 /\ data' = "absent" /\ owing' = FALSE
      BY <2>2 DEF ReadBlock
    <3>2. Making' = Making /\ Owed' \in {0, 1} /\ (unsent > 0 => Owed' = Owed)
      BY <1>3, <3>1 DEF Making, Owed
    <3>3. Rows'
      BY <1>1, <3>1 DEF Rows
    <3>4. CASE unsent > 0
      <4>1. Ahead' <= Ahead
        BY <1>2, <1>3, <3>1, <3>2, <3>4 DEF Ahead
      <4>2. QED
        BY <1>3, <3>1, <3>3, <4>1
    <3>5. CASE unsent = 0
      <4>1. Owed' = 0
        BY <3>1, <3>5 DEF Owed
      <4>2. Ahead' <= before + 1
        BY <1>2, <1>3, <3>1, <3>2, <3>5, <4>1 DEF Ahead
      <4>3. QED
        BY <1>3, <3>1, <3>3, <4>2
    <3>6. QED
      BY <1>3, <3>4, <3>5
  <2>3. CASE EndSend
    <3>1. /\ UNCHANGED <<unsent, owing>> /\ working' = working \ {"send_block"}
          /\ data' = "none" /\ submitted' \in {submitted, submitted \/ data = "next"}
      BY <2>3 DEF EndSend, Ends
    <3>2. Making' = Making /\ Owed' = Owed
      BY <3>1 DEF Making, Owed
    <3>3. unsent' \in Nat /\ Ahead' <= Ahead
      BY <1>2, <1>3, <3>1, <3>2 DEF Ahead
    <3>4. Rows'
      BY <1>1, <3>1 DEF Rows
    <3>5. QED
      BY <3>3, <3>4
  <2>4. CASE Chain
    <3>1. /\ working' = working /\ submitted /\ submitted' = FALSE
          /\ \/ /\ unsent' = unsent - 1 /\ owing' = FALSE
                /\ data' = IF data = "next" THEN "old" ELSE data
             \/ UNCHANGED <<unsent, owing, data>>
      BY <2>4 DEF Chain
    <3>2. Making' = Making /\ unsent > 0
      BY <1>1, <3>1 DEF Making, Rows
    <3>3. CASE UNCHANGED <<unsent, owing, data>>
      BY <1>1, <1>2, <1>3, <3>1, <3>2, <3>3 DEF Rows, Ahead, Owed
    <3>4. CASE /\ unsent' = unsent - 1 /\ owing' = FALSE
               /\ data' = IF data = "next" THEN "old" ELSE data
      <4>1. Owed' = 0 /\ unsent' \in Nat
        BY <1>3, <3>2, <3>4 DEF Owed
      <4>2. Rows'
        BY <3>1, <3>4 DEF Rows
      <4>3. Ahead' <= Ahead
        BY <1>2, <1>3, <3>2, <3>4, <4>1 DEF Ahead
      <4>4. QED
        BY <4>1, <4>2, <4>3
    <3>5. QED
      BY <3>1, <3>3, <3>4
  <2>5. QED
    BY <2>1, <2>2, <2>3, <2>4
<1>5. Types' /\ Lives'
  BY <1>1, <1>2, <1>4 DEF Types, Lives
<1>6. KeepsUp' => KeepsUp
  BY <1>2 DEF KeepsUp
<1>7. Backlog'
  BY <1>1, <1>2, <1>4, <1>5, <1>6, Stays
<1>8. QED
  BY <1>4, <1>5, <1>7 DEF IInv

LEMMA NextKeeps == IInv /\ [Next]_vars => IInv'
<1> SUFFICES ASSUME IInv, [Next]_vars PROVE IInv'
  OBVIOUS
<1>1. CASE createWithArgument
  BY <1>1, CreateKeeps
<1>2. CASE makeStorage \/ makeServer \/ listen \/ Interrupt
  BY <1>2, MainKeeps
<1>3. CASE startScheduler
  BY <1>3, StartKeeps
<1>4. CASE Second
  BY <1>4, SecondKeeps
<1>5. CASE \E name \in Names : Skip(name)
  BY <1>5, SkipKeeps
<1>6. CASE WorkNode
  BY <1>6, NodeKeeps
<1>7. CASE WorkSend
  BY <1>7, SendKeeps
<1>8. CASE EndNode \/ ReadBlock \/ EndSend \/ Chain
  BY <1>8, WorkKeeps
<1>9. CASE UNCHANGED vars
  <2>1. UNCHANGED <<phase, started, file, node, clock, blocks, before>>
    BY <1>9 DEF vars, process, config
  <2>2. UNCHANGED <<now, ticks, old_time_stamp, working, data, submitted, unsent, owing, missed>>
    BY <2>1 DEF clock, blocks
  <2>3. Types' /\ Rows' /\ Lives'
    BY <2>1, <2>2 DEF IInv, Types, Rows, Lives
  <2>4. Ahead' = Ahead /\ Ahead' \in Int /\ (KeepsUp' => KeepsUp)
    BY <2>1, <2>2, <2>3, AheadType DEF Ahead, Making, Owed, KeepsUp
  <2>5. Ahead' <= Ahead
    BY <2>4
  <2>6. Backlog'
    BY <2>1, <2>2, <2>3, <2>4, <2>5, Stays DEF IInv
  <2>7. QED
    BY <2>3, <2>6 DEF IInv
<1>10. QED
  BY <1>1, <1>2, <1>3, <1>4, <1>5, <1>6, <1>7, <1>8, <1>9 DEF Next

(* For every length of a minute, every step of the cron expression and all *)
(* periods with which a server keeps up, however long works and calls take, *)
(* whatever fails and whichever ticks cron leaves out, at most five blocks *)
(* wait beside those SendBlock found and one for each of its turns that    *)
(* sent nothing: the periods of Node.work and SendBlock.work.              *)
THEOREM BacklogBoundedAlways == Spec => []BacklogBounded
<1>1. Init => IInv
  BY Beginning
<1>2. IInv /\ [Next]_vars => IInv'
  BY NextKeeps
<1>3. IInv => BacklogBounded
  BY Bounded
<1>4. QED
  BY <1>1, <1>2, <1>3, PTL DEF Spec
============================================================================
