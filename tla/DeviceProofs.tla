---------------------------- MODULE DeviceProofs ----------------------------
(***************************************************************************)
(* Proofs about the devices: a sleep ends on time, for a clock with hours, *)
(* minutes and days of any length; every interrupt is ended before a task  *)
(* runs again, for any set of devices, handlers, tasks and any garbage in  *)
(* a new task's registers.                                                 *)
(***************************************************************************)
EXTENDS Irq, Rtc, TLAPS

-----------------------------------------------------------------------------
(* The clock.                                                              *)

(* Numbers and their quotients, which no backend knows for a divisor that  *)
(* is not a numeral.                                                       *)
LEMMA Division ==
  ASSUME NEW a \in Nat, NEW n \in Nat \ {0}
  PROVE  a \div n \in Nat /\ a % n \in 0..(n - 1) /\ a = n * (a \div n) + (a % n)
<1>1. a \div n \in Int /\ a % n \in 0..(n - 1) /\ a = n * (a \div n) + (a % n)
  OBVIOUS
<1>2. a \div n >= 0
  OBVIOUS
<1> QED BY <1>1, <1>2

LEMMA NatProduct == ASSUME NEW a \in Nat, NEW b \in Nat PROVE a * b \in Nat
  OBVIOUS

LEMMA NextMultiple ==
  ASSUME NEW n \in Nat \ {0}, NEW u \in Int, NEW v \in Int, u < v
  PROVE  n * u + n <= n * v
<1>1. PICK k \in Nat : v = u + 1 + k
  <2>1. v - u - 1 \in Nat /\ v = u + 1 + (v - u - 1)
    OBVIOUS
  <2> QED BY <2>1
<1>2. n * u \in Int /\ n * k \in Nat /\ n * v = n * u + n + n * k
  BY <1>1
<1> QED BY <1>2

LEMMA OneQuotient ==
  ASSUME NEW n \in Nat \ {0}, NEW u \in Int, NEW v \in Int, NEW x \in 0..(n - 1), NEW y \in 0..(n - 1),
         n * u + x = n * v + y
  PROVE  u = v /\ x = y
<1>1. n * u \in Int /\ n * v \in Int
  OBVIOUS
<1>2. ~(u < v) /\ ~(v < u)
  BY <1>1, NextMultiple
<1>3. u = v
  BY <1>2
<1> QED BY <1>1, <1>3

(* The second in which the unit of n seconds began that a is in.           *)
Whole(a, n) == n * (a \div n)

LEMMA WholeUnits ==
  ASSUME NEW a \in Nat, NEW n \in Nat \ {0}
  PROVE  /\ Whole(a, n) \in Nat /\ Whole(a, n) + (a % n) = a /\ Whole(a, n) <= a
         /\ Whole(a, n) <= Whole(a + 1, n)
<1>1. /\ a \div n \in Nat /\ a % n \in 0..(n - 1) /\ a = n * (a \div n) + (a % n)
      /\ n * (a \div n) \in Nat
  <2>1. a \div n \in Nat /\ a % n \in 0..(n - 1) /\ a = n * (a \div n) + (a % n)
    BY Division
  <2> QED BY <2>1, NatProduct
<1>2. /\ (a + 1) \div n \in Nat /\ (a + 1) % n \in 0..(n - 1)
      /\ a + 1 = n * ((a + 1) \div n) + ((a + 1) % n) /\ n * ((a + 1) \div n) \in Nat
  <2> DEFINE b == a + 1
  <2>1. b \in Nat
    OBVIOUS
  <2> HIDE DEF b
  <2>2. b \div n \in Nat /\ b % n \in 0..(n - 1) /\ b = n * (b \div n) + (b % n)
    BY <2>1, Division
  <2>3. n * (b \div n) \in Nat
    BY <2>2, NatProduct
  <2> QED BY <2>2, <2>3 DEF b
<1>3. Whole(a, n) <= Whole(a + 1, n)
  <2>1. CASE a \div n <= (a + 1) \div n
    <3>1. a \div n = (a + 1) \div n \/ a \div n < (a + 1) \div n
      BY <1>1, <1>2, <2>1
    <3>2. CASE a \div n < (a + 1) \div n
      <4>1. n * (a \div n) + n <= n * ((a + 1) \div n)
        BY <1>1, <1>2, <3>2, NextMultiple
      <4> QED BY <1>1, <1>2, <4>1 DEF Whole
    <3>3. CASE a \div n = (a + 1) \div n
      BY <1>1, <3>3 DEF Whole
    <3> QED BY <3>1, <3>2, <3>3
  <2>2. CASE (a + 1) \div n < a \div n
    <3>1. n * ((a + 1) \div n) + n <= n * (a \div n)
      BY <1>1, <1>2, <2>2, NextMultiple
    <3> QED BY <1>1, <1>2, <3>1
  <2> QED BY <1>1, <1>2, <2>1, <2>2
<1> QED BY <1>1, <1>3 DEF Whole

(* A number in units of s seconds, of which m make a larger unit. *)
LEMMA UnitsInUnits ==
  ASSUME NEW a \in Nat, NEW m \in Nat \ {0}, NEW s \in Nat \ {0}
  PROVE  /\ m * s \in Nat \ {0} /\ (a \div s) % m \in 0..(m - 1)
         /\ Whole(a, m * s) + ((a \div s) % m) * s = Whole(a, s)
<1> DEFINE n == m * s
           q == a \div s
           k == q \div m
           j == q % m
           r == a % s
<1>1. q \in Nat /\ r \in 0..(s - 1) /\ a = s * q + r
  BY Division
<1>2. k \in Nat /\ j \in 0..(m - 1) /\ q = m * k + j
  <2> HIDE DEF q
  <2> QED BY <1>1, Division
<1>3. n \in Nat /\ s * j \in Nat /\ s * m = n /\ s * q \in Nat /\ n * k \in Nat
  <2> HIDE DEF q, k, j
  <2> QED BY <1>1, <1>2
<1>4. n # 0
  <2> HIDE DEF n, q, k, j, r
  <2>1. s * 0 + s <= s * m
    BY NextMultiple
  <2>2. s * 0 = 0
    OBVIOUS
  <2> QED BY <1>3, <2>1, <2>2
<1>5. s * q = n * k + s * j
  <2>1. s * (m * k + j) = s * (m * k) + s * j /\ s * (m * k) = (m * s) * k
    <3> HIDE DEF k, j
    <3> QED BY <1>2
  <2> HIDE DEF q, k, j
  <2> QED BY <1>2, <2>1
<1>6. s * j + r \in 0..(n - 1)
  <2> HIDE DEF n, q, k, j, r
  <2>1. s * j + s <= s * m
    BY <1>2, NextMultiple
  <2> QED BY <1>1, <1>3, <2>1
<1>7. a \div n \in Nat /\ a % n \in 0..(n - 1) /\ a = n * (a \div n) + (a % n)
  <2> HIDE DEF n
  <2> QED BY <1>3, <1>4, Division
<1>8. a \div n = k
  <2> DEFINE d == a \div n
             x == a % n
             y == s * j + r
  <2>1. d \in Int /\ x \in 0..(n - 1) /\ y \in 0..(n - 1) /\ a = n * d + x
    BY <1>6, <1>7
  <2>2. a = n * k + y
    <3> HIDE DEF n, q, k, j, r
    <3> QED BY <1>1, <1>2, <1>3, <1>5
  <2> HIDE DEF d, x, y, n, k
  <2> QED BY <1>2, <1>3, <1>4, <2>1, <2>2, OneQuotient
<1>9. Whole(a, n) = n * k /\ Whole(a, s) = s * q /\ j * s = s * j
  <2>1. Whole(a, n) = n * (a \div n)
    BY DEF Whole
  <2>2. Whole(a, s) = s * q
    BY DEF Whole
  <2>3. j * s = s * j
    <3> HIDE DEF j
    <3> QED BY <1>2
  <2> HIDE DEF n, k, j, q
  <2> QED BY <1>8, <2>1, <2>2, <2>3
<1> HIDE DEF n, q, k, j, r
<1>10. Whole(a, n) + j * s = Whole(a, s)
  BY <1>3, <1>5, <1>9
<1> QED BY <1>2, <1>3, <1>4, <1>10 DEF n, j, q

(* What the chip codes is decoded again. *)
LEMMA Decimals == ASSUME NEW n \in 0..99 PROVE bcd_to_bin(Bcd(n)) = n
<1> DEFINE t == n \div 10
           u == n % 10
           b == t * 16 + u
<1>1. t \in 0..9 /\ u \in 0..9 /\ n = t * 10 + u
  OBVIOUS
<1> HIDE DEF t, u
<1>2. b \div 16 = t /\ b % 16 = u
  BY <1>1
<1>3. Bcd(n) = b /\ bcd_to_bin(b) = (b \div 16) * 10 + (b % 16)
  BY DEF Bcd, bcd_to_bin, t, u
<1> HIDE DEF b
<1> QED BY <1>1, <1>2, <1>3

(* What rtc_time adds up, when no second ends meanwhile. *)
LEMMA Fields ==
  ASSUME RtcAssumption, clock \in 0..(DAY - 1)
  PROVE  /\ HOUR \in Nat \ {0} /\ MINUTE \in Nat \ {0} /\ DAY \in Nat \ {0}
         /\ rtc_hour * HOUR = Whole(clock, HOUR)
         /\ Whole(clock, HOUR) + rtc_minute * MINUTE = Whole(clock, MINUTE)
         /\ Whole(clock, MINUTE) + rtc_second = clock
         /\ rtc_hour * HOUR \in Nat /\ rtc_minute * MINUTE \in Nat /\ rtc_second \in Nat
<1> DEFINE h == HOURS
           m == MINUTES
           s == SECONDS
           n == m * s
<1>1. h \in 1..99 /\ m \in 1..99 /\ s \in 1..99
  BY DEF RtcAssumption
<1>2. HOUR = n /\ MINUTE = s /\ DAY = h * n
  BY DEF HOUR, MINUTE, DAY
<1> HIDE DEF h, m, s
<1>0. m \in Nat \ {0} /\ s \in Nat \ {0}
  BY <1>1
<1>3. /\ n \in Nat \ {0} /\ h * n \in Nat
  <2>1. n \in Nat \ {0}
    BY <1>1, UnitsInUnits
  <2> HIDE DEF n
  <2> QED BY <1>1, <2>1, NatProduct
<1>4. clock \in Nat /\ clock < h * n
  BY <1>2, <1>3
<1>5. (clock \div s) % m \in 0..(m - 1) /\ Whole(clock, n) + ((clock \div s) % m) * s = Whole(clock, s)
  BY <1>0, <1>4, UnitsInUnits
<1> HIDE DEF n
<1>6. /\ clock \div n \in Nat /\ clock % n \in 0..(n - 1)
      /\ clock = n * (clock \div n) + (clock % n)
  BY <1>3, <1>4, Division
<1>7. clock \div n < h
  <2> DEFINE q == clock \div n
  <2>1. q \in Nat /\ clock % n \in 0..(n - 1) /\ clock = n * q + (clock % n)
    BY <1>6
  <2> HIDE DEF q
  <2> SUFFICES ASSUME ~(q < h) PROVE FALSE
    BY DEF q
  <2>2. n * h <= n * q
    <3>1. CASE h < q
      <4>1. n * h + n <= n * q
        BY <1>1, <1>3, <2>1, <3>1, NextMultiple
      <4>2. n * h \in Nat /\ n * q \in Nat
        BY <1>1, <1>3, <2>1, NatProduct
      <4> QED BY <1>3, <4>1, <4>2
    <3>2. CASE h = q
      BY <1>1, <1>3, <3>2, NatProduct
    <3> QED BY <1>1, <2>1, <3>1, <3>2
  <2>3. n * h = h * n /\ n * q \in Nat
    BY <1>1, <1>3, <2>1
  <2> QED BY <1>3, <1>4, <2>1, <2>2, <2>3
<1>8. rtc_hour = clock \div n
  <2> DEFINE q == clock \div n
  <2>1. q \in 0..99
    BY <1>1, <1>6, <1>7
  <2>2. rtc_hour = bcd_to_bin(Bcd(q))
    BY <1>2 DEF rtc_hour
  <2> HIDE DEF q
  <2>3. rtc_hour = q
    BY <2>1, <2>2, Decimals
  <2> QED BY <2>3 DEF q
<1>9. rtc_minute = (clock \div s) % m
  <2> DEFINE q == (clock \div s) % m
  <2>1. q \in 0..99
    BY <1>1, <1>5
  <2>2. rtc_minute = bcd_to_bin(Bcd(q))
    BY <1>2 DEF rtc_minute, m
  <2> HIDE DEF q
  <2>3. rtc_minute = q
    BY <2>1, <2>2, Decimals
  <2> QED BY <2>3 DEF q
<1>10. Whole(clock, s) + (clock % s) = clock /\ clock % s \in 0..(s - 1)
  BY <1>0, <1>4, WholeUnits, Division
<1>11. rtc_second = clock % s
  <2> DEFINE q == clock % s
  <2>1. q \in 0..99
    BY <1>1, <1>10
  <2>2. rtc_second = bcd_to_bin(Bcd(q))
    BY DEF rtc_second, s
  <2> HIDE DEF q
  <2>3. rtc_second = q
    BY <2>1, <2>2, Decimals
  <2> QED BY <2>3 DEF q
<1>12. (clock \div n) * n = Whole(clock, n)
  <2> DEFINE q == clock \div n
  <2>1. q \in Nat
    BY <1>6
  <2>2. Whole(clock, n) = n * q
    BY DEF Whole
  <2> HIDE DEF q
  <2>3. q * n = n * q
    BY <1>3, <2>1
  <2> QED BY <2>2, <2>3 DEF q
<1>13. h * n # 0
  BY <1>3, <1>4
<1>14. (clock \div n) * n \in Nat /\ ((clock \div s) % m) * s \in Nat /\ clock % s \in Nat
  <2>1. clock \div n \in Nat /\ (clock \div s) % m \in Nat /\ n \in Nat /\ s \in Nat
    BY <1>0, <1>3, <1>5, <1>6
  <2> QED BY <1>10, <2>1, NatProduct
<1> QED BY <1>0, <1>2, <1>3, <1>5, <1>8, <1>9, <1>10, <1>11, <1>12, <1>13, <1>14

(* What has been read is right unless a second ended since, and never ahead*)
(* of the clock; a sleep that began well ends on its second: until then    *)
(* clock and elapsed keep step, and that second cannot end unnoticed.      *)
ClockTypes ==
    /\ clock \in 0..(DAY - 1) /\ sum \in Nat /\ seconds \in Nat /\ last_sec \in Nat
    /\ elapsed \in Nat /\ torn \in BOOLEAN /\ clean \in BOOLEAN /\ sampled \in BOOLEAN
    /\ \/ sleeper = "awake" /\ next = "hour"
       \/ sleeper = "first" /\ next \in {"minute", "second"}
       \/ sleeper = "poll" /\ next \in {"hour", "minute", "second"}
Untorn ==
    ~torn => /\ next = "minute" => sum = Whole(clock, HOUR)
             /\ next = "second" => sum = Whole(clock, MINUTE)
             /\ sleeper = "first" => elapsed = 0
InStep ==
    sleeper = "poll" /\ Regular =>
        /\ clock + seconds = last_sec + elapsed /\ elapsed <= seconds /\ seconds <= last_sec
        /\ elapsed = seconds => ~sampled
        /\ next = "minute" => sum <= Whole(clock, HOUR)
        /\ next = "second" => sum <= Whole(clock, MINUTE)
ClockInv == ClockTypes /\ Untorn /\ InStep

LEMMA ClockInit == RtcAssumption /\ RtcInit => ClockInv
<1> SUFFICES ASSUME RtcInit PROVE ClockInv
  OBVIOUS
<1>1. /\ clock \in 0..(DAY - 1) /\ sleeper = "awake" /\ next = "hour"
      /\ sum = 0 /\ seconds = 0 /\ last_sec = 0 /\ elapsed = 0
  BY DEF RtcInit
<1>2. torn \in BOOLEAN /\ clean \in BOOLEAN /\ sampled \in BOOLEAN
  BY Zenon DEF RtcInit
<1> QED BY <1>1, <1>2 DEF ClockInv, ClockTypes, Untorn, InStep

(* The second that ends is not the last one of a day or of the sleep. *)
LEMMA TickInStep == ASSUME RtcAssumption, ClockInv, Tick PROVE ClockInv'
<1>1. /\ HOUR \in Nat \ {0} /\ MINUTE \in Nat \ {0} /\ DAY \in Nat \ {0}
      /\ clock \in 0..(DAY - 1)
  BY Fields DEF ClockInv, ClockTypes
<1>2. clock' = (clock + 1) % DAY /\ clock' \in 0..(DAY - 1)
  <2> DEFINE c == clock + 1
  <2>1. c \in Nat /\ clock' = c % DAY
    BY <1>1 DEF Tick
  <2> HIDE DEF c
  <2>2. c % DAY \in 0..(DAY - 1)
    BY <1>1, <2>1, Division
  <2> QED BY <2>1, <2>2 DEF c
<1>3. /\ sampled' = FALSE /\ torn' = (next # "hour") /\ (sleeper = "awake" \/ sampled)
      /\ elapsed' = (IF elapsed < DAY THEN elapsed + 1 ELSE DAY)
      /\ sleeper' = sleeper /\ next' = next /\ sum' = sum /\ seconds' = seconds
      /\ last_sec' = last_sec /\ clean' = clean
  BY DEF Tick
<1>4. ClockTypes'
  <2>1. sampled' \in BOOLEAN /\ torn' \in BOOLEAN /\ clean' \in BOOLEAN
    BY <1>3, Zenon DEF ClockInv, ClockTypes
  <2>2. elapsed' \in Nat
    BY <1>1, <1>3 DEF ClockInv, ClockTypes
  <2> QED BY <1>2, <1>3, <2>1, <2>2 DEF ClockInv, ClockTypes
<1>5. Untorn'
  BY <1>3 DEF ClockInv, ClockTypes, Untorn
<1>6. InStep'
  <2> SUFFICES ASSUME sleeper = "poll", Regular
               PROVE  /\ clock' + seconds = last_sec + elapsed' /\ elapsed' <= seconds
                      /\ seconds <= last_sec
                      /\ next = "minute" => sum <= Whole(clock', HOUR)
                      /\ next = "second" => sum <= Whole(clock', MINUTE)
    BY <1>3 DEF InStep, Regular
  <2>1. /\ clock + seconds = last_sec + elapsed /\ elapsed < seconds /\ seconds <= last_sec
        /\ next = "minute" => sum <= Whole(clock, HOUR)
        /\ next = "second" => sum <= Whole(clock, MINUTE)
        /\ last_sec < DAY
    BY <1>3 DEF ClockInv, ClockTypes, InStep, Regular
  <2>2. /\ elapsed \in Nat /\ seconds \in Nat /\ last_sec \in Nat /\ sum \in Nat
        /\ clock \in Nat /\ DAY \in Nat
    BY <1>1 DEF ClockInv, ClockTypes
  <2>3. clock + 1 <= last_sec /\ clock + 1 < DAY
    BY <2>1, <2>2
  <2>4. clock' = clock + 1
    <3> DEFINE c == clock + 1
               d == DAY
    <3>1. c \in 0..(d - 1) /\ c \in Nat /\ d \in Nat \ {0} /\ clock' = c % d
      BY <1>1, <1>2, <2>2, <2>3
    <3> HIDE DEF c, d
    <3>2. c \div d \in Nat /\ c % d \in 0..(d - 1) /\ c = d * (c \div d) + (c % d)
      BY <3>1, Division
    <3>3. c = d * 0 + c
      BY <3>1
    <3>4. c % d = c
      <4> DEFINE q == c \div d
                 x == c % d
      <4>1. q \in Int /\ x \in 0..(d - 1) /\ d * q + x = d * 0 + c /\ 0 \in Int
        BY <3>2, <3>3
      <4> HIDE DEF q, x
      <4>2. x = c
        BY <3>1, <4>1, OneQuotient
      <4> QED BY <4>2 DEF x
    <3> QED BY <3>1, <3>4 DEF c
  <2>5. elapsed' = elapsed + 1
    BY <1>3, <2>1, <2>2, <2>3
  <2>6. /\ Whole(clock, HOUR) <= Whole(clock + 1, HOUR)
        /\ Whole(clock, MINUTE) <= Whole(clock + 1, MINUTE)
        /\ Whole(clock, HOUR) \in Nat /\ Whole(clock, MINUTE) \in Nat
        /\ Whole(clock + 1, HOUR) \in Nat /\ Whole(clock + 1, MINUTE) \in Nat
    <3>1. clock + 1 \in Nat
      BY <2>2
    <3> QED BY <1>1, <2>2, <3>1, WholeUnits
  <2> QED BY <2>1, <2>2, <2>4, <2>5, <2>6
<1> QED BY <1>4, <1>5, <1>6 DEF ClockInv

LEMMA ReadInStep ==
  ASSUME RtcAssumption, ClockInv,
         ReadHour \/ ReadMinute \/ (\E s \in Sleeps : Sleep(s))
  PROVE  ClockInv'
<1> DEFINE H == rtc_hour * HOUR
           M == rtc_minute * MINUTE
<1>1. /\ H = Whole(clock, HOUR) /\ H \in Nat
      /\ H + M = Whole(clock, MINUTE) /\ M \in Nat
      /\ clock \in 0..(DAY - 1)
  <2>1. /\ HOUR \in Nat \ {0} /\ MINUTE \in Nat \ {0} /\ clock \in 0..(DAY - 1)
        /\ DAY \in Nat
    BY Fields DEF ClockInv, ClockTypes
  <2>2. /\ H = Whole(clock, HOUR) /\ Whole(clock, HOUR) + M = Whole(clock, MINUTE)
        /\ H \in Nat /\ M \in Nat
    BY <2>1, Fields
  <2> QED BY <2>1, <2>2
<1> HIDE DEF H, M
<1>2. CASE ReadHour
  <2>1. /\ sum' = H /\ next' = "minute" /\ torn' = FALSE /\ sleeper = "poll"
        /\ UNCHANGED <<clock, sleeper, seconds, last_sec, clean, sampled, elapsed>>
    BY <1>2 DEF ReadHour, H
  <2>2. torn' \in BOOLEAN /\ clean' \in BOOLEAN /\ sampled' \in BOOLEAN
    BY <2>1, Zenon DEF ClockInv, ClockTypes
  <2>3. ClockTypes'
    BY <1>1, <2>1, <2>2 DEF ClockInv, ClockTypes
  <2>4. Untorn'
    BY <1>1, <2>1 DEF ClockInv, Untorn
  <2>5. InStep'
    BY <1>1, <2>1 DEF ClockInv, ClockTypes, InStep, Regular
  <2> QED BY <2>3, <2>4, <2>5 DEF ClockInv
<1>3. CASE ReadMinute
  <2>1. /\ sum' = sum + M /\ next' = "second" /\ next = "minute"
        /\ UNCHANGED <<clock, sleeper, seconds, last_sec, torn, clean, sampled, elapsed>>
    BY <1>3 DEF ReadMinute, M
  <2>2. ClockTypes'
    <3>1. sum' \in Nat
      BY <1>1, <2>1 DEF ClockInv, ClockTypes
    <3> QED BY <2>1, <3>1 DEF ClockInv, ClockTypes
  <2>3. Untorn'
    BY <1>1, <2>1 DEF ClockInv, Untorn
  <2>4. InStep'
    BY <1>1, <2>1 DEF ClockInv, ClockTypes, InStep, Regular
  <2> QED BY <2>2, <2>3, <2>4 DEF ClockInv
<1>4. CASE \E s \in Sleeps : Sleep(s)
  <2>1. PICK s \in Sleeps : Sleep(s)
    BY <1>4
  <2>2. /\ seconds' = s /\ s \in Nat /\ sum' = H /\ sleeper' = "first" /\ next' = "minute"
        /\ torn' = FALSE /\ sampled' = TRUE /\ elapsed' = 0
        /\ UNCHANGED <<clock, last_sec, clean>>
    BY <2>1 DEF Sleep, H, RtcAssumption
  <2>3. torn' \in BOOLEAN /\ clean' \in BOOLEAN /\ sampled' \in BOOLEAN
    BY <2>2, Zenon DEF ClockInv, ClockTypes
  <2> QED BY <1>1, <2>2, <2>3 DEF ClockInv, ClockTypes, Untorn, InStep
<1> QED BY <1>2, <1>3, <1>4

(* A whole reading: the first one sets the second to wake up in, and one   *)
(* of the second that ends the sleep cannot miss it.                       *)
LEMMA WholeReading ==
  ASSUME RtcAssumption, ClockInv, ReadSecond
  PROVE  /\ sum + rtc_second \in Nat /\ rtc_second \in Nat /\ clock \in Nat
         /\ ~torn => sum + rtc_second = clock
         /\ sum <= Whole(clock, MINUTE) => sum + rtc_second <= clock
<1>1. /\ clock \in 0..(DAY - 1) /\ sum \in Nat /\ next = "second"
      /\ ~torn => sum = Whole(clock, MINUTE)
  BY DEF ClockInv, ClockTypes, Untorn, ReadSecond
<1>2. /\ MINUTE \in Nat \ {0} /\ DAY \in Nat /\ rtc_second \in Nat
      /\ Whole(clock, MINUTE) + rtc_second = clock
  BY <1>1, Fields
<1>3. clock \in Nat
  BY <1>1, <1>2
<1>4. Whole(clock, MINUTE) \in Nat
  BY <1>2, <1>3, WholeUnits
<1> QED BY <1>1, <1>2, <1>3, <1>4

LEMMA FirstInStep == ASSUME RtcAssumption, ClockInv, FirstTime PROVE ClockInv'
<1>1. /\ ReadSecond /\ sleeper = "first" /\ sleeper' = "poll" /\ next' = "hour"
      /\ last_sec' = sum + rtc_second + seconds /\ sampled' = ~torn /\ clean' = ~torn
      /\ UNCHANGED <<clock, sum, seconds, torn, elapsed>>
  BY DEF FirstTime, ReadSecond
<1>2. /\ sum + rtc_second \in Nat /\ clock \in Nat /\ rtc_second \in Nat
      /\ ~torn => sum + rtc_second = clock /\ elapsed = 0
  BY <1>1, WholeReading DEF ClockInv, Untorn
<1>3. ClockTypes'
  <2>1. torn' \in BOOLEAN /\ clean' \in BOOLEAN /\ sampled' \in BOOLEAN
    BY <1>1, Zenon DEF ClockInv, ClockTypes
  <2>2. last_sec' \in Nat
    BY <1>1, <1>2 DEF ClockInv, ClockTypes
  <2> QED BY <1>1, <2>1, <2>2 DEF ClockInv, ClockTypes
<1>4. Untorn'
  BY <1>1 DEF Untorn
<1>5. InStep'
  <2>1. Regular' => clean' /\ seconds' > 0
    BY DEF Regular
  <2>2. clean' => ~torn
    BY <1>1, Zenon
  <2>3. /\ seconds \in Nat /\ last_sec' = sum + rtc_second + seconds /\ next' = "hour"
        /\ clock' = clock /\ seconds' = seconds /\ elapsed' = elapsed
    BY <1>1 DEF ClockInv, ClockTypes
  <2>4. ASSUME ~torn, seconds > 0
        PROVE  /\ clock + seconds = last_sec' + elapsed /\ elapsed <= seconds
               /\ seconds <= last_sec' /\ elapsed # seconds
    BY <1>2, <2>3, <2>4
  <2> QED BY <2>1, <2>2, <2>3, <2>4 DEF InStep
<1> QED BY <1>3, <1>4, <1>5 DEF ClockInv

LEMMA PollInStep ==
  ASSUME RtcAssumption, ClockInv, Poll
  PROVE  ClockInv' /\ (sleeper' = "awake" /\ Regular => elapsed = seconds)
<1>1. /\ ReadSecond /\ sleeper = "poll" /\ next = "second" /\ next' = "hour"
      /\ sampled' = ~torn
      /\ sleeper' = IF sum + rtc_second = last_sec THEN "awake" ELSE "poll"
      /\ UNCHANGED <<clock, sum, seconds, torn, elapsed, last_sec, clean>>
  BY DEF Poll, ReadSecond, Wakes
<1>2. /\ sum + rtc_second \in Nat /\ clock \in Nat /\ rtc_second \in Nat
      /\ ~torn => sum + rtc_second = clock
      /\ sum <= Whole(clock, MINUTE) => sum + rtc_second <= clock
  BY <1>1, WholeReading
<1>3. ClockTypes'
  <2>1. torn' \in BOOLEAN /\ clean' \in BOOLEAN /\ sampled' \in BOOLEAN
    BY <1>1, Zenon DEF ClockInv, ClockTypes
  <2> QED BY <1>1, <2>1 DEF ClockInv, ClockTypes
<1>4. Untorn'
  BY <1>1 DEF Untorn
<1>5. Regular =>
        /\ clock + seconds = last_sec + elapsed /\ elapsed <= seconds /\ seconds <= last_sec
        /\ sum + rtc_second <= clock
        /\ seconds \in Nat /\ elapsed \in Nat /\ last_sec \in Nat
  BY <1>1, <1>2 DEF ClockInv, ClockTypes, InStep
<1>6. InStep'
  <2>1. Regular' <=> Regular
    BY <1>1 DEF Regular
  <2>2. sleeper' = "poll" => sum + rtc_second # last_sec
    BY <1>1
  <2>3. sampled' => ~torn
    BY <1>1, Zenon
  <2>4. Regular /\ elapsed = seconds => clock = last_sec
    BY <1>2, <1>5
  <2>5. sleeper' = "poll" /\ Regular /\ elapsed = seconds => ~sampled'
    BY <1>2, <2>2, <2>3, <2>4
  <2> QED BY <1>1, <1>5, <2>1, <2>5 DEF InStep
<1>7. sleeper' = "awake" /\ Regular => elapsed = seconds
  BY <1>1, <1>2, <1>5
<1> QED BY <1>3, <1>4, <1>6, <1>7 DEF ClockInv

LEMMA ClockStep ==
  ASSUME RtcAssumption, ClockInv, [RtcNext]_(rtcVars)
  PROVE  ClockInv' /\ (sleeper = "poll" /\ sleeper' = "awake" /\ Regular => elapsed = seconds)
<1>1. CASE Tick
  BY <1>1, TickInStep DEF Tick
<1>2. CASE ReadHour \/ ReadMinute \/ (\E s \in Sleeps : Sleep(s))
  BY <1>2, ReadInStep DEF ReadHour, ReadMinute, Sleep
<1>3. CASE FirstTime
  BY <1>3, FirstInStep DEF FirstTime
<1>4. CASE Poll
  BY <1>4, PollInStep
<1>5. CASE UNCHANGED rtcVars
  BY <1>5 DEF rtcVars, ClockInv, ClockTypes, Untorn, InStep, Regular
<1> QED BY <1>1, <1>2, <1>3, <1>4, <1>5 DEF RtcNext, Read

(* A sleep whose first reading fell into one second, and that ends before  *)
(* midnight, ends in its second, for days, hours and minutes of any length *)
(* and whatever ticks fall into the later readings (rtc.c:41-50).          *)
THEOREM SleepsEndOnTime == ASSUME RtcAssumption PROVE RtcSpec => OnTime
<1> DEFINE A == sleeper = "poll" /\ sleeper' = "awake" /\ Regular => elapsed = seconds
<1>1. ClockInv /\ [RtcNext]_(rtcVars) => ClockInv' /\ [A]_(rtcVars)
  BY ClockStep
<1>2. RtcInit => ClockInv
  BY ClockInit
<1>3. [][A]_(rtcVars) => OnTime
  BY PTL DEF OnTime
<1> QED BY <1>1, <1>2, <1>3, PTL DEF RtcSpec

-----------------------------------------------------------------------------
(* The interrupt path: module Irq. *)
USE IrqAssumption DEF IrqAssumption

(* The inductive invariant: what the controllers have in service at each   *)
(* point of the interrupt path, and that a slave's line is still the one   *)
(* whose number irq_handler is about to end.                               *)
Taken(l) == IF l > 7 THEN {l, 2} ELSE {l}
IrqInv ==
    /\ pc \in {"task", "handler", "eoi", "iret"}
    /\ frame \in Nat
    /\ int_no \in [Task -> Nat]
    /\ running \in Task
    /\ pc \in {"task", "iret"} => in_service = {}
    /\ pc = "task" => interrupts
    /\ pc \in {"handler", "eoi"} =>
          \/ in_service = {}
          \/ \E l \in Line : /\ in_service = Taken(l)
                             /\ l > 7 \/ pc = "handler" => frame = 32 + l

(* The byte pic_eoi is called with, for the number of line l. *)
LEMMA EoiByte == \A l \in 0..15 : (32 + l + 256 - 32) % 256 = l
<1> SUFFICES ASSUME NEW l \in 0..15 PROVE (32 + l + 256 - 32) % 256 = l
  OBVIOUS
<1>1. 32 + l + 256 - 32 = 256 + l
  OBVIOUS
<1> QED
  BY <1>1

(* Ending line l's interrupt, with any number if l is the master's and     *)
(* with its own if it is the slave's, leaves nothing in service.           *)
LEMMA EndsAll ==
    ASSUME NEW l \in Line, NEW no \in Nat, in_service = Taken(l), l > 7 => no > 7
    PROVE  in_service \ EoiFor(no) = {}
<1>1. CASE l > 7
  <2>1. Slave = {l} /\ Master = {2}
    BY <1>1 DEF Slave, Master, Taken
  <2>2. Ended(Slave) = {l} /\ Ended(Master) = {2}
    BY <1>1, <2>1 DEF Ended
  <2> QED
    BY <1>1, <2>2 DEF EoiFor, Taken
<1>2. CASE ~(l > 7)
  <2>1. Slave = {} /\ Master = {l}
    BY <1>2 DEF Slave, Master, Taken
  <2>2. Ended(Slave) = {} /\ Ended(Master) = {l}
    BY <1>2, <2>1 DEF Ended
  <2> QED
    BY <1>2, <2>2 DEF EoiFor, Taken
<1> QED
  BY <1>1, <1>2

LEMMA InitInv == Init => IrqInv
<1> SUFFICES ASSUME Init PROVE IrqInv
  OBVIOUS
<1> USE DEF Init
<1>1. frame \in Nat
  OBVIOUS
<1>2. int_no \in [Task -> Nat]
  OBVIOUS
<1>3. pc = "task" /\ in_service = {} /\ interrupts /\ running \in Task
  OBVIOUS
<1>4. pc \notin {"handler", "eoi"}
  BY <1>3
<1> QED
  BY <1>1, <1>2, <1>3, <1>4 DEF IrqInv

(* Entering the interrupt path: nothing was in service before. *)
LEMMA EnterInv == ASSUME IrqInv, NEW line \in Line, Interrupt(line) \/ Syscall
                  PROVE  IrqInv'
<1>1. CASE Interrupt(line)
  <2>1. pc = "task" /\ in_service = {}
    BY <1>1 DEF Interrupt, Enter, IrqInv
  <2>2. in_service' = Taken(line)
    BY <1>1, <2>1 DEF Interrupt, Taken
  <2>3. frame' = 32 + line /\ frame' \in Nat /\ pc' = "handler"
    BY <1>1 DEF Interrupt, Enter, IntNo
  <2>4. UNCHANGED << running, int_no >>
    BY <1>1 DEF Interrupt, Enter
  <2> QED
    BY <2>2, <2>3, <2>4 DEF IrqInv
<1>2. CASE Syscall
  BY <1>2 DEF Syscall, Enter, IrqInv
<1> QED
  BY <1>1, <1>2

LEMMA HandlerInv == ASSUME IrqInv, Handler PROVE IrqInv'
<1> USE DEF IrqInv
<1>1. pc = "handler" /\ pc' = "eoi" /\ in_service' = in_service
  BY DEF Handler
<1>2. CASE OtherHandler
  BY <1>1, <1>2 DEF OtherHandler, Taken
<1>3. CASE \E t \in Task : SwitchTo(t)
  <2>1. frame' \in Nat /\ int_no' \in [Task -> Nat] /\ running' \in Task /\ frame = 32
    BY <1>3 DEF SwitchTo
  <2>2. ASSUME NEW l \in Line, in_service = Taken(l), frame = 32 + l
        PROVE  ~(l > 7)
    BY <2>1, <2>2
  <2> QED
    BY <1>1, <2>1, <2>2 DEF Taken
<1> QED
  BY <1>2, <1>3 DEF Handler

LEMMA EoiInv == ASSUME IrqInv, pic_eoi PROVE IrqInv'
<1> DEFINE no == (frame + 256 - 32) % 256
<1>1. no \in Nat
  BY DEF IrqInv
<1>2. in_service' = {}
  <2>1. CASE in_service = {}
    BY <2>1 DEF pic_eoi
  <2>2. ASSUME NEW l \in Line, in_service = Taken(l), l > 7 => frame = 32 + l
        PROVE  in_service' = {}
    <3>1. l > 7 => no = l
      BY <2>2, EoiByte
    <3> QED
      BY <1>1, <2>2, <3>1, EndsAll DEF pic_eoi
  <2> QED
    BY <2>1, <2>2 DEF IrqInv, pic_eoi
<1> QED
  BY <1>2 DEF IrqInv, pic_eoi

LEMMA NextInv == ASSUME IrqInv, [Next]_vars PROVE IrqInv'
<1>1. ASSUME NEW line \in Line, Raise(line) PROVE IrqInv'
  BY <1>1 DEF Raise, IrqInv
<1>2. ASSUME NEW line \in Line, Interrupt(line) PROVE IrqInv'
  BY <1>2, EnterInv
<1>3. CASE Syscall
  BY <1>3 DEF Syscall, Enter, IrqInv
<1>4. CASE Handler
  BY <1>4, HandlerInv
<1>5. CASE pic_eoi
  BY <1>5, EoiInv
<1>6. CASE Iret
  BY <1>6 DEF Iret, IrqInv
<1>7. CASE UNCHANGED vars
  BY <1>7 DEF vars, IrqInv
<1> QED
  BY <1>1, <1>2, <1>3, <1>4, <1>5, <1>6, <1>7 DEF Next

(* No task ever runs with an interrupt still in service, so no line is     *)
(* blocked for ever: idt.c:121 ends the right one although sched_switch    *)
(* has overwritten its number.                                             *)
THEOREM EveryInterruptEnded == Spec => []AllEnded
<1>1. IrqInv => AllEnded
  BY DEF IrqInv, AllEnded
<1> QED
  BY InitInv, NextInv, <1>1, PTL DEF Spec
=============================================================================
