-------------------------------- MODULE Rtc --------------------------------
(***************************************************************************)
(* rtc_sleep of src/drivers/rtc.c against a clock that ticks meanwhile.    *)
(* rtc_time reads hour, minute and second one after the other, and the     *)
(* sleeper polls it until it equals the second to wake up in.  It runs in  *)
(* a system call, with interrupts off, so the clock is its only company.   *)
(***************************************************************************)
EXTENDS Integers

CONSTANTS HOURS, MINUTES, SECONDS,  \* of a day, an hour, a minute: 24, 60, 60
          Sleeps                    \* bound: the arguments sleep is called with

ASSUME RtcAssumption == /\ {HOURS, MINUTES, SECONDS} \subseteq 1..99
                        /\ Sleeps \subseteq Nat

MINUTE == SECONDS
HOUR == MINUTES * SECONDS
DAY == HOURS * HOUR

VARIABLES
    clock,    \* the second of the day the chip is in
    sleeper,  \* "awake", in its "first" rtc_time or in "poll"
    next,     \* the field rtc_time reads next
    sum,      \* what rtc_time added up so far
    seconds, last_sec,
    torn,     \* the clock ticked during this rtc_time
    clean,    \* it did not during the first one
    sampled,  \* this second may end: an rtc_time began and ended in it, or it
              \* is the one rtc_sleep was called in
    elapsed   \* seconds since rtc_sleep was called, up to DAY

rtcVars == << clock, sleeper, next, sum, seconds, last_sec, torn, clean, sampled, elapsed >>

RtcInit == /\ clock \in 0..(DAY - 1)
           /\ sleeper = "awake"
           /\ next = "hour"
           /\ sum = 0
           /\ seconds = 0 /\ last_sec = 0
           /\ torn = FALSE /\ clean = TRUE /\ sampled = FALSE
           /\ elapsed = 0

-----------------------------------------------------------------------------
(* Definitions named X_... are mistaken variants of the definition X that  *)
(* follows them; no action uses them.                                      *)

(* The chip keeps each field as two decimal digits in one byte. *)
Bcd(n) == (n \div 10) * 16 + (n % 10)
bcd_to_bin_Octal(value) == (value \div 16) * 8 + (value % 16)
bcd_to_bin(value) == (value \div 16) * 10 + (value % 16)

rtc_hour == bcd_to_bin(Bcd(clock \div HOUR))
rtc_minute == bcd_to_bin(Bcd((clock \div MINUTE) % MINUTES))
rtc_second == bcd_to_bin(Bcd(clock % SECONDS))

(* A second passes.  It is long enough for rtc_time to be evaluated twice, *)
(* so that one evaluation at least falls into it undisturbed.              *)
Tick == /\ sleeper = "awake" \/ sampled
        /\ clock' = (clock + 1) % DAY
        /\ sampled' = FALSE
        /\ torn' = (next # "hour")
        /\ elapsed' = IF elapsed < DAY THEN elapsed + 1 ELSE DAY
        /\ UNCHANGED << sleeper, next, sum, seconds, last_sec, clean >>

(* rtc_sleep(s) is called and reads the hour. *)
Sleep(s) ==
    /\ sleeper = "awake"
    /\ seconds' = s
    /\ sum' = rtc_hour * HOUR
    /\ sleeper' = "first" /\ next' = "minute"
    /\ torn' = FALSE /\ sampled' = TRUE
    /\ elapsed' = 0
    /\ UNCHANGED << clock, last_sec, clean >>

ReadHour ==
    /\ sleeper = "poll" /\ next = "hour"
    /\ sum' = rtc_hour * HOUR
    /\ next' = "minute"
    /\ torn' = FALSE
    /\ UNCHANGED << clock, sleeper, seconds, last_sec, clean, sampled, elapsed >>

ReadMinute ==
    /\ next = "minute"
    /\ sum' = sum + rtc_minute * MINUTE
    /\ next' = "second"
    /\ UNCHANGED << clock, sleeper, seconds, last_sec, torn, clean, sampled, elapsed >>

(* The last field: rtc_time returns, to the addition of line 47 or to the  *)
(* comparison of line 48.                                                  *)
ReadSecond ==
    /\ next = "second"
    /\ next' = "hour"
    /\ sampled' = ~torn
    /\ UNCHANGED << clock, sum, seconds, torn, elapsed >>

FirstTime == /\ sleeper = "first" /\ ReadSecond
             /\ last_sec' = sum + rtc_second + seconds
             /\ clean' = ~torn
             /\ sleeper' = "poll"

Wakes_Late(time) == time > last_sec
Wakes(time) == time = last_sec
Poll == /\ sleeper = "poll" /\ ReadSecond
        /\ sleeper' = IF Wakes(sum + rtc_second) THEN "awake" ELSE "poll"
        /\ UNCHANGED << last_sec, clean >>

Read == ReadHour \/ ReadMinute \/ FirstTime \/ Poll

RtcNext == Tick \/ (\E s \in Sleeps : Sleep(s)) \/ Read

(* Time passes and the CPU goes on reading: nothing can interrupt it. *)
RtcSpec == RtcInit /\ [][RtcNext]_rtcVars /\ WF_rtcVars(Tick) /\ WF_rtcVars(Read)

-----------------------------------------------------------------------------
(* Type correctness, and with it the range of a time of day. *)
RtcTypeOK ==
    /\ clock \in 0..(DAY - 1)
    /\ sleeper \in {"awake", "first", "poll"}
    /\ next \in {"hour", "minute", "second"}
    /\ sum \in 0..(DAY - 1)
    /\ seconds \in Sleeps \cup {0}
    /\ last_sec \in Nat
    /\ torn \in BOOLEAN /\ clean \in BOOLEAN /\ sampled \in BOOLEAN
    /\ elapsed \in 0..DAY

(* The sleeps that do what they say: the first time was read within one    *)
(* second, and the second to wake up in is a later one of the same day.    *)
Regular == clean /\ seconds > 0 /\ last_sec < DAY

(* A sleep under these conditions ends in the very second it should, even  *)
(* though later readings may be torn (rtc.c:46-49).                        *)
OnTime == [][sleeper = "poll" /\ sleeper' = "awake" /\ Regular => elapsed = seconds]_rtcVars

(* Such a sleep does end. *)
RegularReturns == (sleeper = "poll" /\ Regular) ~> (sleeper = "awake")

(* No sleep ends too soon. *)
NeverEarly == [][sleeper = "poll" /\ sleeper' = "awake" => elapsed >= seconds]_rtcVars

(* Every sleep ends. *)
SleepReturns == (sleeper = "poll") ~> (sleeper = "awake")
=============================================================================
