------------------------------- MODULE Clock --------------------------------
(***************************************************************************)
(* Waiting: rtc::sleep against the real-time clock, which moves on between *)
(* the reads of its registers (RTC/rtc.cpp), and how long the waits of     *)
(* PIT, HPET and omtime are.                                               *)
(*                                                                         *)
(* One call of rtc::sleep(seconds).  time() reads hour, minute and second  *)
(* in this order, as the expression of line 72 is compiled.                *)
(***************************************************************************)
EXTENDS Integers, Sequences

CONSTANTS
  Hours, Minutes, Seconds,   \* 24, 60, 60
  Longest,                   \* bound on the argument of sleep
  ElapsedCap,                \* elapsed counts to here
  PerUs                      \* 10^9: the HPET counts its period in femtoseconds

ASSUME ClockAssumption ==
  /\ Hours \in Nat \ {0} /\ Minutes \in Nat \ {0} /\ Seconds \in Nat \ {0, 1}
  /\ Longest \in Nat /\ ElapsedCap \in Nat
  /\ PerUs \in Nat \ {0}

Day == Hours * Minutes * Seconds

VARIABLES
  now,       \* seconds since midnight: what the chip counts
  start,     \* now, when sleep was called
  elapsed,   \* seconds since sleep was called
  arg,       \* seconds
  regs,      \* what time() has read: << >>, <<h>>, <<h, m>>
  torn,      \* the clock moved on during this call of time()
  settled,   \* time() has been read whole since the clock moved on
  timeWanted,
  pc         \* "first": line 86, "poll": line 87, "done"

clockVars == <<now, start, elapsed, arg, regs, torn, settled, timeWanted, pc>>

ClockInit ==
  /\ now \in 0 .. Day - 1 /\ start = now /\ elapsed = 0 /\ arg \in 0 .. Longest
  /\ regs = << >> /\ torn = FALSE /\ settled = TRUE
  /\ timeWanted = 0 /\ pc = "first"

\* The chip's registers, BCD, and how they are read.
BCD(v) == (v \div 10) * 16 + (v % 10)
bcptobin(value) == (value \div 16) * 10 + (value % 16)

CMOS == <<BCD(now \div (Minutes * Seconds)), BCD((now \div Seconds) % Minutes), BCD(now % Seconds)>>

(***************************************************************************)
(* Assumption: a second is long enough for one whole time(); so the clock  *)
(* moves on at most once while one is under way, and not again before one  *)
(* was read whole.                                                         *)
(***************************************************************************)
Tick ==
  /\ settled
  /\ now' = (now + 1) % Day
  /\ elapsed' = IF elapsed < ElapsedCap THEN elapsed + 1 ELSE elapsed
  /\ settled' = FALSE
  /\ torn' = (regs # << >>)
  /\ UNCHANGED <<start, arg, regs, timeWanted, pc>>

\* hour() and minute().
ReadRegister ==
  /\ pc # "done" /\ Len(regs) < 2
  /\ regs' = Append(regs, bcptobin(CMOS[Len(regs) + 1]))
  /\ UNCHANGED <<now, start, elapsed, arg, torn, settled, timeWanted, pc>>

\* Mutant: the last term is forgotten.
TimeOfMinutes(h, m, s) == (h * Minutes + m) * Seconds

Time(h, m, s) == (h * Minutes + m) * Seconds + s

\* Mutant: the end of the wait is the next second, whatever was asked.
WantedNext(time, seconds) == IF seconds = 0 THEN time ELSE time + 1

\* Line 86: not reduced modulo a day.
Wanted(time, seconds) == time + seconds

\* second() ends time(): the value is kept, or compared.
ReadSecond ==
  /\ pc # "done" /\ Len(regs) = 2
  /\ LET time == Time(regs[1], regs[2], bcptobin(CMOS[3]))
     IN  IF pc = "first" THEN timeWanted' = Wanted(time, arg) /\ pc' = "poll"
         ELSE pc' = (IF time # timeWanted THEN "poll" ELSE "done") /\ UNCHANGED timeWanted
  /\ regs' = << >> /\ torn' = FALSE /\ settled' = (settled \/ ~torn)
  /\ UNCHANGED <<now, start, elapsed, arg>>

(***************************************************************************)
(* sleep returns before its time only if its start was read across a carry *)
(* (too early by a minute or an hour, and so is the end) and at least a    *)
(* minute was asked for; with less, that end has passed and the call waits *)
(* for the next day.  Reads across a carry while it polls end no sleep.    *)
(***************************************************************************)
SleepNotEarly ==
  pc = "done" => \/ elapsed >= arg \/ elapsed = ElapsedCap
                 \/ timeWanted < start + arg /\ arg >= Seconds

(***************************************************************************)
(* A sleep that ends before midnight and whose start was read whole (the   *)
(* end is the start plus seconds) returns, even if the second it waits for *)
(* passes unseen before the first poll, as in sleep(0): then a day later.  *)
(* One that would end behind midnight waits for a time() that never comes. *)
(***************************************************************************)
SleepEnds ==
  (pc = "poll" /\ timeWanted = start + arg /\ start + arg < Day) ~> (pc = "done")

-----------------------------------------------------------------------------
(***************************************************************************)
(* How long the waits of pit, hpet and omtime take, in microseconds, the   *)
(* last one begun included.  source is the first initialised one:          *)
(* [kind |-> "hpet", clock] with the period of its counter, PerUs of which *)
(* would be a microsecond, [kind |-> "pit", frequence], or                 *)
(* [kind |-> "rtc"].                                                       *)
(***************************************************************************)

\* pit::setFrequence: what line 45 stores, line 47 overwrites.
setFrequence(f) == [frequence |-> f, div |-> (1193180 \div f) % 65536]

\* The ticks waited for, at 1/frequence each.
Ticks(p, n) == (n * 1000000) \div p.frequence
pit_sleep(p, seconds) == Ticks(p, seconds * p.frequence)
pit_mSleep(p, ms) == Ticks(p, ms * (p.frequence \div 100))

InUs(n) == (n + PerUs - 1) \div PerUs

\* Mutant: the counts of one microsecond, times their number.
hpet_uSleepDividesFirst(h, us) == InUs(us * (PerUs \div h.clock) * h.clock)

\* The counter's periods waited for.
hpet_uSleep(h, us) == InUs(((us * PerUs) \div h.clock) * h.clock)

\* omtime.hpp.  The names say milliseconds; 10000 microseconds are ten.
MSEC_TO_US(ms) == ms * 10000
US_TO_MSEC(us) == us \div 10000

omtime_sleep(source, seconds) ==
  CASE source.kind = "hpet" -> hpet_uSleep(source, seconds * 1000000)
    [] source.kind = "pit" -> pit_sleep(source, seconds)
    [] source.kind = "rtc" -> seconds * 1000000

omtime_mSleep(source, ms) ==
  CASE source.kind = "hpet" -> hpet_uSleep(source, MSEC_TO_US(ms))
    [] source.kind = "pit" -> pit_mSleep(source, ms)
    [] source.kind = "rtc" -> (ms \div 100) * 1000000

omtime_uSleep(source, us) ==
  CASE source.kind = "hpet" -> hpet_uSleep(source, us)
    [] source.kind = "pit" -> pit_mSleep(source, US_TO_MSEC(us))
    [] source.kind = "rtc" -> (us \div 1000000) * 1000000

\* The smallest wait of each that is not 0, in microseconds.
Grain(source) == CASE source.kind = "hpet" -> InUs(source.clock)
                   [] source.kind = "pit" -> 10000
                   [] source.kind = "rtc" -> 1000000

(***************************************************************************)
(* omtime's functions do not depend on the source that serves them: two of *)
(* them wait the same time for one argument, to within the coarser one's   *)
(* grain, whatever the unit of mSleep is; and sleep and uSleep wait the    *)
(* seconds and microseconds asked for, short by less than a grain and      *)
(* never longer.  For the PIT at a multiple of 100 Hz.                     *)
(***************************************************************************)
WaitsAgree(a, b, ms, us, seconds) ==
  LET Short(asked, waited) == asked - waited \in 0 .. Grain(a) - 1
      Behind(x, y) == x < y + Grain(a) \/ x < y + Grain(b)
  IN  /\ Behind(omtime_mSleep(a, ms), omtime_mSleep(b, ms))
      /\ Behind(omtime_mSleep(b, ms), omtime_mSleep(a, ms))
      /\ Short(us, omtime_uSleep(a, us))
      /\ Short(1000000 * seconds, omtime_sleep(a, seconds))
=============================================================================
