-------------------------------- MODULE Clock --------------------------------
(***************************************************************************)
(* time.c: arithmetic on eaf_clock_time_t, seconds of 64 bits and          *)
(* nanoseconds of 32 bits.  A time whose nanoseconds exceed a second is    *)
(* accepted as input; the loops of the source that take whole seconds out  *)
(* of the nanoseconds are a division here.  The widths and the units are   *)
(* constants, so that every pair of times can be tried.                    *)
(***************************************************************************)
EXTENDS Integers

CONSTANTS
    NsecInSec, MsecInSec,   \* NSEC_IN_SEC, MSEC_IN_SEC
    SecRange, NsecRange,    \* 2^64, 2^32: what the two fields hold
    MsecInput               \* the milliseconds that are added

\* The nanoseconds hold four seconds and some more; a wrap is told by a smaller
\* number of seconds as long as fewer are carried than the seconds can hold.
ASSUME ClockAssumption ==
    /\ {NsecInSec, MsecInSec} \subseteq Nat \ {0} /\ NsecInSec % MsecInSec = 0
    /\ NsecRange \in 4 * NsecInSec .. 5 * NsecInSec
    /\ SecRange \in Nat /\ SecRange > 5
    /\ MsecInput \subseteq Nat

VARIABLES
    clock,  \* a clock to which its user applies the operations
    called, \* the last call: its operation, the clock before it, its other arguments
    result, \* what it returned
    diff    \* *diff of the last eaf_time_diffclock

clockVars == <<clock, called, result, diff>>

Time == [sec : 0 .. SecRange - 1, nsec : 0 .. NsecRange - 1]
Flag == {"none", "ignore_overflow"}

-----------------------------------------------------------------------------
(* Pure functions: the time that is computed, and whether it overflowed. *)

WrapSec(n) == n % SecRange
WrapNsec(n) == n % NsecRange

\* The loops that carry whole seconds.
CarryOnce(t) ==                     \* faulty: an if in place of the while
    IF t.nsec < NsecInSec THEN t
    ELSE [sec |-> WrapSec(t.sec + 1), nsec |-> t.nsec - NsecInSec]
Carry(t) == [sec |-> WrapSec(t.sec + t.nsec \div NsecInSec), nsec |-> t.nsec % NsecInSec]

\* eaf_time_fmtclock_ext: -1 for an overflow.
Fmt(t) == [time |-> Carry(t), ret |-> IF Carry(t).sec < t.sec THEN -1 ELSE 0]

\* The three later steps of eaf_time_addclock_ext, each a time and 1 for a wrap: the
\* seconds, the seconds in the nanoseconds of d, the carry of the rest.
AddSec(t, d) == [t EXCEPT !.sec = WrapSec(t.sec + d.sec)]
AddNsec(t, d) == [sec |-> WrapSec(t.sec + d.nsec \div NsecInSec),
                  nsec |-> WrapNsec(t.nsec + (d.nsec % NsecInSec))]
Wrapped(t, u) == IF u.sec < t.sec THEN 1 ELSE 0

\* eaf_time_addclock_ext.  Without the flag the first overflow ends the call and dst
\* stays; with it the codes of the steps are added up, -1 from the first and 1 from
\* the others.
AddClockExt(dst, src, dif, flag) ==
    LET t0 == Fmt(src).time
        t1 == AddSec(t0, dif)
        t2 == AddNsec(t1, dif)
        t3 == Carry(t2)
        overflow == <<Fmt(src).ret, Wrapped(t0, t1), Wrapped(t1, t2), Wrapped(t2, t3)>>
    IN  IF flag = "none" /\ \E i \in 1 .. 4 : overflow[i] # 0
        THEN [time |-> dst, ret |-> -1]
        ELSE [time |-> t3,
              ret |-> IF overflow[1] + overflow[2] + overflow[3] + overflow[4] = 0
                      THEN 0 ELSE -1]

\* The milliseconds as a time, as eaf_time_addclock_msec makes it.
OfMsec(m) == [sec |-> WrapSec(m \div MsecInSec),
              nsec |-> (m % MsecInSec) * (NsecInSec \div MsecInSec)]

\* eaf_time_diffclock: which of the two is the larger, and the difference.  When the
\* nanoseconds have to borrow, their difference is not taken from a whole second.
FirstIsLarger(t1, t2) == t1.sec > t2.sec \/ (t1.sec = t2.sec /\ t1.nsec > t2.nsec)
Subtract(large, little) ==
    IF large.nsec < little.nsec
    THEN [sec |-> WrapSec(large.sec - little.sec - 1), nsec |-> little.nsec - large.nsec]
    ELSE [sec |-> large.sec - little.sec, nsec |-> large.nsec - little.nsec]
DiffClock(t1, t2) ==
    LET d == IF FirstIsLarger(t1, t2) THEN Subtract(t1, t2) ELSE Subtract(t2, t1)
    IN  [time |-> d,
         ret |-> IF d = [sec |-> 0, nsec |-> 0] THEN 0
                 ELSE IF FirstIsLarger(t1, t2) THEN 1 ELSE -1]

-----------------------------------------------------------------------------
(* The operations, on a clock that starts anywhere. *)

Zero == [sec |-> 0, nsec |-> 0]

ClockInit ==
    /\ clock \in Time
    /\ called = [op |-> "none", old |-> Zero, dif |-> Zero, flag |-> "none"]
    /\ diff = Zero /\ result = 0

ClockCall(op, dif, flag) == called' = [op |-> op, old |-> clock, dif |-> dif, flag |-> flag]

\* eaf_time_addclock_ext with the clock as source and destination, and
\* eaf_time_addclock, which has no flags.
ClockAdd(op, dif, flag) ==
    LET r == AddClockExt(clock, clock, dif, flag)
    IN  /\ ClockCall(op, dif, flag)
        /\ clock' = r.time /\ result' = r.ret
        /\ UNCHANGED diff

ClockAddMsec(m) == ClockAdd("msec", OfMsec(m), "none")

\* eaf_time_fmtclock_ext.
ClockFormat(flag) ==
    LET r == Fmt(clock)
    IN  /\ ClockCall("format", Zero, flag)
        /\ clock' = IF r.ret = 0 \/ flag = "ignore_overflow" THEN r.time ELSE clock
        /\ result' = r.ret
        /\ UNCHANGED diff

ClockDiff(t) ==
    LET r == DiffClock(clock, t)
    IN  /\ ClockCall("diff", t, "none")
        /\ diff' = r.time /\ result' = r.ret
        /\ UNCHANGED clock

\* One call: the clock it is made on is any time.
ClockNext ==
    /\ called.op = "none"
    /\ \/ \E t \in Time : ClockDiff(t)
       \/ \E t \in Time, flag \in Flag : ClockAdd("add", t, flag)
       \/ \E flag \in Flag : ClockFormat(flag)
       \/ \E m \in MsecInput : ClockAddMsec(m)

ClockSpec == ClockInit /\ [][ClockNext]_clockVars
==============================================================================
