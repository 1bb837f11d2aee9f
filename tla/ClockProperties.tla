--------------------------- MODULE ClockProperties ---------------------------
(***************************************************************************)
(* What should hold of the clock arithmetic: it is the arithmetic of a     *)
(* number of nanoseconds, up to what the fields can hold.                  *)
(***************************************************************************)
EXTENDS Clock

\* A time as a number, how many numbers the fields hold, a time without a second in
\* its nanoseconds.
Nanos(t) == t.sec * NsecInSec + t.nsec
Full == SecRange * NsecInSec
Normal(t) == t.nsec < NsecInSec

\* Sums are exact at every carry and every edge of both fields, or refused: -1 tells
\* that the sum does not fit, and then the clock stays (eaf_time_addclock) or takes
\* the sum modulo its range (EAF_TIME_IGNORE_OVERFLOW).  That -1 tells it is claimed
\* for at most one overflow of the seconds: OverflowIsTold is the rest.
AddExact ==
    called.op \in {"add", "msec", "format"} =>
        LET total == Nanos(called.old) + Nanos(called.dif)
        IN  /\ total < Full => result = 0 /\ Nanos(clock) = total
            /\ total >= Full /\ called.flag = "none" => result = -1 /\ clock = called.old
            /\ total >= Full /\ called.flag # "none" => Nanos(clock) = total % Full
            /\ total \in Full .. 2 * Full - 1 /\ Fmt(called.old).ret = 0 => result = -1
            /\ Normal(clock) \/ result = -1

\* The order of two normal times is right, and so are the whole seconds of their
\* difference, borrow or not.  Its nanoseconds are right only when those of the larger
\* time need no borrow: with one, time.c:205 takes them the wrong way round, and all
\* that is claimed of them is that they are less than a second (BorrowExact).
DiffExact ==
    called.op = "diff" /\ Normal(called.old) /\ Normal(called.dif) =>
        LET large == IF result = 1 THEN called.old ELSE called.dif
            little == IF result = 1 THEN called.dif ELSE called.old
        IN  /\ result = 0 <=> called.old = called.dif
            /\ Nanos(little) <= Nanos(large)
            /\ Nanos(large) - Nanos(little) - diff.sec * NsecInSec \in 0 .. NsecInSec - 1
            /\ large.nsec >= little.nsec => Nanos(diff) = Nanos(large) - Nanos(little)
            /\ Normal(diff)

\* Sums and differences, at every carry and edge of their fields, but for what the
\* code gets wrong: the nanoseconds of a difference with a borrow, and the code
\* returned when two overflows cancel.  The two formulas below state those.
ClockExact == AddExact /\ DiffExact

-----------------------------------------------------------------------------
\* What the code does not do.  time.h:67: diff is the difference of the two times,
\* borrow or not; time.c:205 subtracts the nanoseconds the wrong way round.
BorrowExact ==
    called.op = "diff" /\ Normal(called.old) /\ Normal(called.dif) =>
        Nanos(diff) \in {Nanos(called.old) - Nanos(called.dif), Nanos(called.dif) - Nanos(called.old)}

\* time.h:115: "0 if overflow not happen, -1 if overflow occur", but two overflows of
\* one call with EAF_TIME_IGNORE_OVERFLOW add up to 0.
OverflowIsTold ==
    called.op \in {"add", "msec", "format"} =>
        (result = -1 <=> Nanos(called.old) + Nanos(called.dif) >= Full)
==============================================================================
