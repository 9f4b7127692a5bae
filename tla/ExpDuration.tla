---------------------------- MODULE ExpDuration ----------------------------
(***************************************************************************)
(* The length of a countdown (common/countdown/exp_duration.go): the base   *)
(* duration times a power that grows with the rounds since the highest      *)
(* quorum certificate.  The checkpoint loop's UpdateParams calls SetParams  *)
(* without a lock while the timer goroutine is in GetTimeoutDuration, so    *)
(* each read and each write of a field is a step.                           *)
(***************************************************************************)
EXTENDS Integers

CONSTANTS
  Initial,                   \* the parameters the countdown is created with
  Configurations,            \* those that SetParams is called with
  MaxExponentUpperbound,     \* maxExponentUpperbound
  PowerLimit,                \* math.MaxUint32
  Bits,                      \* width of the exponent: uint8 has 8
  MaxRounds                  \* bound: rounds without a certificate

Pow[b \in Nat, n \in Nat] == IF n = 0 THEN 1 ELSE b * Pow[b, n - 1]

SanityCheck(b, m) == m < MaxExponentUpperbound /\ Pow[b, m] < PowerLimit

\* NewExpTimeoutDuration refuses parameters that fail the check.
ASSUME InitialAssumption == SanityCheck(Initial.base, Initial.maxExponent)

VARIABLES
  d,             \* the fields of ExpTimeoutDuration
  setter,        \* SetParams: its next statement, "idle" outside
  prev, args,    \* SetParams: the previous parameters, its arguments
  reader,        \* GetTimeoutDuration: its next statement, "idle" outside
  rounds,        \* GetTimeoutDuration: currentRound - highestRound
  used,          \* GetTimeoutDuration: what the result is made of
  overlapped     \* history: SetParams ran during the last GetTimeoutDuration

durationVars == << d, setter, prev, args, reader, rounds, used, overlapped >>

DurationInit ==
  /\ d = Initial
  /\ setter = "idle" /\ prev = Initial /\ args = Initial
  /\ reader = "idle" /\ rounds = 1 /\ overlapped = FALSE
  /\ used = [duration |-> Initial.duration, base |-> Initial.base, exp |-> 0]

-----------------------------------------------------------------------------
(* GetTimeoutDuration.  A countdown starts again in the same round, after a  *)
(* round without a certificate, or after one with.                           *)

\* uint8(currentRound-highestRound) - 1
RoundCount(n) == ((n % 2^Bits) - 1) % 2^Bits

GetTimeoutDuration ==
  /\ reader = "idle"
  /\ rounds' \in {1, rounds, rounds + 1} /\ rounds' <= MaxRounds
  /\ used' = [used EXCEPT !.exp = RoundCount(rounds')]
  /\ reader' = IF RoundCount(rounds') > d.maxExponent THEN "cap" ELSE "power"
  /\ overlapped' = (setter # "idle")
  /\ UNCHANGED << d, setter, prev, args >>

\* The field is read once more.
Cap ==
  /\ reader = "cap"
  /\ used' = [used EXCEPT !.exp = d.maxExponent]
  /\ reader' = "power"
  /\ UNCHANGED << d, setter, prev, args, rounds, overlapped >>

Power ==
  /\ reader = "power"
  /\ used' = [used EXCEPT !.base = d.base]
  /\ reader' = "duration"
  /\ UNCHANGED << d, setter, prev, args, rounds, overlapped >>

Duration ==
  /\ reader = "duration"
  /\ used' = [used EXCEPT !.duration = d.duration]
  /\ reader' = "idle"
  /\ UNCHANGED << d, setter, prev, args, rounds, overlapped >>

-----------------------------------------------------------------------------
SetParams(p) ==
  /\ setter = "idle"
  /\ prev' = d /\ args' = p
  /\ setter' = "duration"
  /\ overlapped' = (overlapped \/ reader # "idle")
  /\ UNCHANGED << d, reader, rounds, used >>

\* The fields are assigned one after the other.
SetDuration ==
  /\ setter = "duration"
  /\ d' = [d EXCEPT !.duration = args.duration]
  /\ setter' = "base"
  /\ UNCHANGED << prev, args, reader, rounds, used, overlapped >>

SetBase ==
  /\ setter = "base"
  /\ d' = [d EXCEPT !.base = args.base]
  /\ setter' = "exponent"
  /\ UNCHANGED << prev, args, reader, rounds, used, overlapped >>

SetExponent ==
  /\ setter = "exponent"
  /\ d' = [d EXCEPT !.maxExponent = args.maxExponent]
  /\ setter' = IF SanityCheck(args.base, args.maxExponent) THEN "idle" ELSE "restore duration"
  /\ UNCHANGED << prev, args, reader, rounds, used, overlapped >>

\* Mutant of RestoreDuration: the duration is not restored.
RestoreAllButDuration ==
  /\ setter = "restore duration"
  /\ setter' = "restore base"
  /\ UNCHANGED << d, prev, args, reader, rounds, used, overlapped >>

\* Parameters that fail the check are replaced by the previous ones.
RestoreDuration ==
  /\ setter = "restore duration"
  /\ d' = [d EXCEPT !.duration = prev.duration]
  /\ setter' = "restore base"
  /\ UNCHANGED << prev, args, reader, rounds, used, overlapped >>

RestoreBase ==
  /\ setter = "restore base"
  /\ d' = [d EXCEPT !.base = prev.base]
  /\ setter' = "restore exponent"
  /\ UNCHANGED << prev, args, reader, rounds, used, overlapped >>

RestoreExponent ==
  /\ setter = "restore exponent"
  /\ d' = [d EXCEPT !.maxExponent = prev.maxExponent]
  /\ setter' = "idle"
  /\ UNCHANGED << prev, args, reader, rounds, used, overlapped >>

DurationNext ==
  \/ GetTimeoutDuration \/ Cap \/ Power \/ Duration
  \/ \E p \in Configurations : SetParams(p)
  \/ SetDuration \/ SetBase \/ SetExponent
  \/ RestoreDuration \/ RestoreBase \/ RestoreExponent

DurationSpec == DurationInit /\ [][DurationNext]_durationVars

-----------------------------------------------------------------------------
(* Properties *)

Least(a, b) == IF a > b THEN b ELSE a

Accepted == {p \in Configurations \cup {Initial} : SanityCheck(p.base, p.maxExponent)}

\* The last countdown has the duration, the base and the capped exponent of one
\* configuration that passed the check.
LengthOfOne(count) ==
  \E p \in Accepted :
    used = [duration |-> p.duration, base |-> p.base, exp |-> Least(count, p.maxExponent)]

\* A countdown that SetParams does not overlap has its length from one configuration that
\* sanityCheck accepted, never from a rejected one or a mix of two, whichever
\* calls of SetParams came before.
AcceptedParams == reader = "idle" /\ ~overlapped => LengthOfOne(RoundCount(rounds))

\* No countdown is computed from parameters that fail the check.  (SetParams: "if parameters
\* are wrong, should remain instead of change or panic".)
WrongParamsUnused == reader = "idle" => SanityCheck(used.base, used.exp)

\* Every round without a certificate lengthens the countdown until the highest exponent is
\* reached, where it stays.  (exp_duration_test.go: "already 4 rounds timeout, but
\* max_exponent=3, should be base*exponent^3".)
CappedTimeouts == reader = "idle" /\ ~overlapped => LengthOfOne(rounds - 1)
=============================================================================
