----------------------------- MODULE SessionAnomaly -----------------------------
(***************************************************************************)
(* The anomaly signal of ValidateSession: the failure counter of           *)
(* sessionauth/anomaly.go, and the audit event it is to lead to, through   *)
(* audit.Service.Emit.  A token stands for its fingerprint.  The counter   *)
(* lives in the process and is lost when it restarts; the log is not.      *)
(*                                                                         *)
(* Time passes in ticks.  Bounds: Horizon ticks, and at most Burst         *)
(* failures of a token in one tick.                                        *)
(***************************************************************************)
EXTENDS Naturals, Sequences, FiniteSets

CONSTANTS
    Tokens,
    Threshold,  \* validateFailureThreshold
    Window,     \* validateFailureWindow, in ticks
    Horizon, Burst

VARIABLES
    now,
    window,     \* window[t]: the tracker's entry, NoWindow if there is none
    failures,   \* history: failures[t], the ticks of t's failures
    lost,       \* history: the ticks in which the process restarted
    signals,    \* history: signals[t], the ticks in which t's failures were signalled
    log         \* the tokens with an anomaly event in the audit log

vars == <<now, window, failures, lost, signals, log>>

ASSUME AnomalyAssumption ==
    Threshold \in Nat \ {0} /\ Window \in Nat \ {0} /\ Horizon \in Nat /\ Burst \in Nat

Time == 0..Horizon
NoWindow == [count |-> 0, start |-> 0]

\* How many of the ticks in s are between i and j.
Within(s, i, j) == Cardinality({k \in DOMAIN s : s[k] \in i..j})

TypeOK ==
    /\ now \in Time
    /\ window \in [Tokens -> [count : 0..(Threshold - 1), start : Time]]
    /\ failures \in [Tokens -> Seq(Time)]
    /\ lost \subseteq Time
    /\ signals \in [Tokens -> Seq(Time)]
    /\ log \subseteq Tokens

Init ==
    /\ now = 0
    /\ window = [t \in Tokens |-> NoWindow]
    /\ failures = [t \in Tokens |-> <<>>]
    /\ lost = {}
    /\ signals = [t \in Tokens |-> <<>>]
    /\ log = {}

Tick ==
    /\ now < Horizon
    /\ now' = now + 1
    /\ UNCHANGED <<window, failures, lost, signals, log>>

Restart ==
    /\ window' = [t \in Tokens |-> NoWindow]
    /\ lost' = lost \cup {now}
    /\ UNCHANGED <<now, failures, signals, log>>

--------------------------------------------------------------------------------
\* Mutated form of CurrentWindow: the clock is never compared with the start.
NeverRollsOver(t) == IF window[t].count = 0 THEN [count |-> 0, start |-> now] ELSE window[t]

\* The entry this failure is counted in: a rolled-over window starts afresh.
CurrentWindow(t) ==
    IF window[t].count = 0 \/ now - window[t].start > Window
    THEN [count |-> 0, start |-> now]
    ELSE window[t]

\* audit.Service.Emit refuses an event without an actor; the answer is dropped.
AnomalyActor == ""
Emit(actor, t) == log' = IF actor = "" THEN log ELSE log \cup {t}

\* Mutated form of recordValidationFailure: the signalled entry is not deleted.
RecordWithoutReset(t) ==
    LET w == CurrentWindow(t) IN
    /\ Within(failures[t], now, now) < Burst
    /\ failures' = [failures EXCEPT ![t] = Append(@, now)]
    /\ window' = [window EXCEPT ![t] = [w EXCEPT !.count = w.count + 1]]
    /\ IF w.count + 1 >= Threshold
       THEN signals' = [signals EXCEPT ![t] = Append(@, now)] /\ Emit(AnomalyActor, t)
       ELSE UNCHANGED <<signals, log>>
    /\ UNCHANGED <<now, lost>>

\* Mutated form: the comparison with the threshold is off by one.
RecordPastThreshold(t) ==
    LET w == CurrentWindow(t) IN
    /\ Within(failures[t], now, now) < Burst
    /\ failures' = [failures EXCEPT ![t] = Append(@, now)]
    /\ IF w.count + 1 > Threshold
       THEN /\ window' = [window EXCEPT ![t] = NoWindow]
            /\ signals' = [signals EXCEPT ![t] = Append(@, now)]
            /\ Emit(AnomalyActor, t)
       ELSE /\ window' = [window EXCEPT ![t] = [w EXCEPT !.count = w.count + 1]]
            /\ UNCHANGED <<signals, log>>
    /\ UNCHANGED <<now, lost>>

\* A ValidateSession call that fails, under the tracker's mutex.
RecordValidationFailure(t) ==
    LET w == CurrentWindow(t) IN
    /\ Within(failures[t], now, now) < Burst
    /\ failures' = [failures EXCEPT ![t] = Append(@, now)]
    /\ IF w.count + 1 >= Threshold
       THEN /\ window' = [window EXCEPT ![t] = NoWindow]
            /\ signals' = [signals EXCEPT ![t] = Append(@, now)]
            /\ Emit(AnomalyActor, t)
       ELSE /\ window' = [window EXCEPT ![t] = [w EXCEPT !.count = w.count + 1]]
            /\ UNCHANGED <<signals, log>>
    /\ UNCHANGED <<now, lost>>

Next == Tick \/ Restart \/ \E t \in Tokens : RecordValidationFailure(t)

Spec == Init /\ [][Next]_vars

--------------------------------------------------------------------------------
(* Properties.                                                              *)

FailuresIn(t, i, j) == Within(failures[t], i, j)
SignalsIn(t, i, j) == Within(signals[t], i, j)

\* A signal is never given for less: the failures from a window before some
\* tick on number at least Threshold for every signal from that tick on.
SignalMeansBurst ==
    \A t \in Tokens : \A i \in Time : \A j \in i..Horizon :
        FailuresIn(t, IF i < Window THEN 0 ELSE i - Window, j) >= Threshold * SignalsIn(t, i, j)

\* A burst cannot hide on the seam of two windows for ever: 2 * Threshold - 1
\* failures within a window's length, in one process, are signalled.
BurstSignalled ==
    \A t \in Tokens : \A i \in 0..now :
        LET j == IF i + Window < now THEN i + Window ELSE now IN
        FailuresIn(t, i, j) >= 2 * Threshold - 1 /\ lost \cap (i..j) = {}
            => SignalsIn(t, i, j) > 0

\* "Repeated failures for the same token within a short window ARE audited"
\* (service.go, ValidateSession).  The code does not give this: Emit refuses
\* the empty actor of the anomaly event.
AnomalyAudited == \A t \in Tokens : signals[t] # <<>> => t \in log
================================================================================
