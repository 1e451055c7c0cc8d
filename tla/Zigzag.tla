------------------------------- MODULE Zigzag -------------------------------
(***************************************************************************)
(* The software tuning loop of a frontend (dvb-core/dvb_frontend.c:        *)
(* dvb_frontend_swzigzag and dvb_frontend_swzigzag_autotune) together with *)
(* the ioctls that change what it works on.  The loop and the ioctls run   *)
(* under fepriv->sem, so each is one step here; Frontend models the        *)
(* semaphore and the thread.  When an iteration runs (delay, quality) is   *)
(* left open: the thread may wake up at any time.                          *)
(*                                                                         *)
(* fepriv->state is a bit mask: state is the set of its bits, and the      *)
(* masks of the code are sets too.                                         *)
(***************************************************************************)
EXTENDS Integers, FiniteSets, FiniteSetsExt

CONSTANTS
  Freqs,         \* frequencies a user asks for
  ValidFreqs,    \* those dvb_frontend_check_parameters accepts
  Settings,      \* <<step_size, max_drift>>: what get_tune_settings may give
  AutoInversion, \* the hardware does INVERSION_AUTO (FE_CAN_INVERSION_AUTO)
  CanRecover,    \* FE_CAN_RECOVER
  Reports,       \* what the driver's get_frontend writes into the cache: the
                 \* "frequency" (s5h1411), the "inversion" (tda10048), nothing
  WRAP,          \* auto_step is an unsigned of this many values
  MaxErrors,     \* bound: set_frontend failures after one retune
  MaxCalls       \* bound: ioctls, opens and resumes

ASSUME ZigzagAssumption ==
  /\ ValidFreqs \subseteq Nat \ {0} /\ Freqs \subseteq Nat \ {0}
  /\ Settings \subseteq Nat \X Nat
  /\ AutoInversion \in BOOLEAN /\ CanRecover \in BOOLEAN
  /\ Reports \subseteq {"frequency", "inversion"}
  /\ WRAP \in Nat \ {0} /\ MaxErrors \in Nat /\ MaxCalls \in Nat

(* max_drift is an int and auto_step an unsigned int: the steps pass        *)
(* max_drift before they wrap.                                             *)
ASSUME StepsAssumption ==
  \A s \in Settings : s[1] = 0 \/ s[2] < s[1] * (WRAP - 1)

VARIABLES
  state, oneshot,          \* fepriv->state, FE_TUNE_MODE_ONESHOT
  cache,                   \* dtv_property_cache: frequency, inversion
  step_size, max_drift,
  lnb_drift, inversion, auto_step, auto_sub_step, started_auto_step,
  check_wrapped,
  hw,                      \* what the last set_frontend told the hardware
  request,                 \* history: the frequency last accepted, NONE once
                           \* something came between it and the hardware
  tried,                   \* history: <<drift, inversion>> set for it
  setby,                   \* history: who has set the hardware since the
                           \* retune: "nobody", "loop" or "scan" mode; "idle":
                           \* no retune was asked for
  overwritten,             \* history: which of frequency and inversion a
                           \* get_frontend has changed in the cache since
  errors,                  \* history: set_frontend failures since the retune
  calls                    \* history: calls so far

zig == <<lnb_drift, inversion, auto_step, auto_sub_step, started_auto_step,
         check_wrapped>>
settings == <<step_size, max_drift>>
vars == <<state, oneshot, cache, step_size, max_drift, lnb_drift, inversion,
          auto_step, auto_sub_step, started_auto_step, check_wrapped, hw,
          request, tried, setby, overwritten, errors, calls>>

States == {"IDLE", "RETUNE", "TUNING_FAST", "TUNING_SLOW", "TUNED",
           "ZIGZAG_FAST", "ZIGZAG_SLOW", "DISEQC", "ERROR"}
WAITFORLOCK == {"TUNING_FAST", "TUNING_SLOW", "ZIGZAG_FAST", "ZIGZAG_SLOW",
                "DISEQC"}
SEARCHING_FAST == {"TUNING_FAST", "ZIGZAG_FAST"}
SEARCHING_SLOW == {"TUNING_SLOW", "ZIGZAG_SLOW"}
LOSTLOCK == {"ZIGZAG_FAST", "ZIGZAG_SLOW"}

(* fepriv->state & mask *)
In(st, mask) == st \cap mask # {}

Flip(i) == IF i = "OFF" THEN "ON" ELSE "OFF"

Parameters == [frequency : Int, inversion : {"OFF", "ON", "AUTO"}]

NONE == 0

(* history: something comes between the request and the hardware *)
Spoil == request' = NONE /\ tried' = {}

(* history: a request tuned in scan mode stays that *)
SetBy(who) == IF setby = "scan" THEN "scan" ELSE who

(* the software has to find the inversion *)
autoinversion == ~AutoInversion /\ cache.inversion = "AUTO"

-----------------------------------------------------------------------------
(* dvb_frontend_swzigzag_autotune, the loop that sets up the next attempt. *)
(* At a drift there are up to four attempts, the sub steps:                *)
(* both inversions at +drift, then both at -drift.                         *)
Usable(step, sub) ==
  \/ sub = 0
  \/ sub = 1 /\ autoinversion
  \/ sub = 2 /\ step * step_size # 0
  \/ sub = 3 /\ step * step_size # 0 /\ autoinversion

(* wrap the step when it has exceeded the maximum drift *)
Wrapped(p) == IF p[1] * step_size > max_drift THEN <<0, 0>> ELSE p

(* the attempt <<step, sub step>> that is made when the loop stands at p *)
(* mutant: the negative drift is forgotten when there is no inversion to try *)
NextAttemptPositive(p) ==
  LET q == Wrapped(p)
      subs == {s \in q[2]..3 : Usable(q[1], s) /\ (s = 2 => autoinversion)}
  IN IF subs # {} THEN <<q[1], Min(subs)>>
     ELSE Wrapped(<<(q[1] + 1) % WRAP, 0>>)

(* mutants: the sub step is not reset, or reset to 1, when the step is raised *)
NextAttemptKeepsSub(p) ==
  LET q == Wrapped(p)
      subs == {s \in q[2]..3 : Usable(q[1], s)}
  IN IF subs # {} THEN <<q[1], Min(subs)>>
     ELSE Wrapped(<<(q[1] + 1) % WRAP, q[2]>>)

NextAttemptFromOne(p) ==
  LET q == Wrapped(p)
      subs == {s \in q[2]..3 : Usable(q[1], s)}
  IN IF subs # {} THEN <<q[1], Min(subs)>>
     ELSE Wrapped(<<(q[1] + 1) % WRAP, 1>>)

NextAttempt(p) ==
  LET q == Wrapped(p)
      subs == {s \in q[2]..3 : Usable(q[1], s)}
  IN IF subs # {} THEN <<q[1], Min(subs)>>
     ELSE Wrapped(<<(q[1] + 1) % WRAP, 0>>)

Drift(a) == IF a[2] \in {2, 3} THEN -(a[1] * step_size) ELSE a[1] * step_size

Inversion(a, inv) == IF a[2] \in {1, 3} THEN Flip(inv) ELSE inv

(* the end of autotune: the cache is set to the attempt around the call of *)
(* set_frontend and put back, unless that call fails.  Its callers give    *)
(* the attempt a made and the state after a success.                       *)
(* mutant: the cache keeps the drift of every attempt *)
AutotuneKeepsDrift(a, ok, next) ==
  LET c == [frequency |-> cache.frequency + Drift(a),
            inversion |-> IF autoinversion THEN Inversion(a, inversion)
                          ELSE cache.inversion]
  IN /\ auto_step' = a[1]
     /\ lnb_drift' = Drift(a)
     /\ inversion' = Inversion(a, inversion)
     /\ tried' = IF request = NONE THEN {}
                 ELSE tried \cup {<<Drift(a), c.inversion>>}
     /\ ok
     /\ hw' = c /\ cache' = [c EXCEPT !.inversion = cache.inversion]
     /\ state' = next
     /\ auto_sub_step' = a[2] + 1
     /\ setby' = SetBy("loop") /\ UNCHANGED <<errors, request, overwritten>>

Autotune(a, ok, next) ==
  LET c == [frequency |-> cache.frequency + Drift(a),
            inversion |-> IF autoinversion THEN Inversion(a, inversion)
                          ELSE cache.inversion]
  IN /\ auto_step' = a[1]
     /\ lnb_drift' = Drift(a)
     /\ inversion' = Inversion(a, inversion)
     /\ tried' = IF request = NONE \/ ~ok THEN {}
                 ELSE tried \cup {<<Drift(a), c.inversion>>}
     /\ \/ /\ ok
           /\ hw' = c /\ UNCHANGED cache
           /\ state' = next
           /\ auto_sub_step' = a[2] + 1
           /\ setby' = SetBy("loop") /\ UNCHANGED <<errors, request>>
        \/ /\ ~ok /\ errors < MaxErrors
           /\ cache' = c
           /\ state' = {"ERROR"}
           /\ auto_sub_step' = a[2]
           /\ errors' = errors + 1 /\ request' = NONE
           /\ UNCHANGED <<hw, setby>>
     /\ UNCHANGED overwritten

-----------------------------------------------------------------------------
(* dtv_get_frontend: the driver writes what it reports over the cache, from *)
(* which the loop tunes: the frequency it was last set to, the inversion   *)
(* that a register of the demodulator shows.                               *)
ReadBack ==
  {[frequency |-> IF "frequency" \in Reports THEN hw.frequency ELSE cache.frequency,
    inversion |-> i] :
      i \in IF "inversion" \in Reports THEN {"OFF", "ON"} ELSE {cache.inversion}}

(* history: the driver has put c into the cache *)
Overwrites(c) ==
  overwritten' = overwritten \cup {x \in {"frequency", "inversion"} : c[x] # cache[x]}

-----------------------------------------------------------------------------
(* dvb_frontend_swzigzag, one iteration, by its returns.                   *)

(* nothing to work on, or SCAN mode and no new request *)
Idles ==
  /\ In(state, {"IDLE"}) \/ (oneshot /\ ~In(state, {"RETUNE"}))
  /\ UNCHANGED vars

(* in SCAN mode the frontend is set when asked and left alone *)
TuneOnce(ok) ==
  /\ ~In(state, {"IDLE"}) /\ oneshot /\ In(state, {"RETUNE"})
  /\ \/ ok /\ state' = {"TUNED"} /\ hw' = cache /\ setby' = SetBy("scan")
        /\ UNCHANGED <<request, tried, errors>>
     \/ ~ok /\ errors < MaxErrors /\ errors' = errors + 1
        /\ state' = {"ERROR"} /\ Spoil /\ UNCHANGED <<hw, setby>>
  /\ UNCHANGED <<oneshot, cache, settings, zig, overwritten>>

Normal == ~In(state, {"IDLE"}) /\ ~oneshot

(* the inversion that led to a lock is the right one *)
Found(c) ==
  IF ~AutoInversion /\ c.inversion = "AUTO" THEN [c EXCEPT !.inversion = inversion]
  ELSE c

(* the hardware reports a lock that was waited for; if that is a change of  *)
(* the status, add_event reads the parameters back first                   *)
Locks ==
  /\ Normal /\ In(state, WAITFORLOCK)
  /\ state' = {"TUNED"}
  /\ \E c \in {cache} \cup ReadBack : cache' = Found(c) /\ Overwrites(c)
  /\ UNCHANGED <<oneshot, settings, zig, hw, request, tried, setby, errors>>

(* the status of a tuned frontend, or of one in an error, changes and has a *)
(* lock: nothing is done about it but the event, which reads back          *)
StillLocked ==
  /\ Normal /\ In(state, {"TUNED", "ERROR"})
  /\ \E c \in ReadBack : cache' = c /\ Overwrites(c)
  /\ UNCHANGED <<state, oneshot, settings, zig, hw, request, tried, setby, errors>>

(* no lock: what is done about it.  lost: a tuned frontend has just lost it *)
Search(ok) ==
  LET lost == In(state, {"TUNED"})
      retune == In(state, {"RETUNE"})
      st == IF lost THEN {"ZIGZAG_FAST"} ELSE state
      p == IF retune THEN <<0, 0>> ELSE <<auto_step, auto_sub_step>>
      a == NextAttempt(p)
      started == IF retune THEN 0 ELSE IF lost THEN auto_step
                 ELSE started_auto_step
      wrapped == check_wrapped /\ ~retune /\ ~lost
      quiet == \/ In(st, LOSTLOCK) /\ CanRecover /\ max_drift = 0
               \/ In(st, {"DISEQC", "ERROR"})
      fast == In(st, SEARCHING_FAST \cup {"RETUNE"})
      complete == fast /\ wrapped /\ a = <<started, 0>>
  IN /\ Normal
     /\ \/ /\ quiet /\ state' = st
           /\ started_auto_step' = started /\ check_wrapped' = wrapped
           /\ UNCHANGED <<cache, hw, lnb_drift, inversion, auto_step,
                          auto_sub_step, request, tried, setby, errors>>
        \/ /\ ~quiet /\ complete     \* out of trials at the fast speed
           /\ state' = SEARCHING_SLOW
           /\ auto_step' = a[1] /\ auto_sub_step' = a[2] /\ lnb_drift' = Drift(a)
           /\ started_auto_step' = a[1] /\ check_wrapped' = wrapped
           /\ UNCHANGED <<cache, hw, inversion, request, tried, setby, errors>>
        \/ /\ ~quiet /\ ~complete
           /\ Autotune(a, ok, IF retune THEN {"TUNING_FAST"} ELSE st)
           /\ started_auto_step' = started
           /\ check_wrapped' = IF fast /\ state' # {"ERROR"} THEN TRUE
                               ELSE wrapped
     /\ UNCHANGED <<oneshot, settings, overwritten>>

(* a tuned frontend that still has its lock is otherwise left alone, and so *)
(* is one in an error that has a lock: UNCHANGED                           *)
Iterate ==
  \/ Idles
  \/ Locks
  \/ StillLocked
  \/ \E ok \in BOOLEAN : TuneOnce(ok) \/ Search(ok)

-----------------------------------------------------------------------------
(* The ioctls. *)

(* dtv_set_frontend, once the parameters c are in the cache *)
SetFrontend(c) ==
  /\ cache' = c
  /\ \/ /\ c.frequency \in ValidFreqs
        /\ \E s \in Settings : step_size' = s[1] /\ max_drift' = s[2]
        /\ state' = {"RETUNE"}
        /\ request' = c.frequency /\ tried' = {} /\ setby' = "nobody"
        /\ errors' = 0 /\ overwritten' = {}
     \/ /\ c.frequency \notin ValidFreqs     \* -EINVAL, the cache is changed
        /\ Spoil
        /\ UNCHANGED <<state, settings, setby, errors, overwritten>>
  /\ UNCHANGED <<oneshot, zig, hw>>

(* FE_SET_FRONTEND gives all parameters, FE_SET_PROPERTY those it names:   *)
(* DTV_TUNE alone tunes to what the cache holds                            *)
FeSetFrontend ==
  \E f \in Freqs, i \in {"OFF", "ON", "AUTO"} :
    SetFrontend([frequency |-> f, inversion |-> i])

DtvTune == SetFrontend(cache)

(* DTV_CLEAR empties the cache, DTV_FREQUENCY and DTV_INVERSION change it; *)
(* the tuning loop reads it from then on                                   *)
Cleared == [frequency |-> 0, inversion |-> "OFF"]

DtvSet ==
  /\ \/ cache' = Cleared
     \/ \E f \in Freqs : cache' = [cache EXCEPT !.frequency = f]
     \/ \E i \in {"OFF", "ON", "AUTO"} : cache' = [cache EXCEPT !.inversion = i]
  /\ Spoil
  /\ UNCHANGED <<state, oneshot, settings, zig, hw, setby, errors, overwritten>>

(* FE_GET_FRONTEND, and FE_GET_PROPERTY of a frontend that is not idle      *)
GetFrontend ==
  /\ \E c \in ReadBack : cache' = c /\ Overwrites(c)
  /\ UNCHANGED <<state, oneshot, settings, zig, hw, request, tried, setby, errors>>

(* FE_DISEQC_*, FE_SET_TONE, FE_SET_VOLTAGE, FE_DISHNETWORK_SEND_LEGACY_CMD *)
Diseqc ==
  /\ state' = {"DISEQC"}
  /\ IF In(state, {"RETUNE"}) THEN Spoil ELSE UNCHANGED <<request, tried>>
  /\ UNCHANGED <<oneshot, cache, settings, zig, hw, setby, errors, overwritten>>

(* FE_SET_FRONTEND_TUNE_MODE *)
SetTuneMode ==
  /\ oneshot' = ~oneshot
  /\ UNCHANGED <<state, cache, settings, zig, hw, request, tried, setby, errors,
                 overwritten>>

(* dvb_frontend_resume: the hardware is tuned anew to what the cache holds *)
Resume ==
  /\ state' = {"RETUNE"}
  /\ tried' = {} /\ setby' = "nobody"
  /\ UNCHANGED <<oneshot, cache, settings, zig, hw, request, errors, overwritten>>

(* an open starts the thread: dvb_frontend_start, and what the thread sets *)
Start ==
  /\ state' = {"IDLE"} /\ oneshot' = FALSE
  /\ check_wrapped' = FALSE
  /\ Spoil /\ setby' = "idle" /\ errors' = 0
  /\ UNCHANGED <<cache, settings, lnb_drift, inversion, auto_step,
                 auto_sub_step, started_auto_step, hw, overwritten>>

-----------------------------------------------------------------------------
(* dvb_register_frontend: kzalloc, then the first open *)
Init ==
  /\ state = {"IDLE"} /\ oneshot = FALSE
  /\ cache = Cleared
  /\ step_size = 0 /\ max_drift = 0
  /\ lnb_drift = 0 /\ inversion = "OFF"
  /\ auto_step = 0 /\ auto_sub_step = 0 /\ started_auto_step = 0
  /\ check_wrapped = FALSE
  /\ hw = cache
  /\ request = NONE /\ tried = {} /\ setby = "idle" /\ overwritten = {}
  /\ errors = 0 /\ calls = 0

Call ==
  /\ calls < MaxCalls /\ calls' = calls + 1
  /\ \/ FeSetFrontend \/ DtvTune \/ DtvSet \/ GetFrontend \/ Diseqc
     \/ SetTuneMode \/ Resume \/ Start

Next == Call \/ (Iterate /\ UNCHANGED calls)

(* the thread goes on iterating, see the fairness of Frontend *)
Spec == Init /\ [][Next]_vars /\ WF_vars(Iterate /\ UNCHANGED calls)

-----------------------------------------------------------------------------
(* The state the code can be in. *)
TypeOK ==
  /\ state \in {{b} : b \in States} \cup {SEARCHING_SLOW}
  /\ oneshot \in BOOLEAN
  /\ cache \in Parameters /\ hw \in Parameters
  /\ request \in ValidFreqs \cup {NONE}
  /\ step_size \in Nat /\ max_drift \in Nat
  /\ lnb_drift \in Int /\ inversion \in {"OFF", "ON"}
  /\ auto_step \in 0..(WRAP - 1) /\ auto_sub_step \in 0..4
  /\ started_auto_step \in 0..(WRAP - 1) /\ check_wrapped \in BOOLEAN
  /\ tried \subseteq Int \X {"OFF", "ON", "AUTO"}
  /\ setby \in {"idle", "nobody", "loop", "scan"} /\ errors \in 0..MaxErrors
  /\ overwritten \subseteq {"frequency", "inversion"}
  /\ calls \in 0..MaxCalls

(* every drift and every inversion the parameters allow *)
Combinations ==
  {d \in -max_drift..max_drift : IF step_size = 0 THEN d = 0 ELSE d % step_size = 0}
    \X IF autoinversion THEN {"OFF", "ON"} ELSE {cache.inversion}

(* dvb_frontend_swzigzag: the search drops back to the slow speed only     *)
(* when it has run out of trials: since the request was accepted every     *)
(* combination of drift and inversion has been set.  (A frontend tuned in  *)
(* SCAN mode that goes back to the loop has the step counters of an older  *)
(* request, and the search that follows may be cut short; and when a       *)
(* get_frontend has changed the cache the search goes on around other      *)
(* parameters than those it began with.)                                   *)
SlowMeansAllTried ==
  request # NONE /\ overwritten = {} /\ setby = "loop" /\ state = SEARCHING_SLOW
    => Combinations \subseteq tried

(* A frontend the loop holds to be tuned has been set since the last       *)
(* accepted request; to its frequency, give or take the drift, unless a    *)
(* get_frontend of a driver that reports the frequency has put another one *)
(* into the cache (FE_GET_FRONTEND before the loop has set the new         *)
(* frequency brings back the old one, and the loop tunes to that); and     *)
(* with the inversion the cache shows, unless the driver reports another.  *)
(* Nothing is said once the request was spoiled: by a failing set_frontend,*)
(* which leaves the attempt in the cache, by DTV_* properties set or a     *)
(* request refused without a retune, by a DISEQC command before the first  *)
(* tune, by an open.                                                       *)
TunedIsRequested ==
  request # NONE /\ state = {"TUNED"} =>
    /\ setby # "nobody"
    /\ "frequency" \notin overwritten =>
         hw.frequency - request \in -max_drift..max_drift
    /\ "inversion" \notin overwritten => hw.inversion \in {cache.inversion, "AUTO"}

(* When calls leave the loop alone, as they do in the end, a fast search   *)
(* ends: in a lock, in an error or at the slow speed.  (In SCAN mode the   *)
(* loop stands still; after it, and after a DISEQC command that came       *)
(* before the first tune, a search may start from a step it never meets    *)
(* again.  Hardware that recovers by itself is waited for.  Without        *)
(* FE_CAN_RECOVER and with a step of 0 the wrap of auto_step ends it, after *)
(* 2^32 attempts in the code.)                                             *)
FastEnds ==
  []<>(\/ oneshot \/ setby = "scan" \/ request = NONE
       \/ CanRecover /\ max_drift = 0
       \/ ~In(state, SEARCHING_FAST))

=============================================================================
