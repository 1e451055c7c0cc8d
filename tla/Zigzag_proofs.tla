---------------------------- MODULE Zigzag_proofs ----------------------------
(***************************************************************************)
(* Proofs about the software tuning loop, for every set of frequencies,    *)
(* every step size and drift, and any number of calls: a frontend held to  *)
(* be tuned is tuned to the last accepted request, and the loop drops to   *)
(* the slow speed only after it has set every drift with every inversion,  *)
(* as long as nothing but the loop changes the cache.                      *)
(***************************************************************************)
EXTENDS Zigzag, ModLemmas

-----------------------------------------------------------------------------
(* The attempts. *)

\* Where the loop may stand.
Points == (0..(WRAP - 1)) \X (0..4)
Attempts == (0..(WRAP - 1)) \X (0..3)

\* fepriv's step and drift are never negative.
Sizes == step_size \in Nat /\ max_drift \in Nat

\* A product of naturals is one.
LEMMA ProductNat ==
  ASSUME NEW a \in Nat, NEW b \in Nat
  PROVE  a * b \in Nat
  OBVIOUS

\* Wrapped keeps the step within the drift.
LEMMA WrappedIs ==
  ASSUME Sizes, NEW p \in Points
  PROVE  /\ Wrapped(p) \in Points /\ Wrapped(p)[1] \in Nat
         /\ Wrapped(p)[1] * step_size <= max_drift
         /\ Wrapped(p) = p \/ (Wrapped(p) = <<0, 0>> /\ p[1] * step_size > max_drift)
<1>0. WRAP \in Nat \ {0} /\ step_size \in Nat /\ max_drift \in Nat
  BY ZigzagAssumption DEF Sizes
<1>1. <<0, 0>> \in Points /\ 0 * step_size = 0
  BY <1>0 DEF Points
<1>2. p[1] \in Nat
  BY <1>0 DEF Points
<1>3. p[1] * step_size \in Nat
  BY <1>0, <1>2
<1>4. CASE p[1] * step_size > max_drift
  <2>1. Wrapped(p) = <<0, 0>>
    BY <1>4 DEF Wrapped
  <2>2. QED
    BY <1>0, <1>1, <1>4, <2>1
<1>5. CASE ~(p[1] * step_size > max_drift)
  <2>1. Wrapped(p) = p
    BY <1>5 DEF Wrapped
  <2>2. QED
    BY <1>0, <1>2, <1>3, <1>5, <2>1
<1>6. QED
  BY <1>4, <1>5

\* The usable sub steps from k on.
Subs(step, k) == {s \in k..3 : Usable(step, s)}

\* The least of some sub steps.
LEMMA MinIs ==
  ASSUME NEW T, T \subseteq 0..3, T # {}
  PROVE  Min(T) \in T /\ \A y \in T : Min(T) <= y
<1>1. T \subseteq Nat
  OBVIOUS
<1>2. \E x \in T : \A y \in T : x <= y
  BY <1>1, LeastElement
<1>3. QED
  BY <1>2 DEF Min

\* The attempt made from p: the next usable sub step of the step, or the
\* next step if there is none.
LEMMA AttemptIs ==
  ASSUME Sizes, NEW p \in Points
  PROVE  LET q == Wrapped(p)
             a == NextAttempt(p)
             n == <<(q[1] + 1) % WRAP, 0>>
         IN /\ a \in Attempts /\ a[1] * step_size <= max_drift
            /\ \/ a[1] = q[1] /\ a[2] \in Subs(q[1], q[2])
                  /\ \A s \in Subs(q[1], q[2]) : a[2] <= s
               \/ Subs(q[1], q[2]) = {} /\ n \in Points /\ a = Wrapped(n)
<1> DEFINE q == Wrapped(p)
           a == NextAttempt(p)
           n == <<(q[1] + 1) % WRAP, 0>>
           T == Subs(q[1], q[2])
<1>0. WRAP \in Nat \ {0} /\ step_size \in Nat /\ max_drift \in Nat
  BY ZigzagAssumption DEF Sizes
<1>1. q \in Points /\ q[1] * step_size <= max_drift
  BY WrappedIs
<1>2. q[1] \in 0..(WRAP - 1) /\ q[2] \in 0..4
  BY <1>1 DEF Points
<1>3. T \subseteq 0..3
  BY <1>2 DEF Subs
<1>4. a = IF T # {} THEN <<q[1], Min(T)>> ELSE Wrapped(n)
  BY DEF NextAttempt, Subs
<1> SUFFICES /\ a \in Attempts /\ a[1] * step_size <= max_drift
             /\ \/ a[1] = q[1] /\ a[2] \in T /\ \A s \in T : a[2] <= s
                \/ T = {} /\ n \in Points /\ a = Wrapped(n)
  OBVIOUS
<1> HIDE DEF a, T
<1>5. CASE T # {}
  <2> HIDE DEF q
  <2>1. a = <<q[1], Min(T)>> /\ Min(T) \in T /\ \A y \in T : Min(T) <= y
    BY <1>3, <1>4, <1>5, MinIs
  <2>2. a[1] = q[1] /\ a[2] = Min(T)
    BY <2>1
  <2>3. a \in Attempts
    BY <1>2, <1>3, <2>1 DEF Attempts
  <2>4. QED
    BY <1>1, <2>1, <2>2, <2>3
<1>6. CASE T = {}
  <2>1. (q[1] + 1) % WRAP \in 0..(WRAP - 1)
    <3>1. q[1] + 1 \in Int
      BY <1>0, <1>2
    <3> HIDE DEF q
    <3>2. QED
      BY <1>0, <3>1, ModInRange
  <2>2. n \in Points /\ n[2] = 0
    BY <2>1 DEF Points
  <2> HIDE DEF n, q
  <2>3. a = Wrapped(n)
    BY <1>4, <1>6
  <2>4. a \in Points /\ a[1] * step_size <= max_drift /\ (a = n \/ a = <<0, 0>>)
    BY <2>2, <2>3, WrappedIs
  <2>5. a[2] = 0
    BY <2>2, <2>4
  <2>6. a \in Attempts
    BY <2>4, <2>5 DEF Points, Attempts
  <2>7. QED
    BY <1>6, <2>2, <2>3, <2>4, <2>6
<1>7. QED
  BY <1>5, <1>6

\* No attempt is further from the request than max_drift.
LEMMA DriftIs ==
  ASSUME Sizes, NEW a \in Attempts, a[1] * step_size <= max_drift
  PROVE  Drift(a) \in Int /\ Drift(a) \in -max_drift..max_drift
<1>1. a[1] \in Nat /\ step_size \in Nat /\ max_drift \in Nat
  BY ZigzagAssumption DEF Attempts, Sizes
<1> DEFINE d == a[1] * step_size
<1>2. d \in Nat /\ d <= max_drift
  BY <1>1
<1>3. Drift(a) = -d \/ Drift(a) = d
  BY DEF Drift
<1> HIDE DEF d
<1>4. QED
  BY <1>1, <1>2, <1>3

-----------------------------------------------------------------------------
(* One iteration of the loop, by its outcomes. *)

\* What Search computes first: its local definitions by name.
Masks == {{b} : b \in States} \cup {SEARCHING_SLOW}

Lost    == In(state, {"TUNED"})
Retune  == In(state, {"RETUNE"})
St      == IF Lost THEN {"ZIGZAG_FAST"} ELSE state
Point   == IF Retune THEN <<0, 0>> ELSE <<auto_step, auto_sub_step>>
Attempt == NextAttempt(Point)
Started == IF Retune THEN 0 ELSE IF Lost THEN auto_step ELSE started_auto_step

\* The state is one bit, or the two of the slow search.
LEMMA BitIs ==
  ASSUME state \in Masks
  PROVE  (Retune <=> state = {"RETUNE"}) /\ (Lost <=> state = {"TUNED"}) /\ St \in Masks
<1>1. Retune <=> state = {"RETUNE"}
  BY DEF Masks, Retune, In, States, SEARCHING_SLOW
<1>2. Lost <=> state = {"TUNED"}
  BY DEF Masks, Lost, In, States, SEARCHING_SLOW
<1>3. {"ZIGZAG_FAST"} \in Masks
  BY DEF Masks, States
<1>4. QED
  BY <1>1, <1>2, <1>3 DEF St

\* Nothing is set: the hardware may recover, or there is nothing to do.
Waits ==
  /\ ~Retune /\ state' = St
  /\ started_auto_step' = Started /\ check_wrapped' \in BOOLEAN
  /\ UNCHANGED <<cache, hw, lnb_drift, inversion, auto_step, auto_sub_step, request, tried,
                 setby, errors>>

\* The trials at the fast speed are over.
Slows ==
  /\ ~Retune /\ Attempt = <<Started, 0>> /\ state' = SEARCHING_SLOW
  /\ auto_step' = Attempt[1] /\ auto_sub_step' = Attempt[2] /\ lnb_drift' = Drift(Attempt)
  /\ started_auto_step' = Attempt[1] /\ check_wrapped' \in BOOLEAN
  /\ UNCHANGED <<cache, hw, inversion, request, tried, setby, errors>>

\* The hardware is set.
NewInversion == IF autoinversion THEN Inversion(Attempt, inversion) ELSE cache.inversion
Sets ==
  /\ state' = IF Retune THEN {"TUNING_FAST"} ELSE St
  /\ auto_step' = Attempt[1] /\ auto_sub_step' = Attempt[2] + 1 /\ lnb_drift' = Drift(Attempt)
  /\ inversion' = Inversion(Attempt, inversion)
  /\ hw' = [frequency |-> cache.frequency + Drift(Attempt), inversion |-> NewInversion]
  /\ tried' = IF request = NONE THEN {} ELSE tried \cup {<<Drift(Attempt), NewInversion>>}
  /\ started_auto_step' = Started /\ check_wrapped' \in BOOLEAN
  /\ setby' = SetBy("loop")
  /\ UNCHANGED <<cache, request, errors>>

\* set_frontend fails.
Fails ==
  /\ state' = {"ERROR"}
  /\ auto_step' = Attempt[1] /\ auto_sub_step' = Attempt[2] /\ lnb_drift' = Drift(Attempt)
  /\ inversion' = Inversion(Attempt, inversion)
  /\ cache' = [frequency |-> cache.frequency + Drift(Attempt), inversion |-> NewInversion]
  /\ errors < MaxErrors /\ errors' = errors + 1
  /\ started_auto_step' = Started /\ check_wrapped' \in BOOLEAN
  /\ request' = NONE /\ tried' = {}
  /\ UNCHANGED <<hw, setby>>

\* An iteration without a lock does one of the four.
LEMMA SearchIs ==
  ASSUME NEW ok \in BOOLEAN, Search(ok), state \in Masks, check_wrapped \in BOOLEAN
  PROVE  /\ Waits \/ Slows \/ Sets \/ Fails
         /\ UNCHANGED <<oneshot, step_size, max_drift, overwritten>>
<1> DEFINE wrapped == check_wrapped /\ ~Retune /\ ~Lost
           quiet == \/ In(St, LOSTLOCK) /\ CanRecover /\ max_drift = 0
                    \/ In(St, {"DISEQC", "ERROR"})
           fast == In(St, SEARCHING_FAST \cup {"RETUNE"})
           complete == fast /\ wrapped /\ Attempt = <<Started, 0>>
<1>1. /\ \/ /\ quiet /\ state' = St
            /\ started_auto_step' = Started /\ check_wrapped' = wrapped
            /\ UNCHANGED <<cache, hw, lnb_drift, inversion, auto_step,
                           auto_sub_step, request, tried, setby, errors>>
         \/ /\ ~quiet /\ complete
            /\ state' = SEARCHING_SLOW
            /\ auto_step' = Attempt[1] /\ auto_sub_step' = Attempt[2] /\ lnb_drift' = Drift(Attempt)
            /\ started_auto_step' = Attempt[1] /\ check_wrapped' = wrapped
            /\ UNCHANGED <<cache, hw, inversion, request, tried, setby, errors>>
         \/ /\ ~quiet /\ ~complete
            /\ Autotune(Attempt, ok, IF Retune THEN {"TUNING_FAST"} ELSE St)
            /\ started_auto_step' = Started
            /\ check_wrapped' = IF fast /\ state' # {"ERROR"} THEN TRUE ELSE wrapped
      /\ UNCHANGED <<oneshot, step_size, max_drift, overwritten>>
  BY DEF Search, Lost, Retune, St, Point, Attempt, Started, settings
<1>2. wrapped \in BOOLEAN
  BY DEF Retune, Lost, In
<1>3. quiet => ~Retune
  <2>1. Retune => St = {"RETUNE"}
    BY BitIs DEF St
  <2>2. ~In({"RETUNE"}, LOSTLOCK) /\ ~In({"RETUNE"}, {"DISEQC", "ERROR"})
    BY DEF In, LOSTLOCK
  <2>3. QED
    BY <2>1, <2>2
<1>4. complete => ~Retune /\ Attempt = <<Started, 0>>
  OBVIOUS
<1> HIDE DEF wrapped, quiet, fast, complete
<1>5. CASE quiet
  BY <1>1, <1>2, <1>3, <1>5 DEF Waits
<1>6. CASE ~quiet /\ complete
  BY <1>1, <1>2, <1>4, <1>6 DEF Slows
<1>7. CASE ~quiet /\ ~complete
  <2>0. /\ Autotune(Attempt, ok, IF Retune THEN {"TUNING_FAST"} ELSE St)
        /\ started_auto_step' = Started
        /\ check_wrapped' \in BOOLEAN
        /\ UNCHANGED <<oneshot, step_size, max_drift, overwritten>>
    BY <1>1, <1>2, <1>7
  <2>1. CASE ok
    <3>1. Sets
      BY <2>0, <2>1 DEF Autotune, Sets, NewInversion
    <3>2. QED
      BY <2>0, <3>1
  <2>2. CASE ~ok
    <3>1. Fails
      BY <2>0, <2>2 DEF Autotune, Fails, NewInversion
    <3>2. QED
      BY <2>0, <3>1
  <2>3. QED
    BY <2>1, <2>2
<1>8. QED
  BY <1>5, <1>6, <1>7

-----------------------------------------------------------------------------
(* Types. *)

\* The attempt is one within the drift.
LEMMA PointIs ==
  ASSUME TypeOK
  PROVE  /\ Sizes /\ state \in Masks
         /\ Point \in Points /\ Started \in 0..(WRAP - 1)
         /\ Attempt \in Attempts /\ Attempt[1] * step_size <= max_drift
         /\ Attempt[1] \in 0..(WRAP - 1) /\ Attempt[2] \in 0..3
         /\ Drift(Attempt) \in Int /\ Drift(Attempt) \in -max_drift..max_drift
<1>0. WRAP \in Nat \ {0} /\ Sizes /\ state \in Masks
  BY ZigzagAssumption DEF TypeOK, Sizes, Masks
<1>1. /\ auto_step \in 0..(WRAP - 1) /\ auto_sub_step \in 0..4
      /\ started_auto_step \in 0..(WRAP - 1)
  BY DEF TypeOK
<1>2. 0 \in 0..(WRAP - 1) /\ 0 \in 0..4
  BY <1>0
<1>3. Point \in Points /\ Started \in 0..(WRAP - 1)
  BY <1>1, <1>2 DEF Point, Points, Started
<1>4. Attempt \in Attempts /\ Attempt[1] * step_size <= max_drift
  BY <1>0, <1>3, AttemptIs DEF Attempt
<1>5. Attempt[1] \in 0..(WRAP - 1) /\ Attempt[2] \in 0..3
  BY <1>4 DEF Attempts
<1>6. QED
  BY <1>0, <1>3, <1>4, <1>5, DriftIs

\* What a user may ask for.
Inversions == {"OFF", "ON", "AUTO"}

\* The parameters of an attempt.
LEMMA NewIs ==
  ASSUME TypeOK
  PROVE  /\ Inversion(Attempt, inversion) \in {"OFF", "ON"}
         /\ NewInversion \in Inversions
         /\ cache.frequency \in Int /\ cache.inversion \in Inversions
         /\ cache.frequency + Drift(Attempt) \in Int
         /\ [frequency |-> cache.frequency + Drift(Attempt), inversion |-> NewInversion]
              \in Parameters
<1>1. cache.frequency \in Int /\ cache.inversion \in Inversions /\ inversion \in {"OFF", "ON"}
  BY DEF TypeOK, Parameters, Inversions
<1>2. Inversion(Attempt, inversion) \in {"OFF", "ON"}
  BY <1>1 DEF Inversion, Flip
<1>3. NewInversion \in Inversions
  BY <1>1, <1>2 DEF NewInversion, Inversions
<1>4. cache.frequency + Drift(Attempt) \in Int
  <2>1. Drift(Attempt) \in Int
    BY PointIs
  <2>2. QED
    BY <1>1, <2>1
<1>5. QED
  BY <1>1, <1>2, <1>3, <1>4 DEF Parameters, Inversions

\* An iteration keeps the types.
LEMMA SearchTypes ==
  ASSUME TypeOK, NEW ok \in BOOLEAN, Search(ok), calls' = calls
  PROVE  TypeOK'
<1>0. (Waits \/ Slows \/ Sets \/ Fails) /\ UNCHANGED <<oneshot, step_size, max_drift, overwritten>>
  BY PointIs, SearchIs DEF TypeOK
<1>1. St \in Masks /\ {"TUNING_FAST"} \in Masks /\ {"ERROR"} \in Masks /\ SEARCHING_SLOW \in Masks
  BY PointIs, BitIs DEF Masks, States
<1>2. CASE Waits
  <2>1. state' \in Masks /\ started_auto_step' \in 0..(WRAP - 1)
    BY <1>1, <1>2, PointIs DEF Waits
  <2>2. QED
    BY <1>0, <1>2, <2>1 DEF TypeOK, Waits, Masks
<1>3. CASE Slows
  <2>1. state' \in Masks /\ started_auto_step' \in 0..(WRAP - 1) /\ auto_step' \in 0..(WRAP - 1)
        /\ lnb_drift' \in Int
    BY <1>1, <1>3, PointIs DEF Slows
  <2>2. auto_sub_step' \in 0..4
    <3>1. Attempt[2] \in 0..3
      BY PointIs
    <3>2. QED
      BY <1>3, <3>1 DEF Slows
  <2>3. QED
    BY <1>0, <1>3, <2>1, <2>2 DEF TypeOK, Slows, Masks
<1>4. CASE Sets
  <2>1. state' \in Masks /\ started_auto_step' \in 0..(WRAP - 1) /\ auto_step' \in 0..(WRAP - 1)
        /\ lnb_drift' \in Int
    BY <1>1, <1>4, PointIs DEF Sets
  <2>2. auto_sub_step' \in 0..4
    <3>1. Attempt[2] \in 0..3
      BY PointIs
    <3>2. QED
      BY <1>4, <3>1 DEF Sets
  <2>3. hw' \in Parameters /\ inversion' \in {"OFF", "ON"}
    BY <1>4, NewIs DEF Sets
  <2>4. tried' \subseteq Int \X Inversions
    <3>1. Drift(Attempt) \in Int /\ NewInversion \in Inversions
      BY PointIs, NewIs
    <3>2. tried \subseteq Int \X Inversions
      BY DEF TypeOK, Inversions
    <3>3. QED
      BY <1>4, <3>1, <3>2 DEF Sets
  <2>5. setby' \in {"idle", "nobody", "loop", "scan"}
    BY <1>4 DEF Sets, SetBy
  <2>6. UNCHANGED <<cache, request, errors>> /\ check_wrapped' \in BOOLEAN
    BY <1>4 DEF Sets
  <2>7. QED
    BY <1>0, <2>1, <2>2, <2>3, <2>4, <2>5, <2>6 DEF TypeOK, Masks, Inversions
<1>5. CASE Fails
  <2>1. state' \in Masks /\ started_auto_step' \in 0..(WRAP - 1) /\ auto_step' \in 0..(WRAP - 1)
        /\ lnb_drift' \in Int
    BY <1>1, <1>5, PointIs DEF Fails
  <2>2. auto_sub_step' \in 0..4
    <3>1. Attempt[2] \in 0..3
      BY PointIs
    <3>2. QED
      BY <1>5, <3>1 DEF Fails
  <2>3. cache' \in Parameters /\ inversion' \in {"OFF", "ON"}
    BY <1>5, NewIs DEF Fails
  <2>4. errors' \in 0..MaxErrors
    <3>1. errors \in 0..MaxErrors /\ MaxErrors \in Nat
      BY ZigzagAssumption DEF TypeOK
    <3>2. QED
      BY <1>5, <3>1 DEF Fails
  <2>5. UNCHANGED <<hw, setby>> /\ check_wrapped' \in BOOLEAN /\ request' = NONE /\ tried' = {}
    BY <1>5 DEF Fails
  <2>6. QED
    BY <1>0, <2>1, <2>2, <2>3, <2>4, <2>5 DEF TypeOK, Masks
<1>6. QED
  BY <1>0, <1>2, <1>3, <1>4, <1>5

\* What a driver may put into the cache, and what is noted of it.
LEMMA ReadBackIs ==
  ASSUME TypeOK, NEW c \in {cache} \cup ReadBack, Overwrites(c)
  PROVE  /\ c \in Parameters /\ Found(c) \in Parameters /\ Found(c).frequency = c.frequency
         /\ Found(c).inversion = IF ~AutoInversion /\ c.inversion = "AUTO" THEN inversion
                                 ELSE c.inversion
         /\ overwritten \subseteq overwritten'
         /\ overwritten' \subseteq {"frequency", "inversion"}
         /\ "frequency" \notin overwritten' => c.frequency = cache.frequency
         /\ "inversion" \notin overwritten' => c.inversion = cache.inversion
         /\ overwritten' = {} => c = cache
<1>1. /\ cache \in Parameters /\ hw \in Parameters /\ inversion \in {"OFF", "ON"}
      /\ overwritten \subseteq {"frequency", "inversion"}
  BY DEF TypeOK
<1>2. c \in Parameters
  <2>1. CASE c = cache
    BY <1>1, <2>1
  <2>2. CASE c \in ReadBack
    <3>1. PICK i \in (IF "inversion" \in Reports THEN {"OFF", "ON"} ELSE {cache.inversion}) :
            c = [frequency |-> IF "frequency" \in Reports THEN hw.frequency ELSE cache.frequency,
                 inversion |-> i]
      BY <2>2 DEF ReadBack
    <3>2. i \in {"OFF", "ON", "AUTO"}
      BY <1>1, <3>1 DEF Parameters
    <3>3. (IF "frequency" \in Reports THEN hw.frequency ELSE cache.frequency) \in Int
      BY <1>1 DEF Parameters
    <3>4. QED
      BY <3>1, <3>2, <3>3 DEF Parameters
  <2>3. QED
    BY <2>1, <2>2
<1>3. /\ Found(c) \in Parameters /\ Found(c).frequency = c.frequency
      /\ Found(c).inversion = IF ~AutoInversion /\ c.inversion = "AUTO" THEN inversion
                              ELSE c.inversion
  BY <1>1, <1>2 DEF Found, Parameters
<1>4. overwritten' = overwritten \cup {x \in {"frequency", "inversion"} : c[x] # cache[x]}
  BY DEF Overwrites
<1>5. /\ overwritten \subseteq overwritten'
      /\ overwritten' \subseteq {"frequency", "inversion"}
      /\ "frequency" \notin overwritten' => c["frequency"] = cache["frequency"]
      /\ "inversion" \notin overwritten' => c["inversion"] = cache["inversion"]
  BY <1>1, <1>4
<1>6. /\ "frequency" \notin overwritten' => c.frequency = cache.frequency
      /\ "inversion" \notin overwritten' => c.inversion = cache.inversion
  BY <1>5
<1>7. overwritten' = {} => c = cache
  BY <1>1, <1>2, <1>6 DEF Parameters
<1>8. QED
  BY <1>2, <1>3, <1>5, <1>6, <1>7

\* Every iteration keeps the types.
LEMMA IterateTypes ==
  ASSUME TypeOK, Iterate, calls' = calls
  PROVE  TypeOK'
<1>1. CASE Idles
  BY <1>1 DEF Idles, vars, TypeOK
<1>2. CASE Locks
  <2>1. PICK c \in {cache} \cup ReadBack : cache' = Found(c) /\ Overwrites(c)
    BY <1>2 DEF Locks
  <2>2. cache' \in Parameters /\ overwritten' \subseteq {"frequency", "inversion"}
    BY <2>1, ReadBackIs
  <2>3. state' \in Masks
    BY <1>2 DEF Locks, Masks, States
  <2>4. UNCHANGED <<oneshot, step_size, max_drift, lnb_drift, inversion, auto_step, auto_sub_step,
                    started_auto_step, check_wrapped, hw, request, tried, setby, errors>>
    BY <1>2 DEF Locks, settings, zig
  <2>5. QED
    BY <2>2, <2>3, <2>4 DEF TypeOK, Masks
<1>3. ASSUME NEW ok \in BOOLEAN, TuneOnce(ok) PROVE TypeOK'
  <2>1. {"TUNED"} \in Masks /\ {"ERROR"} \in Masks
    BY DEF Masks, States
  <2>2. errors \in 0..MaxErrors /\ MaxErrors \in Nat /\ tried \subseteq Int \X Inversions
        /\ cache \in Parameters
    BY ZigzagAssumption DEF TypeOK, Inversions
  <2>3. UNCHANGED <<oneshot, cache, step_size, max_drift, lnb_drift, inversion, auto_step,
                    auto_sub_step, started_auto_step, check_wrapped, overwritten>>
    BY <1>3 DEF TuneOnce, settings, zig
  <2>4. \/ state' = {"TUNED"} /\ hw' = cache /\ setby' = SetBy("scan")
           /\ UNCHANGED <<request, tried, errors>>
        \/ errors < MaxErrors /\ errors' = errors + 1
           /\ state' = {"ERROR"} /\ request' = NONE /\ tried' = {} /\ UNCHANGED <<hw, setby>>
    BY <1>3 DEF TuneOnce, Spoil
  <2>5. CASE state' = {"TUNED"} /\ hw' = cache /\ setby' = SetBy("scan")
             /\ UNCHANGED <<request, tried, errors>>
    <3>1. setby' \in {"idle", "nobody", "loop", "scan"}
      BY <2>5 DEF SetBy
    <3>2. QED
      BY <2>1, <2>3, <2>5, <3>1 DEF TypeOK, Masks
  <2>6. CASE errors < MaxErrors /\ errors' = errors + 1
             /\ state' = {"ERROR"} /\ request' = NONE /\ tried' = {} /\ UNCHANGED <<hw, setby>>
    <3>1. errors' \in 0..MaxErrors
      BY <2>2, <2>6
    <3>2. QED
      BY <2>1, <2>3, <2>6, <3>1 DEF TypeOK, Masks
  <2>7. QED
    BY <2>4, <2>5, <2>6
<1>4. CASE StillLocked
  <2>1. cache' \in Parameters /\ overwritten' \subseteq {"frequency", "inversion"}
    BY <1>4, ReadBackIs DEF StillLocked
  <2>2. UNCHANGED <<state, oneshot, step_size, max_drift, lnb_drift, inversion, auto_step,
                    auto_sub_step, started_auto_step, check_wrapped, hw, request, tried, setby,
                    errors>>
    BY <1>4 DEF StillLocked, settings, zig
  <2>3. QED
    BY <2>1, <2>2 DEF TypeOK
<1>5. QED
  BY <1>1, <1>2, <1>3, <1>4, SearchTypes DEF Iterate

(* The ioctls, by what they do to a request. *)

\* The request is accepted.
Accepts(c) ==
  /\ c \in Parameters /\ cache' = c /\ c.frequency \in ValidFreqs
  /\ \E s \in Settings : step_size' = s[1] /\ max_drift' = s[2]
  /\ state' = {"RETUNE"}
  /\ request' = c.frequency /\ tried' = {} /\ setby' = "nobody" /\ errors' = 0
  /\ overwritten' = {}
  /\ UNCHANGED <<oneshot, lnb_drift, inversion, auto_step, auto_sub_step, started_auto_step,
                 check_wrapped, hw>>

\* The cache is changed and nothing is tuned.
Changes ==
  /\ cache' \in Parameters /\ request' = NONE /\ tried' = {}
  /\ UNCHANGED <<state, oneshot, step_size, max_drift, lnb_drift, inversion, auto_step,
                 auto_sub_step, started_auto_step, check_wrapped, hw, setby, errors, overwritten>>

\* A request is accepted, or refused after the cache has changed.
LEMMA SetFrontendIs ==
  ASSUME NEW c \in Parameters, SetFrontend(c)
  PROVE  Accepts(c) \/ Changes
<1>1. CASE c.frequency \in ValidFreqs
  BY <1>1 DEF SetFrontend, Accepts, zig
<1>2. CASE c.frequency \notin ValidFreqs
  BY <1>2 DEF SetFrontend, Changes, Spoil, zig, settings
<1>3. QED
  BY <1>1, <1>2

\* What a call does.
LEMMA CallIs ==
  ASSUME TypeOK, Call
  PROVE  \/ \E c \in Parameters : Accepts(c)
         \/ Changes \/ GetFrontend \/ Diseqc \/ SetTuneMode \/ Resume \/ Start
<1>0. cache \in Parameters /\ \A f \in Freqs : f \in Int
  BY ZigzagAssumption DEF TypeOK
<1>1. CASE FeSetFrontend
  <2>1. PICK f \in Freqs, i \in {"OFF", "ON", "AUTO"} :
          SetFrontend([frequency |-> f, inversion |-> i])
    BY <1>1 DEF FeSetFrontend
  <2> DEFINE c == [frequency |-> f, inversion |-> i]
  <2>2. c \in Parameters /\ SetFrontend(c)
    BY <1>0, <2>1 DEF Parameters
  <2> HIDE DEF c
  <2>3. QED
    BY <2>2, SetFrontendIs
<1>2. CASE DtvTune
  BY <1>0, <1>2, SetFrontendIs DEF DtvTune
<1>3. CASE DtvSet
  <2>1. cache' \in Parameters
    <3>1. CASE cache' = Cleared
      BY <3>1 DEF Cleared, Parameters
    <3>2. CASE \E f \in Freqs : cache' = [cache EXCEPT !.frequency = f]
      BY <1>0, <3>2 DEF Parameters
    <3>3. CASE \E i \in {"OFF", "ON", "AUTO"} : cache' = [cache EXCEPT !.inversion = i]
      BY <1>0, <3>3 DEF Parameters
    <3>4. QED
      BY <1>3, <3>1, <3>2, <3>3 DEF DtvSet
  <2>2. Changes
    BY <1>3, <2>1 DEF DtvSet, Changes, Spoil, zig, settings
  <2>3. QED
    BY <2>2
<1>4. QED
  BY <1>1, <1>2, <1>3 DEF Call

\* Every call keeps the types.
LEMMA CallTypes ==
  ASSUME TypeOK, Call
  PROVE  TypeOK'
<1>0. calls' \in 0..MaxCalls
  <2>1. calls \in 0..MaxCalls /\ MaxCalls \in Nat
    BY ZigzagAssumption DEF TypeOK
  <2>2. calls < MaxCalls /\ calls' = calls + 1
    BY DEF Call
  <2>3. QED
    BY <2>1, <2>2
<1>1. /\ {"RETUNE"} \in Masks /\ {"IDLE"} \in Masks /\ {"DISEQC"} \in Masks
  BY DEF Masks, States
<1>a. 0 \in 0..MaxErrors
  BY ZigzagAssumption
<1>2. ASSUME NEW c \in Parameters, Accepts(c) PROVE TypeOK'
  <2>1. step_size' \in Nat /\ max_drift' \in Nat
    BY <1>2, ZigzagAssumption DEF Accepts
  <2>2. /\ cache' \in Parameters /\ request' \in ValidFreqs /\ tried' = {} /\ setby' = "nobody"
        /\ errors' \in 0..MaxErrors /\ state' \in Masks /\ overwritten' = {}
        /\ UNCHANGED <<oneshot, lnb_drift, inversion, auto_step, auto_sub_step,
                       started_auto_step, check_wrapped, hw>>
    BY <1>1, <1>a, <1>2 DEF Accepts
  <2>3. QED
    BY <1>0, <2>1, <2>2 DEF TypeOK, Masks
<1>3. CASE Changes
  BY <1>0, <1>3 DEF Changes, TypeOK
<1>4. CASE Diseqc
  <2>1. /\ state' \in Masks
        /\ (request' = NONE /\ tried' = {}) \/ UNCHANGED <<request, tried>>
        /\ UNCHANGED <<oneshot, cache, step_size, max_drift, lnb_drift, inversion, auto_step,
                       auto_sub_step, started_auto_step, check_wrapped, hw, setby, errors,
                       overwritten>>
    BY <1>1, <1>4 DEF Diseqc, Spoil, settings, zig
  <2>2. QED
    BY <1>0, <2>1 DEF TypeOK, Masks
<1>5. CASE SetTuneMode
  BY <1>0, <1>5 DEF SetTuneMode, TypeOK, settings, zig
<1>6. CASE Resume
  <2>1. /\ state' \in Masks /\ tried' = {} /\ setby' = "nobody"
        /\ UNCHANGED <<oneshot, cache, step_size, max_drift, lnb_drift, inversion, auto_step,
                       auto_sub_step, started_auto_step, check_wrapped, hw, request, errors,
                       overwritten>>
    BY <1>1, <1>6 DEF Resume, settings, zig
  <2>2. QED
    BY <1>0, <2>1 DEF TypeOK, Masks
<1>7. CASE Start
  <2>1. /\ state' \in Masks /\ oneshot' = FALSE /\ check_wrapped' = FALSE
        /\ request' = NONE /\ tried' = {} /\ setby' = "idle" /\ errors' \in 0..MaxErrors
        /\ UNCHANGED <<cache, step_size, max_drift, lnb_drift, inversion, auto_step,
                       auto_sub_step, started_auto_step, hw, overwritten>>
    BY <1>1, <1>a, <1>7 DEF Start, Spoil, settings
  <2>2. QED
    BY <1>0, <2>1 DEF TypeOK, Masks
<1>8. CASE GetFrontend
  <2>1. cache' \in Parameters /\ overwritten' \subseteq {"frequency", "inversion"}
    BY <1>8, ReadBackIs DEF GetFrontend
  <2>2. UNCHANGED <<state, oneshot, step_size, max_drift, lnb_drift, inversion, auto_step,
                    auto_sub_step, started_auto_step, check_wrapped, hw, request, tried, setby,
                    errors>>
    BY <1>8 DEF GetFrontend, settings, zig
  <2>3. QED
    BY <1>0, <2>1, <2>2 DEF TypeOK
<1>9. QED
  BY <1>2, <1>3, <1>4, <1>5, <1>6, <1>7, <1>8, CallIs

\* The types hold when the frontend is registered.
LEMMA InitTypes == Init => TypeOK
<1> SUFFICES ASSUME Init PROVE TypeOK
  OBVIOUS
<1>1. /\ 0 \in 0..(WRAP - 1) /\ 0 \in 0..4 /\ 0 \in 0..MaxErrors /\ 0 \in 0..MaxCalls
      /\ {"IDLE"} \in Masks /\ Cleared \in Parameters
  BY ZigzagAssumption DEF Masks, States, Cleared, Parameters
<1>2. /\ state = {"IDLE"} /\ oneshot = FALSE /\ cache = Cleared /\ hw = Cleared
      /\ inversion = "OFF" /\ check_wrapped = FALSE /\ tried = {} /\ setby = "idle"
      /\ request = NONE /\ overwritten = {}
  BY Zenon DEF Init
<1>3. /\ step_size = 0 /\ max_drift = 0 /\ lnb_drift = 0 /\ auto_step = 0 /\ auto_sub_step = 0
      /\ started_auto_step = 0 /\ errors = 0 /\ calls = 0
  BY Zenon DEF Init
<1>4. /\ step_size \in Nat /\ max_drift \in Nat /\ lnb_drift \in Int
      /\ auto_step \in 0..(WRAP - 1) /\ auto_sub_step \in 0..4
      /\ started_auto_step \in 0..(WRAP - 1) /\ errors \in 0..MaxErrors /\ calls \in 0..MaxCalls
  BY <1>1, <1>3
<1>5. QED
  BY <1>1, <1>2, <1>4 DEF TypeOK, Masks

\* The bits, counters and histories of the tuning loop keep their types: the
\* state is one bit or SEARCHING_SLOW, the sub step stays within 0..4 and the
\* step below its wrap, whatever the ioctls do between two iterations.
THEOREM TypeCorrect == Spec => []TypeOK
<1>1. TypeOK /\ [Next]_vars => TypeOK'
  <2> SUFFICES ASSUME TypeOK, [Next]_vars PROVE TypeOK'
    OBVIOUS
  <2>1. CASE UNCHANGED vars
    BY <2>1 DEF vars, TypeOK
  <2>2. QED
    BY <2>1, CallTypes, IterateTypes DEF Next
<1>2. QED
  BY <1>1, InitTypes, PTL DEF Spec

-----------------------------------------------------------------------------
(* A tuned frontend. *)

\* The inversion the hardware was last told, if the loop were to lock on it.
Inverted ==
  hw.inversion \in {IF autoinversion THEN inversion ELSE cache.inversion, "AUTO"}

\* The frequency: the cache holds it, and the hardware was set close to it.
Near ==
  /\ cache.frequency = request
  /\ setby # "nobody" => hw.frequency - request \in -max_drift..max_drift

\* The inversion.  (Only SCAN mode ends tuned with it still to find.)
Turned ==
  setby # "nobody" => Inverted /\ (state = {"TUNED"} /\ autoinversion => hw.inversion = "AUTO")

\* While a request stands, the first thing done about it is to set the
\* hardware, and what no get_frontend has changed is as it was asked for.
Tuned ==
  request # NONE =>
    /\ setby # "idle"
    /\ setby = "nobody" => state = {"RETUNE"}
    /\ "frequency" \notin overwritten => Near
    /\ "inversion" \notin overwritten => Turned

\* A search keeps to the request,
LEMMA SearchTuned ==
  ASSUME TypeOK, Tuned, NEW ok \in BOOLEAN, Search(ok)
  PROVE  Tuned'
<1>0. (Waits \/ Slows \/ Sets \/ Fails) /\ UNCHANGED <<oneshot, step_size, max_drift, overwritten>>
  BY PointIs, SearchIs DEF TypeOK
<1>1. (Retune <=> state = {"RETUNE"}) /\ (Lost <=> state = {"TUNED"}) /\ St # {"TUNED"}
  <2>1. (Retune <=> state = {"RETUNE"}) /\ (Lost <=> state = {"TUNED"})
    BY PointIs, BitIs
  <2>2. {"ZIGZAG_FAST"} # {"TUNED"}
    OBVIOUS
  <2>3. QED
    BY <2>1, <2>2 DEF St
<1>2. CASE Waits \/ Slows
  <2>1. ~Retune /\ UNCHANGED <<cache, hw, inversion, request, setby>> /\ state' # {"TUNED"}
    BY <1>1, <1>2 DEF Waits, Slows, SEARCHING_SLOW
  <2>2. Inverted' = Inverted
    BY <2>1 DEF Inverted, autoinversion
  <2>3. (Near => Near') /\ (Turned => Turned')
    BY <1>0, <2>1, <2>2 DEF Near, Turned
  <2>4. QED
    BY <1>0, <1>1, <2>1, <2>3 DEF Tuned
<1>3. CASE Sets
  <2> SUFFICES ASSUME request' # NONE PROVE Tuned'
    BY DEF Tuned
  <2>1. /\ cache' = cache /\ request' = request /\ setby' \in {"loop", "scan"}
        /\ hw' = [frequency |-> cache.frequency + Drift(Attempt), inversion |-> NewInversion]
        /\ inversion' = Inversion(Attempt, inversion) /\ state' # {"TUNED"}
    BY <1>1, <1>3 DEF Sets, SetBy
  <2>2. hw'.frequency = cache.frequency + Drift(Attempt) /\ hw'.inversion = NewInversion
    BY <2>1
  <2>3. Turned'
    <3>1. Inverted'
      BY <2>1, <2>2 DEF Inverted, NewInversion, autoinversion
    <3>2. QED
      BY <2>1, <3>1 DEF Turned
  <2>4. ASSUME "frequency" \notin overwritten PROVE Near'
    <3>0. cache.frequency = request
      BY <2>1, <2>4 DEF Tuned, Near
    <3>1. /\ Drift(Attempt) \in Int /\ Drift(Attempt) \in -max_drift..max_drift
          /\ cache.frequency \in Int
      BY PointIs, NewIs
    <3>2. cache.frequency + Drift(Attempt) - cache.frequency = Drift(Attempt)
      BY <3>1
    <3>3. hw'.frequency - request' \in -max_drift'..max_drift'
      BY <1>0, <2>1, <2>2, <3>0, <3>1, <3>2
    <3>4. QED
      BY <2>1, <3>0, <3>3 DEF Near
  <2>5. QED
    BY <1>0, <2>1, <2>3, <2>4 DEF Tuned
<1>4. CASE Fails
  BY <1>4 DEF Fails, Tuned
<1>5. QED
  BY <1>0, <1>2, <1>3, <1>4

\* so does a step that touches none of this,
LEMMA AsideTuned ==
  ASSUME Tuned, UNCHANGED <<state, cache, max_drift, inversion, hw, request, setby, overwritten>>
  PROVE  Tuned'
<1>1. Inverted' = Inverted /\ autoinversion' = autoinversion
  BY DEF Inverted, autoinversion
<1>2. (Near => Near') /\ (Turned => Turned')
  BY <1>1 DEF Near, Turned
<1>3. QED
  BY <1>2 DEF Tuned

\* a driver that writes into the cache,
LEMMA ReadBackTuned ==
  ASSUME TypeOK, Tuned, UNCHANGED <<state, max_drift, inversion, hw, request, setby>>,
         NEW c \in ReadBack, cache' = c, Overwrites(c)
  PROVE  Tuned'
<1>1. ASSUME Near, "frequency" \notin overwritten' PROVE Near'
  <2>1. cache'.frequency = cache.frequency
    BY <1>1, ReadBackIs
  <2>2. QED
    BY <1>1, <2>1 DEF Near
<1>2. ASSUME Turned, "inversion" \notin overwritten' PROVE Turned'
  <2>1. cache'.inversion = cache.inversion
    BY <1>2, ReadBackIs
  <2>2. autoinversion' = autoinversion
    BY <2>1 DEF autoinversion
  <2>3. Inverted' = Inverted
    BY <2>1, <2>2 DEF Inverted
  <2>4. QED
    BY <1>2, <2>2, <2>3 DEF Turned
<1>3. overwritten \subseteq overwritten'
  BY ReadBackIs
<1>4. QED
  BY <1>1, <1>2, <1>3 DEF Tuned

\* every iteration,
LEMMA IterateTuned ==
  ASSUME TypeOK, Tuned, Iterate
  PROVE  Tuned'
<1>1. CASE Idles
  BY <1>1, AsideTuned DEF Idles, vars
<1>2. CASE Locks
  <2>1. PICK c \in {cache} \cup ReadBack : cache' = Found(c) /\ Overwrites(c)
    BY <1>2 DEF Locks
  <2>2. In(state, WAITFORLOCK) /\ UNCHANGED <<max_drift, inversion, hw, request, setby>>
    BY <1>2 DEF Locks, settings, zig
  <2>3. state # {"RETUNE"}
    BY <2>2 DEF In, WAITFORLOCK
  <2>4. ASSUME Near, "frequency" \notin overwritten' PROVE Near'
    <3>1. cache'.frequency = cache.frequency
      BY <2>1, <2>4, ReadBackIs
    <3>2. QED
      BY <2>2, <2>4, <3>1 DEF Near
  <2>5. ASSUME Turned, "inversion" \notin overwritten' PROVE Turned'
    <3>1. cache'.inversion = IF autoinversion THEN inversion ELSE cache.inversion
      BY <2>1, <2>5, ReadBackIs DEF autoinversion
    <3>2. inversion \in {"OFF", "ON"}
      BY DEF TypeOK
    <3>3. ~autoinversion'
      BY <3>1, <3>2 DEF autoinversion
    <3>4. Inverted => Inverted'
      BY <2>2, <3>1, <3>3 DEF Inverted
    <3>5. QED
      BY <2>2, <2>5, <3>3, <3>4 DEF Turned
  <2>6. overwritten \subseteq overwritten'
    BY <2>1, ReadBackIs
  <2>7. QED
    BY <2>2, <2>3, <2>4, <2>5, <2>6 DEF Tuned
<1>3. ASSUME NEW ok \in BOOLEAN, TuneOnce(ok) PROVE Tuned'
  <2> SUFFICES ASSUME request' # NONE PROVE Tuned'
    BY DEF Tuned
  <2>1. /\ hw' = cache /\ setby' = SetBy("scan")
        /\ UNCHANGED <<request, cache, max_drift, inversion, overwritten>>
    BY <1>3 DEF TuneOnce, Spoil, settings, zig
  <2>2. cache.frequency \in Int /\ cache.inversion \in Inversions /\ max_drift \in Nat
    BY NewIs DEF TypeOK
  <2>3. ASSUME Near PROVE Near'
    <3>1. cache.frequency - cache.frequency = 0 /\ 0 \in -max_drift..max_drift
      BY <2>2
    <3>2. cache.frequency = request
      BY <2>3 DEF Near
    <3>3. QED
      BY <2>1, <3>1, <3>2 DEF Near
  <2>4. Turned'
    <3>1. Inverted'
      BY <2>1, <2>2 DEF Inverted, autoinversion
    <3>2. autoinversion' => hw'.inversion = "AUTO"
      BY <2>1 DEF autoinversion
    <3>3. QED
      BY <3>1, <3>2 DEF Turned
  <2>5. setby' = "scan"
    BY <2>1 DEF SetBy
  <2>6. QED
    BY <2>1, <2>3, <2>4, <2>5 DEF Tuned
<1>4. CASE StillLocked
  <2>1. UNCHANGED <<state, max_drift, inversion, hw, request, setby>>
    BY <1>4 DEF StillLocked, settings, zig
  <2>2. QED
    BY <1>4, <2>1, ReadBackTuned DEF StillLocked
<1>5. QED
  BY <1>1, <1>2, <1>3, <1>4, SearchTuned DEF Iterate

\* and every call.
LEMMA CallTuned ==
  ASSUME TypeOK, Tuned, Call
  PROVE  Tuned'
<1>1. ASSUME NEW c \in Parameters, Accepts(c) PROVE Tuned'
  BY <1>1 DEF Accepts, Tuned, Near, Turned
<1>2. CASE Changes
  BY <1>2 DEF Changes, Tuned
<1>3. CASE Diseqc
  <2>1. UNCHANGED <<cache, max_drift, inversion, hw, setby, overwritten>> /\ state' # {"TUNED"}
    BY <1>3 DEF Diseqc, settings, zig
  <2>2. CASE In(state, {"RETUNE"})
    BY <1>3, <2>2 DEF Diseqc, Spoil, Tuned
  <2>3. CASE ~In(state, {"RETUNE"})
    <3>1. request' = request /\ state # {"RETUNE"}
      BY <1>3, <2>3 DEF Diseqc, In
    <3>2. (Near => Near') /\ (Turned => Turned')
      BY <2>1, <3>1 DEF Near, Turned, Inverted, autoinversion
    <3>3. QED
      BY <2>1, <3>1, <3>2 DEF Tuned
  <2>4. QED
    BY <2>2, <2>3
<1>4. CASE SetTuneMode
  BY <1>4, AsideTuned DEF SetTuneMode, settings, zig
<1>5. CASE Resume
  BY <1>5 DEF Resume, Tuned, Near, Turned
<1>6. CASE Start
  BY <1>6 DEF Start, Spoil, Tuned
<1>7. CASE GetFrontend
  <2>1. UNCHANGED <<state, max_drift, inversion, hw, request, setby>>
    BY <1>7 DEF GetFrontend, settings, zig
  <2>2. QED
    BY <1>7, <2>1, ReadBackTuned DEF GetFrontend
<1>8. QED
  BY <1>1, <1>2, <1>3, <1>4, <1>5, <1>6, <1>7, CallIs

\* A frontend that the loop holds to be tuned has been set since the last
\* accepted request; within max_drift of its frequency, unless get_frontend of
\* the driver has put another one into the cache, and with the inversion the
\* cache shows, unless get_frontend has changed that.  A failing set_frontend,
\* a change of the cache without a retune and a DISEQC command before the
\* first tune end the claim until the next request.
THEOREM TunedRight == Spec => []TunedIsRequested
<1>1. Init => Tuned
  BY DEF Init, Tuned
<1>2. TypeOK /\ Tuned /\ [Next]_vars => Tuned'
  <2> SUFFICES ASSUME TypeOK, Tuned, [Next]_vars PROVE Tuned'
    OBVIOUS
  <2>1. CASE UNCHANGED vars
    BY <2>1, AsideTuned DEF vars
  <2>2. QED
    BY <2>1, CallTuned, IterateTuned DEF Next
<1>3. TypeOK /\ Tuned => TunedIsRequested
  <2> SUFFICES ASSUME TypeOK, Tuned, request # NONE, state = {"TUNED"}
               PROVE  /\ setby # "nobody"
                      /\ "frequency" \notin overwritten =>
                           hw.frequency - request \in -max_drift..max_drift
                      /\ "inversion" \notin overwritten =>
                           hw.inversion \in {cache.inversion, "AUTO"}
    BY DEF TunedIsRequested
  <2>1. state # {"RETUNE"}
    OBVIOUS
  <2>2. QED
    BY <2>1 DEF Tuned, Near, Turned, Inverted
<1>4. QED
  BY <1>1, <1>2, <1>3, TypeCorrect, PTL DEF Spec

-----------------------------------------------------------------------------
(* A complete search. *)

\* The inversions to be tried, and the one that is being tried.
Wanted == IF autoinversion THEN {"OFF", "ON"} ELSE {cache.inversion}
Now    == IF autoinversion THEN inversion ELSE cache.inversion

\* Drift d has been set with all inversions, or with the current one; all of it
\* has been.
Done(d) == \A i \in Wanted : <<d, i>> \in tried
Half(d) == <<d, Now>> \in tried
All == Combinations \subseteq tried

\* d is the drift of step n; sub steps below k have been tried.
StepTried(d, k) ==
  /\ Half(d) /\ (k >= 2 => Done(d)) /\ (k >= 3 => Half(-d)) /\ (k >= 4 => Done(-d))
StepsDone(n) == \A k \in 0..(n - 1) : Done(k * step_size) /\ Done(-(k * step_size))

\* The search has not wrapped since the retune: what lies before the point it
\* stands at has been tried, and the point where it would stop is behind it.
Sweeping ==
  /\ auto_sub_step >= 1 /\ started_auto_step <= auto_step
  /\ auto_step * step_size <= max_drift
  /\ StepsDone(auto_step)
  /\ StepTried(auto_step * step_size, auto_sub_step)

\* The steps pass max_drift before they wrap.
Fits == step_size = 0 \/ max_drift < step_size * (WRAP - 1)

\* The invariant: the loop has set everything, or it is on its first sweep.
Swept ==
  /\ Fits
  /\ request # NONE /\ overwritten = {} /\ setby = "loop" =>
       (All \/ Sweeping) /\ (state = SEARCHING_SLOW => All)

\* The current inversion and the flipped one are all there are.
LEMMA NowIs ==
  ASSUME TypeOK
  PROVE  Now \in Wanted /\ (~autoinversion => Wanted = {Now})
         /\ (autoinversion => Wanted = {Now, Flip(Now)} /\ Now = inversion)
<1>1. inversion \in {"OFF", "ON"}
  BY DEF TypeOK
<1>2. QED
  BY <1>1 DEF Now, Wanted, Flip

\* A larger factor, a larger product.
LEMMA ProductGrows ==
  ASSUME NEW a \in Nat, NEW b \in Nat, NEW s \in Nat, a <= b
  PROVE  a * s <= b * s
<1>1. b = a + (b - a) /\ b - a \in Nat
  OBVIOUS
<1>2. b * s = a * s + (b - a) * s
  BY <1>1
<1>3. (b - a) * s \in Nat /\ a * s \in Nat /\ b * s \in Nat
  BY <1>1, ProductNat
<1>4. QED
  BY <1>2, <1>3

\* When the next step lies beyond max_drift, everything has been tried.
LEMMA AllFrom ==
  ASSUME Sizes, NEW m \in Nat, StepsDone(m + 1),
         step_size = 0 \/ (m + 1) * step_size > max_drift
  PROVE  All
<1>0. step_size \in Nat /\ max_drift \in Nat
  BY DEF Sizes
<1>1. \A k \in 0..m : Done(k * step_size) /\ Done(-(k * step_size))
  BY DEF StepsDone
<1>2. ASSUME NEW d \in -max_drift..max_drift,
             IF step_size = 0 THEN d = 0 ELSE d % step_size = 0
      PROVE  Done(d)
  <2>0. d \in Int /\ d <= max_drift /\ -d <= max_drift
    BY <1>0, <1>2
  <2>1. CASE step_size = 0
    <3>1. d = 0 /\ 0 * step_size = 0 /\ 0 \in 0..m
      BY <1>0, <1>2, <2>1
    <3>2. Done(0 * step_size)
      BY <1>1, <3>1
    <3>3. QED
      BY <3>1, <3>2
  <2>2. CASE step_size # 0
    <3>1. step_size > 0 /\ d % step_size = 0
      BY <1>0, <1>2, <2>2
    <3>2. PICK q \in Int : d = step_size * q + (d % step_size)
      BY <1>0, <2>0, <3>1, DivMod
    <3>3. d = q * step_size
      BY <1>0, <3>1, <3>2
    <3>a. (m + 1) * step_size > max_drift /\ (m + 1) * step_size \in Nat /\ m + 1 \in Nat
      BY <1>0, <2>2
    <3>4. CASE q >= 0
      <4>1. q \in Nat
        BY <3>4
      <4>2. q <= m
        <5> SUFFICES ASSUME ~(q <= m) PROVE FALSE
          OBVIOUS
        <5>1. m + 1 <= q
          BY <4>1
        <5>2. (m + 1) * step_size <= q * step_size
          BY <1>0, <3>a, <4>1, <5>1, ProductGrows
        <5>3. QED
          BY <1>0, <2>0, <3>3, <3>a, <5>2
      <4>3. q \in 0..m
        BY <4>1, <4>2
      <4>4. QED
        BY <1>1, <3>3, <4>3
    <3>5. CASE q < 0
      <4> DEFINE k == -q
      <4>1. k \in Nat /\ d = -(k * step_size) /\ k * step_size = -d
        BY <1>0, <3>3, <3>5
      <4> HIDE DEF k
      <4>2. k <= m
        <5> SUFFICES ASSUME ~(k <= m) PROVE FALSE
          OBVIOUS
        <5>1. m + 1 <= k
          BY <4>1
        <5>2. (m + 1) * step_size <= k * step_size
          BY <1>0, <3>a, <4>1, <5>1, ProductGrows
        <5>3. QED
          BY <1>0, <2>0, <3>a, <4>1, <5>2
      <4>3. k \in 0..m
        BY <4>1, <4>2
      <4>4. QED
        BY <1>1, <4>1, <4>3
    <3>6. QED
      BY <3>4, <3>5
  <2>3. QED
    BY <2>1, <2>2
<1>3. Combinations = {d \in -max_drift..max_drift : IF step_size = 0 THEN d = 0 ELSE d % step_size = 0}
                       \X Wanted
  BY DEF Combinations, Wanted
<1>4. QED
  BY <1>2, <1>3 DEF All, Done

\* The combinations stay the same and more of them are tried.
LEMMA MoreTried ==
  ASSUME tried \subseteq tried', cache' = cache, step_size' = step_size, max_drift' = max_drift
  PROVE  /\ All => All'
         /\ \A d : Done(d) => Done(d)'
         /\ Wanted' = Wanted
<1>1. autoinversion' = autoinversion
  BY DEF autoinversion
<1>2. Wanted' = Wanted /\ Combinations' = Combinations
  BY <1>1 DEF Wanted, Combinations
<1>3. QED
  BY <1>2 DEF All, Done

\* No usable sub step is left: both drifts of the step are done.
LEMMA StepComplete ==
  ASSUME TypeOK, NEW n \in Nat, NEW k \in 1..4, StepTried(n * step_size, k), Subs(n, k) = {}
  PROVE  Done(n * step_size) /\ Done(-(n * step_size))
<1> DEFINE d == n * step_size
<1>0. d \in Nat /\ StepTried(d, k)
  BY DEF TypeOK
<1>1. \A s \in k..3 : ~Usable(n, s)
  BY DEF Subs
<1>2. /\ k <= 1 => ~autoinversion
      /\ k <= 2 => d = 0
      /\ k <= 3 => d = 0 \/ ~autoinversion
  BY <1>1 DEF Usable
<1>3. ~autoinversion => (\A x : Half(x) => Done(x))
  BY NowIs DEF Half, Done
<1> HIDE DEF d
<1>4. Done(d)
  BY <1>0, <1>2, <1>3 DEF StepTried
<1>5. d = 0 => Done(-d)
  BY <1>4
<1>6. d # 0 => Done(-d)
  BY <1>0, <1>2, <1>3 DEF StepTried
<1>7. Done(d) /\ Done(-d)
  BY <1>4, <1>5, <1>6
<1>8. QED
  BY <1>7 DEF d

\* Where a sweep goes: to a later sub step, to the next step, or it is over.
Goes ==
  \/ /\ Attempt[1] = auto_step /\ Attempt[2] \in Subs(auto_step, auto_sub_step)
     /\ \A s \in Subs(auto_step, auto_sub_step) : Attempt[2] <= s
  \/ Attempt = <<auto_step + 1, 0>> /\ StepsDone(auto_step + 1)
  \/ All

\* A sweep that goes on takes the next attempt.
LEMMA SweepGoes ==
  ASSUME TypeOK, Fits, Sweeping, ~Retune
  PROVE  Goes
<1> DEFINE n == auto_step
           k == auto_sub_step
           p == <<n, k>>
           nx == <<(n + 1) % WRAP, 0>>
<1>0. /\ n \in 0..(WRAP - 1) /\ n \in Nat /\ k \in 1..4 /\ WRAP \in Nat \ {0} /\ Sizes
      /\ step_size \in Nat /\ max_drift \in Nat /\ n * step_size <= max_drift
  BY ZigzagAssumption DEF TypeOK, Sweeping, Sizes
<1>1. p \in Points /\ Point = p
  BY <1>0 DEF Points, Point
<1>2. Wrapped(p) = p
  <2>1. n * step_size \in Nat
    BY <1>0
  <2>2. ~(p[1] * step_size > max_drift)
    BY <1>0, <2>1
  <2>3. QED
    BY <2>2 DEF Wrapped
<1>3. \/ /\ Attempt[1] = n /\ Attempt[2] \in Subs(n, k)
         /\ \A s \in Subs(n, k) : Attempt[2] <= s
      \/ Subs(n, k) = {} /\ nx \in Points /\ Attempt = Wrapped(nx)
  <2>1. p[1] = n /\ p[2] = k /\ Attempt = NextAttempt(p)
    BY <1>1 DEF Attempt
  <2> HIDE DEF p
  <2>2. LET q == Wrapped(p)
            a == NextAttempt(p)
            m == <<(q[1] + 1) % WRAP, 0>>
        IN \/ a[1] = q[1] /\ a[2] \in Subs(q[1], q[2])
              /\ \A s \in Subs(q[1], q[2]) : a[2] <= s
           \/ Subs(q[1], q[2]) = {} /\ m \in Points /\ a = Wrapped(m)
    BY <1>0, <1>1, AttemptIs
  <2>3. QED
    BY <1>2, <2>1, <2>2
<1>4. CASE Subs(n, k) = {} /\ nx \in Points /\ Attempt = Wrapped(nx)
  <2>1. StepsDone(n + 1)
    <3>1. Done(n * step_size) /\ Done(-(n * step_size))
      BY <1>0, <1>4, StepComplete DEF Sweeping
    <3>2. \A x \in 0..((n + 1) - 1) : x \in 0..(n - 1) \/ x = n
      BY <1>0
    <3>3. \A x \in 0..(n - 1) : Done(x * step_size) /\ Done(-(x * step_size))
      BY DEF StepsDone, Sweeping
    <3>4. ASSUME NEW x \in 0..((n + 1) - 1) PROVE Done(x * step_size) /\ Done(-(x * step_size))
      <4>1. CASE x \in 0..(n - 1)
        BY <3>3, <4>1
      <4>2. CASE x = n
        BY <3>1, <4>2
      <4>3. QED
        BY <3>2, <4>1, <4>2
    <3>5. QED
      BY <3>4 DEF StepsDone
  <2>2. CASE step_size = 0 \/ (n + 1) * step_size > max_drift
    BY <1>0, <2>1, <2>2, AllFrom DEF Goes
  <2>3. CASE ~(step_size = 0 \/ (n + 1) * step_size > max_drift)
    <3>1. step_size > 0 /\ (n + 1) * step_size <= max_drift /\ (n + 1) * step_size \in Nat
      BY <1>0, <2>3
    <3>2. max_drift < step_size * (WRAP - 1)
      BY <2>3 DEF Fits
    <3>3. n + 1 <= WRAP - 1
      <4> SUFFICES ASSUME ~(n + 1 <= WRAP - 1) PROVE FALSE
        OBVIOUS
      <4>1. WRAP - 1 \in Nat /\ n + 1 \in Nat /\ WRAP - 1 <= n + 1
        BY <1>0
      <4> DEFINE a == WRAP - 1
                 b == n + 1
      <4>2. a \in Nat /\ b \in Nat /\ a <= b
        BY <4>1
      <4> HIDE DEF a, b
      <4>3. a * step_size <= b * step_size
        BY <1>0, <4>2, ProductGrows
      <4>4. (WRAP - 1) * step_size <= (n + 1) * step_size
        BY <4>3 DEF a, b
      <4>5. (WRAP - 1) * step_size = step_size * (WRAP - 1) /\ (WRAP - 1) * step_size \in Nat
        BY <1>0
      <4>6. QED
        BY <1>0, <3>1, <3>2, <4>4, <4>5
    <3>4. (n + 1) % WRAP = n + 1
      <4> DEFINE b == n + 1
      <4>1. b \in 0..(WRAP - 1) /\ WRAP * 0 + b = b
        BY <1>0, <3>3
      <4> HIDE DEF b
      <4>2. (WRAP * 0 + b) % WRAP = b
        BY <1>0, <4>1, ModUnique
      <4>3. QED
        BY <4>1, <4>2 DEF b
    <3>5. nx = <<n + 1, 0>> /\ ~(nx[1] * step_size > max_drift)
      <4>1. nx = <<n + 1, 0>> /\ nx[1] = n + 1
        BY <3>4
      <4>2. ~((n + 1) * step_size > max_drift)
        BY <2>3
      <4>3. QED
        BY <4>1, <4>2
    <3>6. Attempt = <<n + 1, 0>>
      BY <1>4, <3>5 DEF Wrapped
    <3>7. QED
      BY <2>1, <3>6 DEF Goes
  <2>4. QED
    BY <2>2, <2>3
<1>5. QED
  BY <1>3, <1>4 DEF Goes

\* The trials are over only when everything has been tried.
LEMMA SlowsAll ==
  ASSUME TypeOK, Fits, All \/ Sweeping, Slows
  PROVE  All
<1> SUFFICES ASSUME Sweeping, ~All PROVE FALSE
  OBVIOUS
<1>1. ~Retune /\ Attempt = <<Started, 0>>
  BY DEF Slows
<1>2. Attempt[1] = Started /\ Attempt[2] = 0
  BY <1>1
<1>3. /\ auto_step \in Nat /\ auto_sub_step \in 1..4 /\ started_auto_step \in Nat
      /\ started_auto_step <= auto_step
  BY ZigzagAssumption DEF TypeOK, Sweeping
<1>4. Started <= auto_step /\ Started \in Nat
  BY <1>1, <1>3 DEF Started
<1>5. Goes
  BY <1>1, SweepGoes
<1>6. 0 \notin Subs(auto_step, auto_sub_step)
  BY <1>3 DEF Subs
<1>7. Attempt # <<auto_step + 1, 0>>
  <2>1. Started # auto_step + 1
    BY <1>3, <1>4
  <2>2. QED
    BY <1>1, <2>1
<1>8. QED
  BY <1>2, <1>5, <1>6, <1>7 DEF Goes

\* What an attempt adds to what has been tried.
LEMMA SetsAdds ==
  ASSUME TypeOK, Sets, request # NONE
  PROVE  /\ tried \subseteq tried' /\ <<Drift(Attempt), Now'>> \in tried'
         /\ autoinversion' = autoinversion
         /\ Now' = (IF autoinversion /\ Attempt[2] \in {1, 3} THEN Flip(Now) ELSE Now)
         /\ Now' \in Wanted'
<1>1. cache' = cache /\ inversion' = Inversion(Attempt, inversion)
      /\ tried' = tried \cup {<<Drift(Attempt), NewInversion>>}
  BY DEF Sets
<1>2. autoinversion' = autoinversion
  BY <1>1 DEF autoinversion
<1>3. Now' = NewInversion
  BY <1>1, <1>2 DEF Now, NewInversion
<1>4. Now' = IF autoinversion /\ Attempt[2] \in {1, 3} THEN Flip(Now) ELSE Now
  BY <1>1, <1>2 DEF Now, Inversion
<1>5. Now' \in Wanted'
  <2>1. inversion' \in {"OFF", "ON"}
    BY <1>1, NewIs
  <2>2. QED
    BY <2>1 DEF Now, Wanted
<1>6. QED
  BY <1>1, <1>2, <1>3, <1>4, <1>5

\* The next sub step of the step is tried.
LEMMA SubTried ==
  ASSUME TypeOK, Sets, request # NONE, UNCHANGED <<step_size, max_drift>>,
         NEW n \in Nat, NEW k \in 1..4, NEW d, d = n * step_size, StepTried(d, k),
         NEW s, s = Attempt[2], Attempt[1] = n, s \in Subs(n, k), \A t \in Subs(n, k) : s <= t
  PROVE  StepTried(d, s + 1)'
<1>0. d \in Nat /\ StepTried(d, k) /\ s \in k..3 /\ s \in 0..3 /\ Usable(n, s)
  BY PointIs DEF TypeOK, Subs
<1>1. /\ tried \subseteq tried' /\ <<Drift(Attempt), Now'>> \in tried'
      /\ autoinversion' = autoinversion
      /\ Now' = (IF autoinversion /\ s \in {1, 3} THEN Flip(Now) ELSE Now)
      /\ Now' \in Wanted'
  BY SetsAdds
<1>2. \A x : Done(x) => Done(x)' /\ Half(x)'
  <2>1. cache' = cache
    BY DEF Sets
  <2>2. \A x : Done(x) => Done(x)'
    BY <1>1, <2>1, MoreTried
  <2>3. QED
    BY <1>1, <2>2 DEF Done, Half
<1>3. Drift(Attempt) = IF s \in {2, 3} THEN -d ELSE d
  BY DEF Drift
<1>4. Wanted' = Wanted /\ (autoinversion => Wanted = {Now, Flip(Now)}) /\ (~autoinversion => Wanted = {Now})
  <2>1. cache' = cache
    BY DEF Sets
  <2>2. QED
    BY <1>1, <2>1, MoreTried, NowIs
<1>5. \A t \in k..3 : Usable(n, t) => s <= t
  BY DEF Subs
<1>6. s = 2 \/ s = 3 => d # 0
  BY <1>0 DEF Usable
<1>7. s = 1 \/ s = 3 => autoinversion
  BY <1>0 DEF Usable
<1>8. CASE s = 1
  <2>1. k = 1 /\ Half(d)
    BY <1>0, <1>8 DEF StepTried
  <2>2. <<d, Now>> \in tried' /\ <<d, Flip(Now)>> \in tried' /\ Now' = Flip(Now)
    BY <1>1, <1>3, <1>7, <1>8, <2>1 DEF Half
  <2>3. Done(d)' /\ Half(d)'
    BY <1>4, <1>7, <1>8, <2>2 DEF Done, Half
  <2>4. QED
    BY <1>8, <2>3 DEF StepTried
<1>9. CASE s = 2
  <2>1. Done(d)
    <3>1. CASE autoinversion
      <4>1. k # 1
        <5>1. Usable(n, 1)
          BY <3>1 DEF Usable
        <5>2. QED
          BY <1>5, <1>9, <5>1
      <4>2. k = 2
        BY <1>0, <1>9, <4>1
      <4>3. QED
        BY <1>0, <4>2 DEF StepTried
    <3>2. CASE ~autoinversion
      BY <1>0, <1>4, <3>2 DEF StepTried, Half, Done
    <3>3. QED
      BY <3>1, <3>2
  <2>2. Half(-d)'
    BY <1>1, <1>3, <1>9 DEF Half
  <2>3. Done(d)' /\ Half(d)'
    BY <1>2, <2>1
  <2>4. QED
    BY <1>9, <2>2, <2>3 DEF StepTried
<1>10. CASE s = 3
  <2>1. k = 3
    <3>1. Usable(n, 2)
      BY <1>6, <1>10 DEF Usable
    <3>2. ~(2 \in k..3)
      BY <1>5, <1>10, <3>1
    <3>3. QED
      BY <1>0, <1>10, <3>2
  <2>2. Done(d) /\ Half(-d)
    BY <1>0, <2>1 DEF StepTried
  <2>3. <<-d, Now>> \in tried' /\ <<-d, Flip(Now)>> \in tried' /\ Now' = Flip(Now)
    BY <1>1, <1>3, <1>7, <1>10, <2>2 DEF Half
  <2>4. Done(-d)' /\ Half(-d)'
    BY <1>4, <1>7, <1>10, <2>3 DEF Done, Half
  <2>5. Done(d)' /\ Half(d)'
    BY <1>2, <2>2
  <2>6. QED
    BY <1>10, <2>4, <2>5 DEF StepTried
<1>11. s = 1 \/ s = 2 \/ s = 3
  BY <1>0
<1>12. QED
  BY <1>8, <1>9, <1>10, <1>11

\* The steps that are done stay done.
LEMMA StepsStay ==
  ASSUME \A x : Done(x) => Done(x)', step_size' = step_size, NEW m, StepsDone(m)
  PROVE  StepsDone(m)'
<1>1. ASSUME NEW x \in 0..(m - 1) PROVE Done(x * step_size)' /\ Done(-(x * step_size))'
  <2>1. PICK d : d = x * step_size
    OBVIOUS
  <2>2. Done(d) /\ Done(-d)
    BY <2>1 DEF StepsDone
  <2>3. Done(d)' /\ Done(-d)'
    BY <2>2
  <2>4. x * step_size' = d
    BY <2>1
  <2>5. QED
    BY <2>3, <2>4 DEF Done
<1>2. QED
  BY <1>1 DEF StepsDone

\* A sweep, put together from what its parts are after a step.
LEMMA SweepingIs ==
  ASSUME NEW n \in Nat, NEW k \in 1..4, NEW d, d = n * step_size,
         UNCHANGED <<step_size, max_drift>>, auto_step' = n, auto_sub_step' = k,
         started_auto_step' <= n, d <= max_drift, StepsDone(n)', StepTried(d, k)'
  PROVE  Sweeping'
<1>1. auto_step' * step_size' = d
  OBVIOUS
<1>2. StepTried(auto_step * step_size, auto_sub_step)'
  BY <1>1 DEF StepTried, Half, Done
<1>3. StepsDone(auto_step)'
  BY DEF StepsDone
<1>4. (auto_sub_step >= 1 /\ started_auto_step <= auto_step /\ auto_step * step_size <= max_drift)'
  BY <1>1
<1>5. QED
  BY <1>2, <1>3, <1>4 DEF Sweeping

\* The first attempt for a request.
LEMMA FirstAttempt ==
  ASSUME TypeOK, Retune
  PROVE  Attempt = <<0, 0>> /\ Drift(Attempt) = 0
<1> DEFINE p == <<0, 0>>
<1>0. Sizes /\ WRAP \in Nat \ {0} /\ step_size \in Nat /\ max_drift \in Nat /\ Attempt \in Attempts
  BY PointIs, ZigzagAssumption DEF Sizes
<1>1. p \in Points /\ p[1] = 0 /\ p[2] = 0 /\ Attempt = NextAttempt(p)
  BY <1>0 DEF Points, Attempt, Point
<1>2. Wrapped(p) = p
  <2>1. ~(0 * step_size > max_drift)
    BY <1>0
  <2>2. QED
    BY <1>1, <2>1 DEF Wrapped
<1>3. 0 \in Subs(0, 0)
  BY DEF Subs, Usable
<1> HIDE DEF p
<1>4. LET q == Wrapped(p)
          a == NextAttempt(p)
          m == <<(q[1] + 1) % WRAP, 0>>
      IN \/ a[1] = q[1] /\ a[2] \in Subs(q[1], q[2])
            /\ \A s \in Subs(q[1], q[2]) : a[2] <= s
         \/ Subs(q[1], q[2]) = {} /\ m \in Points /\ a = Wrapped(m)
  BY <1>0, <1>1, AttemptIs
<1>5. Attempt[1] = 0 /\ Attempt[2] \in Subs(0, 0) /\ Attempt[2] <= 0
  BY <1>1, <1>2, <1>3, <1>4
<1>6. Attempt[2] = 0
  BY <1>5 DEF Subs
<1>7. Attempt = <<Attempt[1], Attempt[2]>>
  BY <1>0 DEF Attempts
<1>8. 0 * step_size = 0
  BY <1>0
<1>9. QED
  BY <1>5, <1>6, <1>7, <1>8 DEF Drift

\* A sweep that sets the hardware goes on.
LEMMA SetsSweeps ==
  ASSUME TypeOK, Fits, Sweeping, ~Retune, Sets, request # NONE,
         UNCHANGED <<step_size, max_drift>>
  PROVE  All' \/ Sweeping'
<1>0. /\ auto_step \in Nat /\ auto_sub_step \in 1..4 /\ started_auto_step \in Nat
      /\ started_auto_step <= auto_step /\ step_size \in Nat /\ max_drift \in Nat
      /\ auto_step * step_size <= max_drift /\ StepsDone(auto_step)
      /\ StepTried(auto_step * step_size, auto_sub_step)
  BY ZigzagAssumption DEF TypeOK, Sweeping
<1>1. /\ auto_step' = Attempt[1] /\ auto_sub_step' = Attempt[2] + 1 /\ started_auto_step' = Started
      /\ cache' = cache
  BY DEF Sets
<1>2. Started <= auto_step /\ Started \in Nat
  BY <1>0 DEF Started
<1>3. /\ tried \subseteq tried' /\ <<Drift(Attempt), Now'>> \in tried'
  BY SetsAdds
<1>4. (All => All') /\ (\A x : Done(x) => Done(x)')
  BY <1>1, <1>3, MoreTried
<1>5. Attempt[1] * step_size <= max_drift /\ Attempt[2] \in 0..3
  BY PointIs
<1>6. CASE /\ Attempt[1] = auto_step /\ Attempt[2] \in Subs(auto_step, auto_sub_step)
           /\ \A s \in Subs(auto_step, auto_sub_step) : Attempt[2] <= s
  <2>1. PICK n \in Nat : n = auto_step
    BY <1>0
  <2>2. PICK k \in 1..4 : k = auto_sub_step
    BY <1>0
  <2>3. PICK s \in 0..3 : s = Attempt[2]
    BY <1>5
  <2>4. PICK d \in Nat : d = n * step_size
    BY <1>0, <2>1, ProductNat
  <2>5. StepTried(d, k)
    BY <1>0, <2>1, <2>2, <2>4
  <2>6. s \in Subs(n, k) /\ (\A t \in Subs(n, k) : s <= t) /\ Attempt[1] = n
    BY <1>6, <2>1, <2>2, <2>3
  <2>7. StepTried(d, s + 1)'
    BY <2>3, <2>4, <2>5, <2>6, SubTried
  <2>8. StepsDone(n)'
    BY <1>0, <1>4, <2>1, StepsStay
  <2>9. PICK j \in 1..4 : j = s + 1
    OBVIOUS
  <2>10. /\ auto_step' = n /\ auto_sub_step' = j /\ started_auto_step' <= n /\ d <= max_drift
         /\ StepTried(d, j)'
    BY <1>0, <1>1, <1>2, <1>6, <2>1, <2>3, <2>4, <2>7, <2>9
  <2>11. Sweeping'
    BY <2>4, <2>8, <2>10, SweepingIs
  <2>12. QED
    BY <2>11
<1>7. CASE Attempt = <<auto_step + 1, 0>> /\ StepsDone(auto_step + 1)
  <2>1. PICK n \in Nat : n = auto_step + 1
    BY <1>0
  <2>2. Attempt[1] = n /\ Attempt[2] = 0 /\ StepsDone(n)
    BY <1>7, <2>1
  <2>3. PICK d \in Nat : d = n * step_size
    BY <1>0, ProductNat
  <2>4. Drift(Attempt) = d
    BY <2>2, <2>3 DEF Drift
  <2>5. StepTried(d, 1)'
    BY <1>3, <2>4 DEF StepTried, Half
  <2>6. StepsDone(n)'
    BY <1>4, <2>2, StepsStay
  <2>7. auto_step' = n /\ auto_sub_step' = 1 /\ started_auto_step' <= n /\ d <= max_drift
    BY <1>0, <1>1, <1>2, <1>5, <2>1, <2>2, <2>3
  <2>8. Sweeping'
    BY <2>3, <2>5, <2>6, <2>7, SweepingIs
  <2>9. QED
    BY <2>8
<1>8. CASE All
  BY <1>4, <1>8
<1>9. QED
  BY <1>6, <1>7, <1>8, SweepGoes DEF Goes

\* A new request starts a sweep.
LEMMA RetuneSweeps ==
  ASSUME TypeOK, Retune, Sets, request # NONE, UNCHANGED <<step_size, max_drift>>
  PROVE  Sweeping'
<1>1. Attempt[1] = 0 /\ Attempt[2] = 0 /\ Drift(Attempt) = 0
  BY FirstAttempt
<1>2. auto_step' = 0 /\ auto_sub_step' = 1 /\ started_auto_step' = 0
  BY <1>1 DEF Sets, Started
<1>3. <<0, Now'>> \in tried'
  BY <1>1, SetsAdds
<1>4. StepTried(0, 1)' /\ StepsDone(0)'
  BY <1>3 DEF StepTried, Half, StepsDone
<1>5. 0 = 0 * step_size /\ 0 <= max_drift /\ started_auto_step' <= 0
  BY <1>2 DEF TypeOK
<1>6. QED
  BY <1>2, <1>4, <1>5, SweepingIs

\* What has been tried counts as before when no more is wanted than before.
LEMMA SweptStays ==
  ASSUME TypeOK, Wanted' \subseteq Wanted, Now' = Now, started_auto_step' <= auto_step,
         UNCHANGED <<step_size, max_drift, tried, auto_step, auto_sub_step>>
  PROVE  (All => All') /\ (Sweeping => Sweeping')
<1>1. All => All'
  <2>1. Combinations' \subseteq Combinations
    BY DEF Combinations, Wanted
  <2>2. QED
    BY <2>1 DEF All
<1>2. (\A x : Done(x) => Done(x)') /\ (\A x : Half(x) => Half(x)')
  BY DEF Done, Half
<1>3. ASSUME Sweeping PROVE Sweeping'
  <2>0. /\ auto_step \in Nat /\ auto_sub_step \in 1..4 /\ step_size \in Nat
        /\ auto_step * step_size <= max_drift /\ StepsDone(auto_step)
        /\ StepTried(auto_step * step_size, auto_sub_step)
    BY <1>3, ZigzagAssumption DEF TypeOK, Sweeping
  <2>1. PICK n \in Nat : n = auto_step
    BY <2>0
  <2>2. PICK k \in 1..4 : k = auto_sub_step
    BY <2>0
  <2>3. PICK d \in Nat : d = n * step_size
    BY <2>0, ProductNat
  <2>4. StepTried(d, k)
    BY <2>0, <2>1, <2>2, <2>3
  <2>5. StepTried(d, k)'
    BY <1>2, <2>4 DEF StepTried
  <2>6. StepsDone(n)'
    BY <1>2, <2>0, <2>1, StepsStay
  <2>7. auto_step' = n /\ auto_sub_step' = k /\ started_auto_step' <= n /\ d <= max_drift
    BY <2>0, <2>1, <2>2, <2>3
  <2>8. QED
    BY <2>3, <2>5, <2>6, <2>7, SweepingIs
<1>4. QED
  BY <1>1, <1>3

\* A single bit is not the mask of the slow search.
LEMMA NotSlow ==
  \A b : {b} # SEARCHING_SLOW
  BY DEF SEARCHING_SLOW

\* A search keeps the account of the sweep,
LEMMA SearchSwept ==
  ASSUME TypeOK, Tuned, Swept, NEW ok \in BOOLEAN, Search(ok)
  PROVE  Swept'
<1>0. (Waits \/ Slows \/ Sets \/ Fails) /\ UNCHANGED <<oneshot, step_size, max_drift, overwritten>>
  BY PointIs, SearchIs DEF TypeOK
<1>1. Fits /\ Fits'
  BY <1>0 DEF Swept, Fits
<1>2. Retune <=> state = {"RETUNE"}
  BY PointIs, BitIs
<1>3. St = SEARCHING_SLOW => state = SEARCHING_SLOW
  BY NotSlow DEF St
<1>4. SUFFICES ASSUME request' # NONE, overwritten' = {}, setby' = "loop"
               PROVE  (All \/ Sweeping)' /\ (state = SEARCHING_SLOW => All)'
  BY <1>1 DEF Swept
<1>5. ~Fails /\ overwritten = {}
  BY <1>0, <1>4 DEF Fails
<1>6. CASE Waits
  <2>1. /\ ~Retune /\ request # NONE /\ setby = "loop" /\ state' = St
        /\ UNCHANGED <<cache, inversion, auto_step, auto_sub_step, tried>>
        /\ started_auto_step' = Started
    BY <1>4, <1>6 DEF Waits
  <2>2. (All \/ Sweeping) /\ (state = SEARCHING_SLOW => All)
    BY <1>5, <2>1 DEF Swept
  <2>3. autoinversion' = autoinversion
    BY <2>1 DEF autoinversion
  <2>4. Wanted' = Wanted /\ Now' = Now
    BY <2>1, <2>3 DEF Wanted, Now
  <2>5. CASE All
    <3>1. tried \subseteq tried'
      BY <2>1
    <3>2. All'
      BY <1>0, <2>1, <2>5, <3>1, MoreTried
    <3>3. QED
      BY <3>2
  <2>6. CASE Sweeping /\ ~All
    <3>1. auto_step \in Nat /\ started_auto_step <= auto_step
      BY <2>6, ZigzagAssumption DEF TypeOK, Sweeping
    <3>2. started_auto_step' <= auto_step
      BY <2>1, <3>1 DEF Started
    <3>3. Sweeping'
      BY <1>0, <2>1, <2>4, <2>6, <3>2, SweptStays
    <3>4. state' # SEARCHING_SLOW
      BY <1>3, <2>1, <2>2, <2>6
    <3>5. QED
      BY <3>3, <3>4
  <2>7. QED
    BY <2>2, <2>5, <2>6
<1>7. CASE Slows
  <2>1. request # NONE /\ setby = "loop" /\ UNCHANGED <<cache, tried>>
    BY <1>4, <1>7 DEF Slows
  <2>2. All
    BY <1>1, <1>5, <1>7, <2>1, SlowsAll DEF Swept
  <2>3. tried \subseteq tried'
    BY <2>1
  <2>4. All'
    BY <1>0, <2>1, <2>2, <2>3, MoreTried
  <2>5. QED
    BY <2>4
<1>8. CASE Sets
  <2>1. /\ request # NONE /\ setby' = SetBy("loop") /\ cache' = cache
        /\ state' = IF Retune THEN {"TUNING_FAST"} ELSE St
    BY <1>4, <1>8 DEF Sets
  <2>2. CASE Retune
    <3>1. Sweeping'
      BY <1>0, <1>8, <2>1, <2>2, RetuneSweeps
    <3>2. state' # SEARCHING_SLOW
      BY <2>1, <2>2, NotSlow
    <3>3. QED
      BY <3>1, <3>2
  <2>3. CASE ~Retune
    <3>1. setby = "loop"
      <4>1. setby # "idle" /\ setby # "nobody" /\ setby \in {"idle", "nobody", "loop", "scan"}
        BY <1>2, <2>1, <2>3 DEF Tuned, TypeOK
      <4>2. setby # "scan"
        BY <1>4, <2>1 DEF SetBy
      <4>3. QED
        BY <4>1, <4>2
    <3>2. (All \/ Sweeping) /\ (state = SEARCHING_SLOW => All)
      BY <1>5, <2>1, <3>1 DEF Swept
    <3>3. CASE All
      <4>1. tried \subseteq tried'
        BY <1>8, <2>1, SetsAdds
      <4>2. All'
        BY <1>0, <2>1, <3>3, <4>1, MoreTried
      <4>3. QED
        BY <4>2
    <3>4. CASE Sweeping /\ ~All
      <4>1. All' \/ Sweeping'
        BY <1>0, <1>1, <1>8, <2>1, <2>3, <3>4, SetsSweeps
      <4>2. state' # SEARCHING_SLOW
        BY <1>3, <2>1, <2>3, <3>2, <3>4
      <4>3. QED
        BY <4>1, <4>2
    <3>5. QED
      BY <3>2, <3>3, <3>4
  <2>4. QED
    BY <2>2, <2>3
<1>9. QED
  BY <1>0, <1>5, <1>6, <1>7, <1>8

\* A step that touches neither the sweep nor what is wanted.
LEMMA AsideSwept ==
  ASSUME TypeOK, Swept, UNCHANGED <<cache, inversion, step_size, max_drift, tried, setby, request,
                                    auto_step, auto_sub_step, started_auto_step, overwritten>>,
         state' = state \/ state' # SEARCHING_SLOW
  PROVE  Swept'
<1>1. Fits'
  BY DEF Swept, Fits
<1>2. SUFFICES ASSUME request # NONE, overwritten' = {}, setby = "loop"
               PROVE  (All \/ Sweeping)' /\ (state = SEARCHING_SLOW => All)'
  BY <1>1 DEF Swept
<1>3. (All \/ Sweeping) /\ (state = SEARCHING_SLOW => All)
  BY <1>2 DEF Swept
<1>4. autoinversion' = autoinversion
  BY DEF autoinversion
<1>5. Combinations' = Combinations /\ Wanted' = Wanted /\ Now' = Now
  BY <1>4 DEF Combinations, Wanted, Now
<1>6. All => All'
  BY <1>5 DEF All
<1>7. Sweeping => Sweeping'
  BY <1>5, SweptStays DEF Sweeping
<1>8. QED
  BY <1>3, <1>6, <1>7

\* so does a lock, which leaves less to be tried,
LEMMA LocksSwept ==
  ASSUME TypeOK, Swept, Locks
  PROVE  Swept'
<1>0. PICK c \in {cache} \cup ReadBack : cache' = Found(c) /\ Overwrites(c)
  BY DEF Locks
<1>1. /\ state' = {"TUNED"}
      /\ UNCHANGED <<step_size, max_drift, tried, inversion, request, setby, auto_step,
                     auto_sub_step, started_auto_step>>
  BY DEF Locks, settings, zig
<1>2. Fits'
  BY <1>1 DEF Swept, Fits
<1>3. cache \in Parameters /\ inversion \in {"OFF", "ON"}
  BY DEF TypeOK
<1>5. SUFFICES ASSUME request # NONE, overwritten' = {}, setby = "loop"
               PROVE  (All \/ Sweeping)'
  BY <1>1, <1>2, NotSlow DEF Swept
<1>a. cache' = Found(cache) /\ overwritten = {}
  BY <1>0, <1>5, ReadBackIs
<1>4. Wanted' \subseteq Wanted /\ Now' = Now
  <2>1. CASE autoinversion
    <3>1. cache'.inversion = inversion /\ inversion # "AUTO"
      BY <1>a, <1>3, <2>1 DEF Parameters, Found, autoinversion
    <3>2. ~autoinversion'
      BY <3>1 DEF autoinversion
    <3>3. QED
      BY <1>3, <2>1, <3>1, <3>2 DEF Wanted, Now
  <2>2. CASE ~autoinversion
    <3>1. cache' = cache
      BY <1>a, <2>2 DEF Found, autoinversion
    <3>2. ~autoinversion'
      BY <2>2, <3>1 DEF autoinversion
    <3>3. QED
      BY <2>2, <3>1, <3>2 DEF Wanted, Now
  <2>3. QED
    BY <2>1, <2>2
<1>6. All \/ Sweeping
  BY <1>5, <1>a DEF Swept
<1>7. CASE Sweeping
  <2>1. started_auto_step' <= auto_step
    BY <1>1, <1>7 DEF Sweeping
  <2>2. Sweeping'
    BY <1>1, <1>4, <1>7, <2>1, SweptStays
  <2>3. QED
    BY <2>2
<1>8. CASE All
  <2>1. Combinations' \subseteq Combinations
    BY <1>1, <1>4 DEF Combinations, Wanted
  <2>2. QED
    BY <1>1, <1>8, <2>1 DEF All
<1>9. QED
  BY <1>6, <1>7, <1>8

\* so does a driver that writes into the cache: with anything new it ends the
\* claim,
LEMMA ReadBackSwept ==
  ASSUME TypeOK, Swept, NEW c \in ReadBack, cache' = c, Overwrites(c),
         UNCHANGED <<state, inversion, step_size, max_drift, tried, setby, request,
                     auto_step, auto_sub_step, started_auto_step>>
  PROVE  Swept'
<1>1. overwritten \subseteq overwritten' /\ (overwritten' = {} => cache' = cache)
  BY ReadBackIs
<1>2. CASE overwritten' = {}
  <2>1. cache' = cache /\ overwritten' = overwritten
    BY <1>1, <1>2
  <2>2. QED
    BY <2>1, AsideSwept
<1>3. CASE overwritten' # {}
  BY <1>3 DEF Swept, Fits
<1>4. QED
  BY <1>2, <1>3

\* so does every iteration,
LEMMA IterateSwept ==
  ASSUME TypeOK, Tuned, Swept, Iterate
  PROVE  Swept'
<1>1. CASE Idles
  BY <1>1, AsideSwept DEF Idles, vars
<1>2. CASE Locks
  BY <1>2, LocksSwept
<1>3. ASSUME NEW ok \in BOOLEAN, TuneOnce(ok) PROVE Swept'
  <2>1. Fits'
    BY <1>3 DEF TuneOnce, settings, Swept, Fits
  <2>2. setby' = "scan" \/ request' = NONE
    BY <1>3 DEF TuneOnce, Spoil, SetBy
  <2>3. QED
    BY <2>1, <2>2 DEF Swept
<1>4. CASE StillLocked
  <2>1. UNCHANGED <<state, inversion, step_size, max_drift, tried, setby, request,
                    auto_step, auto_sub_step, started_auto_step>>
    BY <1>4 DEF StillLocked, settings, zig
  <2>2. QED
    BY <1>4, <2>1, ReadBackSwept DEF StillLocked
<1>5. QED
  BY <1>1, <1>2, <1>3, <1>4, SearchSwept DEF Iterate

\* and every call.
LEMMA CallSwept ==
  ASSUME TypeOK, Swept, Call
  PROVE  Swept'
<1>1. ASSUME NEW c \in Parameters, Accepts(c) PROVE Swept'
  <2>1. PICK s \in Settings : step_size' = s[1] /\ max_drift' = s[2]
    BY <1>1 DEF Accepts
  <2>2. Fits'
    BY <2>1, StepsAssumption DEF Fits
  <2>3. setby' = "nobody"
    BY <1>1 DEF Accepts
  <2>4. QED
    BY <2>2, <2>3 DEF Swept
<1>2. CASE Changes
  BY <1>2 DEF Changes, Swept, Fits
<1>3. CASE Diseqc
  <2>0. UNCHANGED <<cache, inversion, step_size, max_drift, setby, auto_step, auto_sub_step,
                    started_auto_step, overwritten>> /\ state' # SEARCHING_SLOW
    BY <1>3, NotSlow DEF Diseqc, settings, zig
  <2>1. CASE In(state, {"RETUNE"})
    <3>1. request' = NONE
      BY <1>3, <2>1 DEF Diseqc, Spoil
    <3>2. QED
      BY <2>0, <3>1 DEF Swept, Fits
  <2>2. CASE ~In(state, {"RETUNE"})
    <3>1. UNCHANGED <<request, tried>>
      BY <1>3, <2>2 DEF Diseqc
    <3>2. QED
      BY <2>0, <3>1, AsideSwept
  <2>3. QED
    BY <2>1, <2>2
<1>4. CASE SetTuneMode
  BY <1>4, AsideSwept DEF SetTuneMode, settings, zig
<1>5. CASE Resume
  BY <1>5 DEF Resume, settings, Swept, Fits
<1>6. CASE Start
  BY <1>6 DEF Start, settings, Spoil, Swept, Fits
<1>7. CASE GetFrontend
  <2>1. UNCHANGED <<state, inversion, step_size, max_drift, tried, setby, request,
                    auto_step, auto_sub_step, started_auto_step>>
    BY <1>7 DEF GetFrontend, settings, zig
  <2>2. QED
    BY <1>7, <2>1, ReadBackSwept DEF GetFrontend
<1>8. QED
  BY <1>1, <1>2, <1>3, <1>4, <1>5, <1>6, <1>7, CallIs

\* The software tuning loop drops to the slow speed only after every drift
\* and every inversion that the request allows has been set, as long as no
\* get_frontend has changed the cache it searches around.
THEOREM SlowAfterAll == Spec => []SlowMeansAllTried
<1>1. Init => TypeOK /\ Tuned /\ Swept
  <2>1. Init => Tuned
    BY DEF Init, Tuned
  <2>2. Init => Swept
    BY DEF Init, Swept, Fits
  <2>3. QED
    BY <2>1, <2>2, InitTypes
<1>2. TypeOK /\ Tuned /\ Swept /\ [Next]_vars => (TypeOK /\ Tuned /\ Swept)'
  <2> SUFFICES ASSUME TypeOK, Tuned, Swept, [Next]_vars PROVE (TypeOK /\ Tuned /\ Swept)'
    OBVIOUS
  <2>1. CASE UNCHANGED vars
    <3>1. TypeOK' /\ Tuned'
      BY <2>1, AsideTuned DEF vars, TypeOK
    <3>2. Swept'
      BY <2>1, AsideSwept DEF vars
    <3>3. QED
      BY <3>1, <3>2
  <2>2. CASE Call
    BY <2>2, CallTypes, CallTuned, CallSwept
  <2>3. CASE Iterate /\ UNCHANGED calls
    BY <2>3, IterateTypes, IterateTuned, IterateSwept
  <2>4. QED
    BY <2>1, <2>2, <2>3 DEF Next
<1>3. Swept => SlowMeansAllTried
  BY DEF Swept, All, SlowMeansAllTried
<1>4. QED
  BY <1>1, <1>2, <1>3, PTL DEF Spec
=============================================================================
