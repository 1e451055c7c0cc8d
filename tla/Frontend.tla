------------------------------ MODULE Frontend ------------------------------
(***************************************************************************)
(* The thread of a frontend and its users (dvb-core/dvb_frontend.c): open, *)
(* release, the ioctls that tune and that fetch events, and the driver's   *)
(* dvb_unregister_frontend.  fepriv->sem serialises the thread's           *)
(* iterations and the ioctls; fepriv->thread, fepriv->exit and the use     *)
(* counts are shared without it.  What an iteration does is in Zigzag:     *)
(* here it serves a request and reports changes of the lock.               *)
(*                                                                         *)
(* Opens are serialised by dvbdev_mutex.  One file may write, another      *)
(* reads only.  Several threads of a process may call ioctl on a file, and *)
(* its release comes after they have returned.                             *)
(***************************************************************************)
EXTENDS Integers, FiniteSets

CONSTANTS
  Callers,     \* threads that call ioctl
  MAX_EVENT,   \* slots of the event queue
  Removable,   \* the driver may unregister the frontend
  MaxThreads,  \* bound: kernel threads started
  MaxEvents    \* bound: events added

ASSUME FrontendAssumption ==
  /\ MAX_EVENT \in Nat \ {0, 1} /\ Removable \in BOOLEAN
  /\ MaxThreads \in Nat /\ MaxEvents \in Nat

VARIABLES
  sem,                  \* fepriv->sem, counting
  exit,                 \* "NO", "NORMAL" or "REMOVED"
  thread,               \* fepriv->thread, 0 for NULL
  state,                \* of the tuning: "IDLE", "RETUNE" or "TUNED"
  kt,                   \* the kernel threads: pc, stop (kthread_should_stop), wp
  rw, ro,               \* the files
  proc,                 \* dvb_frontend_open, _release, dvb_unregister_frontend:
                        \* pc, the thread k that is looked at or being stopped
  call,                 \* the ioctl of a caller: pc, op
  eventr, eventw, overflow, slot,  \* fepriv->events; the events are numbered
  last, next, reported, \* history: the last event fetched, the next one to
                        \* expect, an overflow was reported since
  orphan,               \* history: open met a thread that was about to quit,
                        \* or that quit while it looked
  reinit, torn          \* history: sema_init with the semaphore in use or an up
                        \* without a down; the queue emptied by open while an
                        \* event was added, or read when it was empty

ev == <<eventr, eventw, overflow, slot>>
hist == <<last, next, reported, orphan, reinit, torn>>
vars == <<sem, exit, thread, state, kt, rw, ro, proc, call, eventr, eventw,
          overflow, slot, last, next, reported, orphan, reinit, torn>>

Threads == 1..MaxThreads
Slots == 0..(MAX_EVENT - 1)
KernelStates == {"none", "start", "wait", "want", "iter", "add", "quit", "sleep",
                 "null", "done"}

InUse == rw # "closed" \/ ro        \* users # -1
Freed == proc["unreg"].pc = "freed"

(* who holds the semaphore *)
Holders ==
  {c \in Callers : call[c].pc = "in"}
    \cup {t \in Threads : kt[t].pc \in {"start", "iter", "add", "sleep", "null"}}
    \cup {p \in {"open"} : proc[p].pc = "run"}

TPc(t, pc) == kt' = [kt EXCEPT ![t].pc = pc]
PPc(p, pc) == proc' = [proc EXCEPT ![p].pc = pc]
CPc(c, pc) == call' = [call EXCEPT ![c].pc = pc]
Leave(c) == call' = [call EXCEPT ![c] = [pc |-> "idle", op |-> "read"]]

Up == sem' = sem + 1
Down == sem > 0 /\ sem' = sem - 1

-----------------------------------------------------------------------------
(* The events. *)

(* mutant: the index is not wrapped *)
IncPastEnd(i) == i + 1

Inc(i) == (i + 1) % MAX_EVENT

(* dvb_frontend_add_event up to the store of eventw: number n is put in *)
(* mutant: the oldest event is overwritten and nobody told *)
PutSilently(n) ==
  /\ eventr' = IF Inc(eventw) = eventr THEN Inc(eventr) ELSE eventr
  /\ slot' = [slot EXCEPT ![eventw] = n]
  /\ UNCHANGED overflow

Put(n) ==
  /\ LET full == Inc(eventw) = eventr
     IN /\ overflow' = (overflow \/ full)
        /\ eventr' = IF full THEN Inc(eventr) ELSE eventr
  /\ slot' = [slot EXCEPT ![eventw] = n]

Added == IF \E i \in Slots : slot[i] > 0
         THEN CHOOSE n \in {slot[i] : i \in Slots} : \A i \in Slots : slot[i] <= n
         ELSE 0

(* dvb_frontend_get_event, the copy; the caller leaves the ioctl *)
Take ==
  /\ last' = slot[eventr] /\ next' = slot[eventr] + 1 /\ reported' = FALSE
  /\ eventr' = Inc(eventr)
  /\ UNCHANGED <<eventw, overflow, slot>>

-----------------------------------------------------------------------------
(* dvb_frontend_thread. *)

TStart(t) ==
  /\ kt[t].pc = "start"
  /\ TPc(t, "wait") /\ Up
  /\ UNCHANGED <<exit, thread, state, rw, ro, proc, call, ev, hist>>

(* dvb_frontend_is_exiting, or kthread_should_stop.  No writer: the        *)
(* shutdown timeout after the release, 0 by default, has passed.           *)
Exiting(t) == kt[t].stop \/ exit # "NO" \/ rw = "closed"

(* the wait ends by a wake-up or by its timeout: at any time *)
TWake(t) ==
  /\ kt[t].pc = "wait"
  /\ TPc(t, IF Exiting(t) THEN "quit" ELSE "want")
  /\ UNCHANGED <<sem, exit, thread, state, rw, ro, proc, call, ev, hist>>

TDown(t) ==
  /\ kt[t].pc = "want" /\ Down
  /\ TPc(t, "iter")
  /\ UNCHANGED <<exit, thread, state, rw, ro, proc, call, ev, hist>>

(* an iteration: a request is served; or nothing happens, ... *)
TIterate(t) ==
  /\ kt[t].pc = "iter"
  /\ state' = IF state = "RETUNE" THEN "TUNED" ELSE state
  /\ TPc(t, "wait") /\ Up
  /\ UNCHANGED <<exit, thread, rw, ro, proc, call, ev, hist>>

(* ... or the status has changed, and an event is added in two steps *)
TAddEvent(t) ==
  /\ kt[t].pc = "iter" /\ state = "TUNED" /\ Added < MaxEvents
  /\ Put(Added + 1)
  /\ kt' = [kt EXCEPT ![t].pc = "add", ![t].wp = Inc(eventw)]
  /\ UNCHANGED <<sem, exit, thread, state, rw, ro, proc, call, eventw, hist>>

TAdded(t) ==
  /\ kt[t].pc = "add"
  /\ eventw' = kt[t].wp
  /\ kt' = [kt EXCEPT ![t].pc = "wait", ![t].wp = 0] /\ Up
  /\ UNCHANGED <<exit, thread, state, rw, ro, proc, call, eventr, overflow, slot,
                 hist>>

(* the end of the loop *)
TQuit(t) ==
  /\ kt[t].pc = "quit" /\ Down
  /\ exit' = "NORMAL" /\ TPc(t, "sleep")
  /\ UNCHANGED <<thread, state, rw, ro, proc, call, ev, hist>>

TNull(t) ==
  /\ kt[t].pc = "sleep"
  /\ thread' = 0 /\ TPc(t, "null")
  /\ UNCHANGED <<sem, exit, state, rw, ro, proc, call, ev, hist>>

(* mutant: the semaphore is kept *)
TEndKeepsSem(t) ==
  /\ kt[t].pc = "null"
  /\ exit' = IF kt[t].stop THEN "REMOVED" ELSE "NO"
  /\ kt' = [kt EXCEPT ![t].pc = "done", ![t].stop = FALSE]
  /\ UNCHANGED <<sem, thread, state, rw, ro, proc, call, ev, hist>>

(* kthread_should_stop decides what is left in fepriv->exit; the thread and *)
(* its stop flag are gone                                                  *)
TEnd(t) ==
  /\ kt[t].pc = "null"
  /\ exit' = IF kt[t].stop THEN "REMOVED" ELSE "NO"
  /\ kt' = [kt EXCEPT ![t].pc = "done", ![t].stop = FALSE] /\ Up
  /\ UNCHANGED <<thread, state, rw, ro, proc, call, ev, hist>>

Thread(t) ==
  \/ TStart(t) \/ TWake(t) \/ TDown(t) \/ TIterate(t) \/ TAddEvent(t)
  \/ TAdded(t) \/ TQuit(t) \/ TNull(t) \/ TEnd(t)

-----------------------------------------------------------------------------
(* dvb_frontend_stop, called by p, which goes on at next.                  *)

StopExit(p) ==
  /\ proc[p].pc = "stop"
  /\ exit' = "NORMAL" /\ PPc(p, "stopping")
  /\ UNCHANGED <<sem, thread, state, kt, rw, ro, call, ev, hist>>

StopThread(p, then) ==
  /\ proc[p].pc = "stopping"
  /\ proc' = [proc EXCEPT ![p] = IF thread = 0 THEN [pc |-> then, k |-> 0]
                                 ELSE [pc |-> "killing", k |-> thread]]
  /\ UNCHANGED <<sem, exit, thread, state, kt, rw, ro, call, ev, hist>>

(* kthread_stop is given what was tested, or what a second load finds.     *)
(* With NULL the process dies there; with a thread that has ended, and may *)
(* have been freed, it dies or finds nothing to wait for.                  *)
StopKill(p) ==
  /\ proc[p].pc = "killing"
  /\ \E t \in {proc[p].k, thread} :
       \/ /\ t # 0
          /\ kt' = IF kt[t].pc = "done" THEN kt ELSE [kt EXCEPT ![t].stop = TRUE]
          /\ proc' = [proc EXCEPT ![p] = [pc |-> "joining", k |-> t]]
       \/ /\ t # 0 => kt[t].pc = "done"
          /\ PPc(p, "oops") /\ UNCHANGED kt
  /\ UNCHANGED <<sem, exit, thread, state, rw, ro, call, ev, hist>>

StopJoined(p, then) ==
  /\ proc[p].pc = "joining" /\ kt[proc[p].k].pc = "done"
  /\ sem' = 1 /\ reinit' = (reinit \/ Holders # {} \/ sem # 1)
  /\ state' = "IDLE"
  /\ proc' = [proc EXCEPT ![p] = [pc |-> then, k |-> 0]]
  /\ UNCHANGED <<exit, thread, kt, rw, ro, call, ev, last, next, reported, orphan,
                 torn>>

Stop(p, then) ==
  StopExit(p) \/ StopThread(p, then) \/ StopKill(p) \/ StopJoined(p, then)

-----------------------------------------------------------------------------
(* dvb_frontend_open of the writer, dvb_frontend_start.                    *)

Open ==
  /\ proc["open"].pc = "idle" /\ rw = "closed" /\ ~Freed /\ exit # "REMOVED"
  /\ rw' = "opening" /\ PPc("open", "start") /\ orphan' = FALSE
  /\ UNCHANGED <<sem, exit, thread, state, kt, ro, call, ev, last, next, reported,
                 reinit, torn>>

OpenStart ==
  /\ proc["open"].pc = "start"
  /\ proc' = [proc EXCEPT !["open"] = IF thread = 0 THEN [pc |-> "down", k |-> 0]
                                      ELSE [pc |-> "check", k |-> thread]]
  /\ UNCHANGED <<sem, exit, thread, state, kt, rw, ro, call, ev, hist>>

(* the open has met thread t: it will quit, or it has quit since *)
Orphaned(t) == exit = "NO" /\ kt[t].pc \in {"quit", "done"}

(* mutant: a thread that is on its way out is good enough *)
OpenCheckAnyThread ==
  /\ proc["open"].pc = "check"
  /\ proc' = [proc EXCEPT !["open"] = [pc |-> "events", k |-> 0]]
  /\ orphan' = Orphaned(proc["open"].k)
  /\ UNCHANGED <<sem, exit, thread, state, kt, rw, ro, call, ev, last, next,
                 reported, reinit, torn>>

(* fepriv->exit is read after fepriv->thread *)
OpenCheck ==
  /\ proc["open"].pc = "check"
  /\ proc' = [proc EXCEPT !["open"] =
                [pc |-> IF exit = "NO" THEN "events" ELSE "stop", k |-> 0]]
  /\ orphan' = Orphaned(proc["open"].k)
  /\ UNCHANGED <<sem, exit, thread, state, kt, rw, ro, call, ev, last, next,
                 reported, reinit, torn>>

(* mutant: the thread that is ending is not waited for *)
OpenDownAtOnce ==
  /\ proc["open"].pc = "down"
  /\ sem' = 0
  /\ state' = "IDLE" /\ exit' = "NO" /\ thread' = 0
  /\ PPc("open", "run")
  /\ UNCHANGED <<kt, rw, ro, call, ev, hist>>

OpenDown ==
  /\ proc["open"].pc = "down" /\ Down
  /\ state' = "IDLE" /\ exit' = "NO" /\ thread' = 0
  /\ PPc("open", "run")
  /\ UNCHANGED <<kt, rw, ro, call, ev, hist>>

(* kthread_run, and then the store to fepriv->thread *)
OpenRun(t) ==
  /\ proc["open"].pc = "run" /\ kt[t].pc = "none"
  /\ \A u \in Threads : u < t => kt[u].pc # "none"
  /\ TPc(t, "start")
  /\ proc' = [proc EXCEPT !["open"] = [pc |-> "created", k |-> t]]
  /\ UNCHANGED <<sem, exit, thread, state, rw, ro, call, ev, hist>>

OpenCreated ==
  /\ proc["open"].pc = "created"
  /\ thread' = proc["open"].k
  /\ proc' = [proc EXCEPT !["open"] = [pc |-> "events", k |-> 0]]
  /\ UNCHANGED <<sem, exit, state, kt, rw, ro, call, ev, hist>>

(* the event queue is emptied, with no lock held *)
OpenEvents ==
  /\ proc["open"].pc = "events"
  /\ eventr' = 0 /\ eventw' = 0
  /\ torn' = (\E t \in Threads : kt[t].pc = "add")
  /\ next' = Added + 1 /\ reported' = FALSE
  /\ rw' = "open" /\ PPc("open", "idle")
  /\ UNCHANGED <<sem, exit, thread, state, kt, ro, call, overflow, slot, last,
                 orphan, reinit>>

(* -EINTR, or kthread_run fails: dvb_generic_release and no wake-up *)
OpenFails ==
  /\ \/ proc["open"].pc = "down" /\ UNCHANGED sem
     \/ proc["open"].pc = "run" /\ Up
  /\ rw' = "closed" /\ PPc("open", "idle")
  /\ UNCHANGED <<exit, thread, state, kt, ro, call, ev, hist>>

(* dvb_frontend_release, of the writer or the reader.  The last user wakes *)
(* dvb_unregister_frontend if it sees that the frontend is going away.     *)
ReleaseWriter ==
  /\ rw = "open" /\ \A c \in Callers : call[c].pc # "idle" => call[c].op = "read"
  /\ proc["release"].pc = "idle"
  /\ rw' = "closed" /\ PPc("release", "wake")
  /\ UNCHANGED <<sem, exit, thread, state, kt, ro, call, ev, hist>>

WakeUnregister(ps) ==
  IF ps["unreg"].pc = "waiting" /\ exit # "NO" THEN [ps EXCEPT !["unreg"].pc = "free"]
  ELSE ps

ReleasedWriter ==
  /\ proc["release"].pc = "wake"
  /\ LET ps == [proc EXCEPT !["release"].pc = "idle"]
     IN proc' = IF InUse THEN ps ELSE WakeUnregister(ps)
  /\ UNCHANGED <<sem, exit, thread, state, kt, rw, ro, call, ev, hist>>

OpenReader ==
  /\ ~ro /\ proc["open"].pc = "idle" /\ ~Freed /\ exit # "REMOVED"
  /\ ro' = TRUE
  /\ UNCHANGED <<sem, exit, thread, state, kt, rw, proc, call, ev, hist>>

ReleaseReader ==
  /\ ro /\ \A c \in Callers : call[c].pc # "idle" => call[c].op # "read"
  /\ ro' = FALSE
  /\ proc' = IF rw = "closed" THEN WakeUnregister(proc) ELSE proc
  /\ UNCHANGED <<sem, exit, thread, state, kt, rw, call, ev, hist>>

User ==
  \/ Open \/ OpenStart \/ OpenCheck \/ Stop("open", "down") \/ OpenDown
  \/ (\E t \in Threads : OpenRun(t)) \/ OpenCreated \/ OpenEvents \/ OpenFails
  \/ ReleaseWriter \/ ReleasedWriter \/ OpenReader \/ ReleaseReader

-----------------------------------------------------------------------------
(* dvb_frontend_ioctl. *)

Call(c, op) ==
  /\ call[c].pc = "idle"
  /\ IF op = "read" THEN ro ELSE rw = "open"
  /\ call' = [call EXCEPT ![c] = [pc |-> "want", op |-> op]]
  /\ UNCHANGED <<sem, exit, thread, state, kt, rw, ro, proc, ev, hist>>

CallDown(c) ==
  /\ call[c].pc = "want" /\ Down
  /\ CPc(c, "in")
  /\ UNCHANGED <<exit, thread, state, kt, rw, ro, proc, ev, hist>>

(* -ENODEV, FE_READ_STATUS, parameters that are rejected, or a wait for an  *)
(* event that a signal ended                                                *)
CallReturns(c) ==
  /\ call[c].pc = "in" /\ call[c].op # "take"
  /\ exit # "NO" \/ call[c].op \in {"read", "set", "signal"}
  /\ Leave(c) /\ Up
  /\ UNCHANGED <<exit, thread, state, kt, rw, ro, proc, ev, hist>>

(* dtv_set_frontend: the events are cleared and one is added *)
CallSets(c) ==
  /\ call[c].pc = "in" /\ call[c].op = "set" /\ exit = "NO" /\ Added < MaxEvents
  /\ state' = "RETUNE"
  /\ slot' = [slot EXCEPT ![eventw] = Added + 1]
  /\ eventr' = eventw /\ eventw' = Inc(eventw)
  /\ next' = Added + 1 /\ reported' = FALSE
  /\ Leave(c) /\ Up
  /\ UNCHANGED <<exit, thread, kt, rw, ro, proc, overflow, last, orphan, reinit, torn>>

(* dvb_frontend_get_event: an overflow is reported first, then the oldest  *)
(* event is taken.  With none the call fails, or it waits without the      *)
(* semaphore and takes an event when it has it again.                      *)
CallGets(c) ==
  /\ call[c].pc = "in" /\ call[c].op = "get" /\ exit = "NO"
  /\ \/ /\ overflow /\ overflow' = FALSE /\ reported' = TRUE
        /\ Leave(c) /\ UNCHANGED <<eventr, eventw, slot, last, next>>
     \/ /\ ~overflow /\ eventw = eventr
        /\ Leave(c) \/ CPc(c, "waiting")
        /\ UNCHANGED <<ev, last, next, reported>>
     \/ /\ ~overflow /\ eventw # eventr
        /\ Take /\ Leave(c)
  /\ Up
  /\ UNCHANGED <<exit, thread, state, kt, rw, ro, proc, orphan, reinit, torn>>

CallWakes(c) ==
  /\ call[c].pc = "waiting" /\ eventw # eventr
  /\ call' = [call EXCEPT ![c] = [pc |-> "want", op |-> "take"]]
  /\ UNCHANGED <<sem, exit, thread, state, kt, rw, ro, proc, ev, hist>>

CallTakes(c) ==
  /\ call[c].pc = "in" /\ call[c].op = "take"
  /\ Take /\ Leave(c) /\ Up
  /\ torn' = (torn \/ eventw = eventr)
  /\ UNCHANGED <<exit, thread, state, kt, rw, ro, proc, orphan, reinit>>

(* A signal.  The wait for an event ends and takes the semaphore again;    *)
(* when a signal ends that too, get_event returns without the semaphore    *)
(* and dvb_frontend_ioctl releases it all the same.                        *)
CallInterrupted(c) ==
  /\ \/ /\ call[c].pc = "waiting"
        /\ call' = [call EXCEPT ![c] = [pc |-> "want", op |-> "signal"]]
        /\ UNCHANGED <<sem, reinit>>
     \/ /\ call[c].pc = "want" /\ call[c].op \notin {"take", "signal"}
        /\ Leave(c) /\ UNCHANGED <<sem, reinit>>
     \/ /\ call[c].pc = "want" /\ call[c].op \in {"take", "signal"}
        /\ Leave(c) /\ Up /\ reinit' = TRUE
  /\ UNCHANGED <<exit, thread, state, kt, rw, ro, proc, ev, last, next, reported,
                 orphan, torn>>

CallBody(c) == CallReturns(c) \/ CallSets(c) \/ CallGets(c) \/ CallTakes(c)

Ioctl(c) ==
  \/ (\E op \in {"read", "set", "get"} : Call(c, op)) \/ CallDown(c)
  \/ CallBody(c) \/ CallWakes(c) \/ CallInterrupted(c)

-----------------------------------------------------------------------------
(* dvb_unregister_frontend. *)

Unregister ==
  /\ Removable /\ proc["unreg"].pc = "idle"
  /\ PPc("unreg", "stop")
  /\ UNCHANGED <<sem, exit, thread, state, kt, rw, ro, call, ev, hist>>

UnregisterUsers ==
  /\ proc["unreg"].pc = "users"
  /\ PPc("unreg", IF InUse THEN "waiting" ELSE "free")
  /\ UNCHANGED <<sem, exit, thread, state, kt, rw, ro, call, ev, hist>>

(* dvb_unregister_device waits for an open in progress (minor_rwsem); kfree *)
UnregisterFree ==
  /\ proc["unreg"].pc = "free" /\ proc["open"].pc = "idle"
  /\ PPc("unreg", "freed")
  /\ UNCHANGED <<sem, exit, thread, state, kt, rw, ro, call, ev, hist>>

Driver == Unregister \/ Stop("unreg", "users") \/ UnregisterUsers \/ UnregisterFree

-----------------------------------------------------------------------------
(* dvb_register_frontend *)
Init ==
  /\ sem = 1 /\ exit = "NO" /\ thread = 0 /\ state = "IDLE"
  /\ kt = [t \in Threads |-> [pc |-> "none", stop |-> FALSE, wp |-> 0]]
  /\ rw = "closed" /\ ro = FALSE
  /\ proc = [p \in {"open", "release", "unreg"} |-> [pc |-> "idle", k |-> 0]]
  /\ call = [c \in Callers |-> [pc |-> "idle", op |-> "read"]]
  /\ eventr = 0 /\ eventw = 0 /\ overflow = FALSE
  /\ slot = [i \in Slots |-> 0]
  /\ last = 0 /\ next = 1 /\ reported = FALSE
  /\ orphan = FALSE /\ reinit = FALSE /\ torn = FALSE

(* once fepriv is freed what its users do is undefined *)
Next ==
  /\ ~Freed
  /\ \/ \E t \in Threads : Thread(t)
     \/ User
     \/ \E c \in Callers : Ioctl(c)
     \/ Driver

(* The scheduler runs the thread, whose waits all have a timeout, an ioctl *)
(* that has the semaphore and an open that holds it; a semaphore goes to   *)
(* its waiters in turn, so the thread gets it in the end.                  *)
Fairness ==
  /\ \A t \in Threads : WF_vars(~Freed /\ Thread(t)) /\ SF_vars(~Freed /\ TDown(t))
  /\ \A c \in Callers : WF_vars(~Freed /\ CallBody(c))

Spec == Init /\ [][Next]_vars /\ Fairness

-----------------------------------------------------------------------------
TypeOK ==
  /\ sem \in Nat /\ exit \in {"NO", "NORMAL", "REMOVED"}
  /\ thread \in 0..MaxThreads /\ state \in {"IDLE", "RETUNE", "TUNED"}
  /\ kt \in [Threads -> [pc : KernelStates, stop : BOOLEAN, wp : Slots]]
  /\ rw \in {"closed", "opening", "open"} /\ ro \in BOOLEAN
  /\ proc \in [{"open", "release", "unreg"} ->
                [pc : {"idle", "start", "check", "stop", "stopping", "killing", "joining",
                       "oops", "down", "run", "created", "events", "users", "waiting",
                       "free", "freed", "wake"},
                 k : 0..MaxThreads]]
  /\ call \in [Callers -> [pc : {"idle", "want", "in", "waiting"},
                           op : {"read", "set", "get", "take", "signal"}]]
  /\ eventr \in Slots /\ eventw \in Slots /\ overflow \in BOOLEAN
  /\ slot \in [Slots -> 0..MaxEvents]
  /\ last \in 0..MaxEvents /\ next \in 1..(MaxEvents + 1) /\ reported \in BOOLEAN
  /\ orphan \in BOOLEAN /\ reinit \in BOOLEAN /\ torn \in BOOLEAN

(* At most one of the thread, the ioctls and the start of a thread is in   *)
(* its critical section, unless dvb_frontend_stop has initialised the      *)
(* semaphore under its users (a reader's ioctl, or one that is on its way  *)
(* out with -ENODEV) or a signal has ended a wait for an event twice.      *)
SemIsMutex == ~reinit => sem + Cardinality(Holders) = 1

(* Never two threads that both work on the frontend, whatever opens,       *)
(* closes and threads that give up by themselves do to each other.         *)
OneThread ==
  ~reinit => \A t, u \in Threads :
    kt[t].pc \notin {"none", "done"} /\ kt[u].pc \notin {"none", "done"} => t = u

(* Events come in order and once; one that is missing was reported by      *)
(* -EOVERFLOW, or will be by the next call.  (Unless the queue was emptied *)
(* while an event was being added, or two calls have waited for one event: *)
(* get_event does not look at the queue again after its wait.)             *)
GapsReported ==
  [][last' # last /\ ~torn' /\ ~reinit =>
       /\ last' > last /\ last' >= next
       /\ last' = next \/ reported \/ overflow]_vars

(* A request is served, unless the file is closed, the frontend goes away, *)
(* or the open had found a thread that was about to quit, or that has quit *)
(* between its two looks.                                                  *)
Served ==
  state = "RETUNE" ~>
    state # "RETUNE" \/ rw # "open" \/ proc["unreg"].pc # "idle" \/ orphan

=============================================================================
