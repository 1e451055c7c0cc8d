------------------------------- MODULE Dmxdev -------------------------------
(***************************************************************************)
(* The demux device of one adapter (dvb-core/dmxdev.c) on top of the       *)
(* software demux's feed and filter tables (dvb-core/dvb_demux.c) and the  *)
(* SAA7231 feed counter that starts and stops the DMA (saa7231_dvb.c).     *)
(*                                                                         *)
(* Every ioctl runs under dmxdev->mutex, so an ioctl is one action.  Two   *)
(* things run beside them: the section callback, called by the interrupt   *)
(* handler, and the section timeout, which del_timer does not wait for.    *)
(*                                                                         *)
(* The ioctls are nests of calls that may fail half way, so the calls are  *)
(* operators from a state x to the set of their outcomes [x, ok].          *)
(***************************************************************************)
EXTENDS Integers, Sequences, FiniteSets, FiniteSetsExt

CONSTANTS NFilters,   \* dmxdev->filternum: demux files that can be open
          NFeeds,     \* dvb_demux.feednum
          FILTERNUM,  \* dvb_demux.filternum
          Pids,
          MaxPids,    \* bound: PIDs in one PES filter
          Timeouts,   \* values of "the section filter has a timeout"
          Decoders,   \* values of "the PES type is one of the decoder's"
          Failures    \* an interruptible lock, an allocation or a PID check may fail

ASSUME SizesAssumption ==
  NFilters \in Nat /\ NFeeds \in Nat /\ FILTERNUM \in Nat /\ MaxPids \in Nat
ASSUME ChoicesAssumption ==
  Timeouts \subseteq BOOLEAN /\ Decoders \subseteq BOOLEAN /\ Failures \in BOOLEAN

VARIABLES sys,    \* the tables, see TypeOK; sys.undone is history: a start
                  \* failed and left behind what it had begun
          open,   \* demux files that are open
          late    \* history: a timeout ran for a filter that was not started

vars == <<sys, open, late>>

Filters == 0 .. NFilters - 1
Feeds   == 0 .. NFeeds - 1

(* enum dmxdev_state and enum dmx_state, ordered as in the code *)
FREE      == 0
ALLOCATED == 1
SET       == 2
GO        == 3
DONE      == 4
TIMEDOUT  == 5

DMX_FREE      == 0
DMX_ALLOCATED == 1
DMX_READY     == 3
DMX_GO        == 4

NULL    == -1
Garbage == -2   \* feed.sec read after feed.ts was written to the same union

\* Parameters of a section or PES filter.
NoParams == [pid |-> NULL, oneshot |-> FALSE,
             timeout |-> FALSE, multi |-> FALSE, dec |-> FALSE]

-----------------------------------------------------------------------------
(* Outcomes. *)

Ok(x)   == {[x |-> x, ok |-> TRUE]}
Fail(x) == {[x |-> x, ok |-> FALSE]}

\* mutex_lock_interruptible or an allocation, then R.
Fallible(x, R) == R \cup IF Failures THEN Fail(x) ELSE {}

\* F runs if the call before it succeeded; F runs in any case.
Then(R, F(_))  == UNION {IF r.ok THEN F(r.x) ELSE {r} : r \in R}
Always(R, F(_)) == UNION {F(r.x) : r \in R}

Oops(x) == Fail([x EXCEPT !.oops = TRUE])

-----------------------------------------------------------------------------
(* saa7231_dvb.c: u8 feeds counts the feeds; the first one starts the DMA   *)
(* and the last one stops it.  Without a frontend start_feed returns       *)
(* -EINVAL (see its callers) and stop_feed does nothing.                   *)

\* Mutant: the DMA is started for the second feed.
start_feed_late(x) == LET n == (x.feeds + 1) % 256 IN
  [x EXCEPT !.feeds = n, !.dma = @ \/ n = 2]

start_feed(x) == LET n == (x.feeds + 1) % 256 IN
  [x EXCEPT !.feeds = n, !.dma = @ \/ n = 1]

stop_feed(x)  == LET n == (x.feeds + 255) % 256 IN
  IF ~x.fe THEN x ELSE [x EXCEPT !.feeds = n, !.dma = @ /\ n # 0]

-----------------------------------------------------------------------------
(* dvb_demux.c *)

FreeFeeds(x) == {d \in Feeds : x.feed[d].state = DMX_FREE}

\* TS feed i of filter f.  The pointer is stored before the demux filter is
\* allocated, and stays there if that fails.  The caller then sets priv.
allocate_ts_feed(x, f, i) ==
  Fallible(x,
    IF FreeFeeds(x) = {} THEN Fail(x)
    ELSE LET d == Min(FreeFeeds(x))
             y == [x EXCEPT !.flt[f].ts[i].ts = d,
                            !.feed[d].sec = FALSE, !.feed[d].isf = FALSE,
                            !.feed[d].priv = NULL]
         IN IF x.nfilt = FILTERNUM THEN Fail(y)
            ELSE Ok([y EXCEPT !.feed[d].state = DMX_ALLOCATED, !.nfilt = @ + 1,
                              !.feed[d].priv = f]))

\* Only one feed at a time may use a decoder PES type.
ts_set(x, d, pid, dec) ==
  Fallible(x,
    IF dec /\ x.pesfilter \notin {NULL, d} THEN Fail(x)
    ELSE Ok([x EXCEPT !.pesfilter = IF dec THEN d ELSE @,
                      !.feed[d].pid = pid, !.feed[d].dec = dec,
                      !.feed[d].state = DMX_READY]))

ts_start(x, d) ==
  Fallible(x,
    IF x.feed[d].state # DMX_READY \/ x.feed[d].sec \/ ~x.fe THEN Fail(x)
    ELSE Ok([start_feed(x) EXCEPT !.feed[d].isf = TRUE, !.feed[d].state = DMX_GO]))

\* A NULL feed is dereferenced; on a feed that has become a section feed the
\* two structures of the union are mixed up.
ts_stop(x, d) ==
  IF d = NULL THEN Oops(x)
  ELSE IF x.feed[d].state < DMX_GO THEN Fail(x)
  ELSE IF x.feed[d].sec THEN Oops(x)
  ELSE Ok([stop_feed(x) EXCEPT !.feed[d].isf = FALSE, !.feed[d].state = DMX_ALLOCATED])

\* The pid is 0xffff again.  What else a free feed holds is set again when it
\* is allocated, except the ts_type.
Freed(fd) == [fd EXCEPT !.state = DMX_FREE, !.pid = NULL, !.priv = NULL, !.sec = FALSE]

\* Mutant: the demux filter of the feed is not freed.
release_ts_feed_leaks(x, d) ==
  IF d = NULL THEN Oops(x)
  ELSE IF x.feed[d].state = DMX_FREE THEN Fail(x)
  ELSE Ok([x EXCEPT !.feed[d] = Freed(@),
                    !.pesfilter = IF x.feed[d].dec THEN NULL ELSE @])

\* The PES type is given up if the feed's ts_type says so, whoever set it.
release_ts_feed(x, d) ==
  IF d = NULL THEN Oops(x)
  ELSE IF x.feed[d].state = DMX_FREE THEN Fail(x)
  ELSE IF x.feed[d].sec THEN Oops(x)
  ELSE Ok([x EXCEPT !.feed[d] = Freed(@), !.nfilt = @ - 1,
                    !.pesfilter = IF x.feed[d].dec THEN NULL ELSE @])

allocate_section_feed(x, f) ==
  Fallible(x,
    IF FreeFeeds(x) = {} THEN Fail(x)
    ELSE LET d == Min(FreeFeeds(x)) IN
         Ok([x EXCEPT !.flt[f].sec = d,
                      !.feed[d] = [@ EXCEPT !.state = DMX_ALLOCATED, !.sec = TRUE,
                                            !.isf = FALSE, !.fl = [g \in Filters |-> 0]]]))

section_set(x, d, pid) ==
  Fallible(x, Ok([x EXCEPT !.feed[d].pid = pid, !.feed[d].state = DMX_READY]))

\* Mutant: the table is never full.
allocate_filter_unbounded(x, f) ==
  LET d == x.flt[f].sec IN
  Fallible(x, Ok([x EXCEPT !.nfilt = @ + 1, !.flt[f].sf = d, !.feed[d].fl[f] = @ + 1]))

allocate_filter(x, f) ==
  LET d == x.flt[f].sec IN
  Fallible(x,
    IF x.nfilt = FILTERNUM THEN Fail(x)
    ELSE Ok([x EXCEPT !.nfilt = @ + 1, !.flt[f].sf = d, !.feed[d].fl[f] = @ + 1]))

\* No caller undoes what it did before a feed that could run does not start.
section_start(x, d) ==
  LET fails == Fail([x EXCEPT !.undone = TRUE])
  IN IF x.feed[d].isf \/ \A g \in Filters : x.feed[d].fl[g] = 0 THEN Fail(x)
     ELSE IF ~x.fe THEN fails
     ELSE Ok([start_feed(x) EXCEPT !.feed[d].isf = TRUE, !.feed[d].state = DMX_GO])
            \cup IF Failures THEN fails ELSE {}

\* Unlike its TS counterpart this one looks at no state first.
section_stop(x, d) ==
  Ok([stop_feed(x) EXCEPT !.feed[d].isf = FALSE, !.feed[d].state = DMX_READY])

\* Called with the demux mutex, on a filtering feed stop_filtering would lock
\* it again; a filter that is not in the feed's list runs off the list.
release_filter(x, f) ==
  LET d == x.flt[f].sec IN
  IF x.flt[f].sf # d THEN Fail(x)
  ELSE IF x.feed[d].isf THEN Fail([x EXCEPT !.stuck = TRUE])
  ELSE IF x.feed[d].fl[f] = 0 THEN Oops(x)
  ELSE Ok([x EXCEPT !.nfilt = @ - 1, !.feed[d].fl[f] = @ - 1])

release_section_feed(x, d) ==
  IF x.feed[d].state = DMX_FREE THEN Fail(x)
  ELSE Ok([x EXCEPT !.feed[d] = Freed(@)])

-----------------------------------------------------------------------------
(* dmxdev.c *)

\* F applied to every feed of PES filter f, from the head of the list.
ForEach(x, f, F(_, _)) ==
  LET step[i \in 0 .. Len(x.flt[f].ts)] ==
        IF i = 0 THEN Ok(x) ELSE Always(step[i - 1], LAMBDA y : F(y, i))
  IN step[Len(x.flt[f].ts)]

\* Mutant: the filter is marked and its feed goes on.
feed_stop_only_marks(x, f) == Ok([x EXCEPT !.flt[f].state = SET])

feed_stop(x, f) ==
  LET y == [x EXCEPT !.flt[f].state = SET] IN
  CASE x.flt[f].type = "SEC" ->
         IF x.flt[f].sec \notin Feeds THEN Oops(y)
         ELSE section_stop([y EXCEPT !.flt[f].armed = FALSE], x.flt[f].sec)
    [] x.flt[f].type = "PES" -> ForEach(y, f, LAMBDA z, i : ts_stop(z, z.flt[f].ts[i].ts))
    [] OTHER -> Fail(y)

\* Reached for section filters only (feed_restart).
feed_start(x, f) ==
  LET y == [x EXCEPT !.flt[f].state = GO] IN
  IF x.flt[f].sec \notin Feeds THEN Oops(y) ELSE section_start(y, x.flt[f].sec)

\* Mutant: any active section filter will do.
Sharing_any_pid(x, pid) ==
  {g \in Filters : x.flt[g].state >= GO /\ x.flt[g].type = "SEC"}

\* Filters that keep the section feed of a PID in use.
Sharing(x, pid) ==
  {g \in Filters : x.flt[g].state >= GO /\ x.flt[g].type = "SEC" /\ x.flt[g].par.pid = pid}

\* Mutant: the feed is released although others use it.
feed_restart_releases(x, f) == release_section_feed(x, x.flt[f].sec)

feed_restart(x, f) ==
  LET S == Sharing(x, x.flt[f].par.pid) IN
  IF S # {} THEN feed_start(x, Min(S)) ELSE release_section_feed(x, x.flt[f].sec)

\* Every feed of a PES filter is released and its pointer cleared.
release_ts_feeds(x, f) ==
  ForEach(x, f, LAMBDA y, i :
    Always(release_ts_feed(y, y.flt[f].ts[i].ts), LAMBDA z :
      Ok([z EXCEPT !.flt[f].ts[i].ts = NULL])))

\* The results of the calls are not looked at.
filter_stop(x, f) ==
  IF x.flt[f].state < GO THEN Ok(x)
  ELSE CASE x.flt[f].type = "SEC" /\ x.flt[f].sec = NULL -> Ok(x)
         [] x.flt[f].type = "SEC" /\ x.flt[f].sec # NULL ->
              Always(feed_stop(x, f), LAMBDA y :
              IF y.oops THEN Ok(y) ELSE
              Always(IF y.flt[f].sf = NULL THEN Ok(y) ELSE release_filter(y, f), LAMBDA z :
              Always(feed_restart(z, f), LAMBDA w :
                 Ok([w EXCEPT !.flt[f].sec = NULL]))))
         [] x.flt[f].type = "PES" ->
              Always(feed_stop(x, f), LAMBDA y :
              IF y.oops THEN Ok(y) ELSE release_ts_feeds(y, f))
         [] OTHER -> Fail(x)

\* params and feed are dead once the type is NONE: both kinds of filter set
\* them before they read them.
filter_reset(x, f) ==
  IF x.flt[f].state < SET THEN x
  ELSE [x EXCEPT !.flt[f].ts = IF x.flt[f].type = "PES" THEN <<>> ELSE @,
                 !.flt[f].type = "NONE", !.flt[f].par = NoParams,
                 !.flt[f].state = ALLOCATED]

\* A failure after the allocation releases the feed and leaves feed->ts.
dmxdev_start_feed(x, f, i) ==
  LET tsfeed(y) == y.flt[f].ts[i].ts
      orRelease(R, d) ==
        UNION {IF r.ok THEN {r} ELSE {[q EXCEPT !.ok = FALSE] : q \in release_ts_feed(r.x, d)}
               : r \in R}
  IN Then(allocate_ts_feed([x EXCEPT !.flt[f].ts[i].ts = NULL], f, i), LAMBDA y :
       Then(orRelease(ts_set(y, tsfeed(y), y.flt[f].ts[i].pid, y.flt[f].par.dec), tsfeed(y)),
            LAMBDA z : orRelease(ts_start(z, tsfeed(z)), tsfeed(z))))

\* A section filter joins the feed of an active filter with its PID or gets a
\* new one.
start_sec(x0, f) ==
  LET pid   == x0.flt[f].par.pid
      x     == [x0 EXCEPT !.flt[f].sf = NULL, !.flt[f].sec = NULL]
      S     == Sharing(x, pid)
      found == IF S = {} THEN NULL ELSE x.flt[Min(S)].sec
      orRestart(R) ==
        UNION {IF r.ok THEN {r}
               ELSE Always(feed_restart(r.x, f), LAMBDA y : Fail(y)) : r \in R}
      feed  == IF found = NULL
                 THEN Then(allocate_section_feed(x, f), LAMBDA y :
                        orRestart(section_set(y, y.flt[f].sec, pid)))
                 ELSE feed_stop([x EXCEPT !.flt[f].sec = found], f)
      attached == Then(feed, LAMBDA y :
        UNION {IF r.ok THEN {r}
               ELSE Always(feed_restart(r.x, f), LAMBDA z :
                    Always(section_start(z, z.flt[f].sec), LAMBDA w : Fail(w)))
               : r \in allocate_filter(y, f)})
  IN Then(attached, LAMBDA y : Then(section_start(y, y.flt[f].sec), LAMBDA z :
       Ok([z EXCEPT !.flt[f].armed = z.flt[f].par.timeout])))

\* The filter is not started, and filter_stop leaves it as it is: the feeds of
\* the PIDs before run on, and a pointer may be left to one that is free.
start_pes(x, f) ==
  LET left(y) == [y EXCEPT !.undone = @ \/ \E i \in DOMAIN y.flt[f].ts :
                                             y.flt[f].ts[i].ts # NULL]
      step[i \in 0 .. Len(x.flt[f].ts)] ==
        IF i = 0 THEN Ok(x) ELSE Then(step[i - 1], LAMBDA y : dmxdev_start_feed(y, f, i))
  IN UNION {IF r.ok THEN {r} ELSE Always(filter_stop(r.x, f), LAMBDA y : Fail(left(y)))
            : r \in step[Len(x.flt[f].ts)]}

filter_start(x, f) ==
  IF x.flt[f].state < SET THEN Fail(x)
  ELSE LET stopped == IF x.flt[f].state >= GO THEN filter_stop(x, f) ELSE Ok(x)
       IN Always(stopped, LAMBDA y : IF y.oops THEN Ok(y) ELSE Fallible(y,
            Then(CASE y.flt[f].type = "SEC" -> start_sec(y, f)
                   [] y.flt[f].type = "PES" -> start_pes(y, f)
                   [] OTHER -> Fail(y),
                 LAMBDA z : Ok([z EXCEPT !.flt[f].state = GO]))))

\* list_add puts the new PID first, where it stays when its feed cannot start.
add_pid(x, f, pid) ==
  IF \/ x.flt[f].type # "PES" \/ x.flt[f].state < SET
     \/ ~x.flt[f].par.multi /\ x.flt[f].ts # <<>>
    THEN Fail(x)
    ELSE LET y == [x EXCEPT !.flt[f].ts = <<[pid |-> pid, ts |-> NULL]>> \o @]
         IN Fallible(x, IF x.flt[f].state < GO THEN Ok(y)
                        ELSE {IF r.ok THEN r ELSE [r EXCEPT !.x.undone = TRUE]
                              : r \in dmxdev_start_feed(y, f, 1)})

\* Entries that have no feed stay.
remove_pid(x, f, pid) ==
  IF x.flt[f].type # "PES" \/ x.flt[f].state < SET THEN Fail(x)
  ELSE LET gone(e) == e.pid = pid /\ e.ts # NULL IN
       Always(ForEach(x, f, LAMBDA y, i :
                IF gone(y.flt[f].ts[i])
                  THEN Always(ts_stop(y, y.flt[f].ts[i].ts), LAMBDA z :
                         release_ts_feed(z, z.flt[f].ts[i].ts))
                  ELSE Ok(y)),
              LAMBDA y : Ok([y EXCEPT !.flt[f].ts = SelectSeq(@, LAMBDA e : ~gone(e))]))

\* The list of a former PES filter is not freed, only overwritten.
filter_set(x, f, par, now) ==
  Always(filter_stop(x, f), LAMBDA y :
    LET z == [y EXCEPT !.flt[f].type = "SEC", !.flt[f].par = par, !.flt[f].ts = <<>>,
                       !.flt[f].state = SET]
    IN IF y.oops \/ ~now THEN Ok(z) ELSE filter_start(z, f))

\* A PES type out of range is refused after the filter has been reset.
pes_filter_set(x, f, par, valid, now) ==
  Always(filter_stop(x, f), LAMBDA y :
    LET z == [filter_reset(y, f) EXCEPT !.flt[f].type = "PES", !.flt[f].par = par,
                                        !.flt[f].ts = <<>>, !.flt[f].sec = Garbage,
                                        !.flt[f].state = SET]
    IN IF ~valid THEN Fail(filter_reset(y, f))
       ELSE Then(add_pid(z, f, par.pid), LAMBDA w :
         IF y.oops \/ ~now THEN Ok(w) ELSE filter_start(w, f)))

-----------------------------------------------------------------------------
(* The actions. *)

Init ==
  /\ sys = [flt  |-> [f \in Filters |->
                       [state |-> FREE, type |-> "NONE", par |-> NoParams, ts |-> <<>>,
                        sec |-> NULL, sf |-> NULL, armed |-> FALSE, firing |-> FALSE]],
            feed |-> [d \in Feeds |->
                       [state |-> DMX_FREE, sec |-> FALSE, isf |-> FALSE, dec |-> FALSE,
                        pid |-> NULL, priv |-> NULL, fl |-> [f \in Filters |-> 0]]],
            nfilt |-> 0, pesfilter |-> NULL, feeds |-> 0, dma |-> FALSE, fe |-> FALSE,
            oops |-> FALSE, stuck |-> FALSE, undone |-> FALSE]
  /\ open = {} /\ late = FALSE

Alive == ~sys.oops /\ ~sys.stuck

Becomes(R) == \E r \in R : sys' = r.x

Ioctl(f, R) == /\ Alive /\ f \in open
               /\ Becomes(R)
               /\ UNCHANGED <<open, late>>

\* saa7231_dvb_init connects the frontend after it has registered the device.
Connect ==
  /\ ~sys.fe /\ sys' = [sys EXCEPT !.fe = TRUE]
  /\ UNCHANGED <<open, late>>

\* dvb_demux_open takes the first free filter.
Open ==
  LET free == {f \in Filters : sys.flt[f].state = FREE} IN
  /\ Alive /\ free # {}
  /\ sys' = [sys EXCEPT !.flt[Min(free)].type = "NONE", !.flt[Min(free)].state = ALLOCATED,
                        !.flt[Min(free)].armed = FALSE]
  /\ open' = open \cup {Min(free)}
  /\ UNCHANGED late

\* dvb_demux_release
Release(f) ==
  /\ Alive /\ f \in open
  /\ \E r \in filter_stop(sys, f) :
        sys' = [filter_reset(r.x, f) EXCEPT !.flt[f].state = FREE]
  /\ open' = open \ {f}
  /\ UNCHANGED late

SetFilter(f) ==
  \E pid \in Pids, oneshot, now \in BOOLEAN, t \in Timeouts :
    Ioctl(f, filter_set(sys, f, [NoParams EXCEPT !.pid = pid, !.oneshot = oneshot,
                                                 !.timeout = t], now))

SetPesFilter(f) ==
  \/ \E pid \in Pids, multi \in {MaxPids > 1, FALSE}, now \in BOOLEAN, dec \in Decoders :
       Ioctl(f, pes_filter_set(sys, f, [NoParams EXCEPT !.pid = pid, !.dec = dec,
                                                        !.multi = multi], TRUE, now))
  \/ Ioctl(f, pes_filter_set(sys, f, NoParams, FALSE, FALSE))

Start(f) == Ioctl(f, filter_start(sys, f))
Stop(f)  == Ioctl(f, filter_stop(sys, f))

AddPid(f) ==
  /\ Len(sys.flt[f].ts) < MaxPids
  /\ \E pid \in Pids : Ioctl(f, add_pid(sys, f, pid))

RemovePid(f) == \E pid \in Pids : Ioctl(f, remove_pid(sys, f, pid))

\* The interrupt handler found a section for f on a filtering feed:
\* dvb_dmxdev_section_callback.
SectionArrives(f) ==
  /\ Alive
  /\ \E d \in Feeds : sys.feed[d].sec /\ sys.feed[d].isf /\ sys.feed[d].fl[f] > 0
  /\ sys.flt[f].state = GO
  /\ sys' = [sys EXCEPT !.flt[f].armed = FALSE,
                        !.flt[f].state = IF sys.flt[f].par.oneshot THEN DONE ELSE GO]
  /\ UNCHANGED <<open, late>>

\* The timer expires: from here del_timer no longer stops the function ...
TimerExpires(f) ==
  /\ Alive /\ sys.flt[f].armed
  /\ sys' = [sys EXCEPT !.flt[f].armed = FALSE, !.flt[f].firing = TRUE]
  /\ UNCHANGED <<open, late>>

\* ... dvb_dmxdev_filter_timeout, which sets the state whatever it was.
TimerRuns(f) ==
  /\ Alive /\ sys.flt[f].firing
  /\ sys' = [sys EXCEPT !.flt[f].firing = FALSE, !.flt[f].state = TIMEDOUT]
  /\ late' = (late \/ sys.flt[f].state < GO)
  /\ UNCHANGED open

Next == \/ Connect \/ Open
        \/ \E f \in Filters :
             \/ Release(f) \/ SetFilter(f) \/ SetPesFilter(f) \/ Start(f) \/ Stop(f)
             \/ AddPid(f) \/ RemovePid(f)
             \/ SectionArrives(f) \/ TimerExpires(f) \/ TimerRuns(f)

Spec == Init /\ [][Next]_vars

-----------------------------------------------------------------------------
(* Properties. *)

TypeOK ==
  /\ sys.flt \in [Filters ->
       [state : FREE .. TIMEDOUT, type : {"NONE", "SEC", "PES"},
        par : [pid : Pids \cup {NULL}, oneshot : BOOLEAN, timeout : BOOLEAN, multi : BOOLEAN,
               dec : BOOLEAN],
        ts : UNION {[1 .. n -> [pid : Pids, ts : Feeds \cup {NULL}]] : n \in 0 .. MaxPids},
        sec : Feeds \cup {NULL, Garbage}, sf : Feeds \cup {NULL},
        armed : BOOLEAN, firing : BOOLEAN]]
  /\ sys.feed \in [Feeds ->
       [state : {DMX_FREE, DMX_ALLOCATED, DMX_READY, DMX_GO}, sec : BOOLEAN,
        isf : BOOLEAN, dec : BOOLEAN, pid : Pids \cup {NULL}, priv : Filters \cup {NULL},
        fl : [Filters -> 0 .. FILTERNUM]]]
  /\ sys.nfilt \in 0 .. FILTERNUM /\ sys.pesfilter \in Feeds \cup {NULL}
  /\ sys.feeds \in 0 .. 255
  /\ {sys.dma, sys.fe, sys.oops, sys.stuck, sys.undone, late} \subseteq BOOLEAN
  /\ open \subseteq Filters

Filtering == {d \in Feeds : sys.feed[d].isf}

\* The properties below are about the behaviours before two things go wrong:
\* a timeout runs for a filter that was stopped since (late), or a start that
\* fails leaves something behind (sys.undone): the feeds of a PES filter's
\* first PIDs, a feed pointer that is NULL or free in its list, a section feed
\* that other files use and that was not started again.  A start that fails
\* on a full table or an allocation and is undone is part of them.
Sound == ~late /\ ~sys.undone

\* saa7231_dvb_start_feed and saa7231_dvb_stop_feed count the feeds that
\* filter, and the DMA runs exactly while there is one: through shared section
\* feeds, restarts, re-configured filters and the failed starts that are undone.
FeedsCounted ==
  Sound => /\ sys.feeds = Cardinality(Filtering)
           /\ sys.dma <=> Filtering # {}

\* Filter f gets what it asked for: its feeds filter, on its PIDs.
Fed(f) ==
  LET r == sys.flt[f] IN
  CASE r.type = "SEC" -> /\ r.sec \in Filtering
                         /\ sys.feed[r.sec].sec /\ sys.feed[r.sec].pid = r.par.pid
                         /\ sys.feed[r.sec].fl[f] = 1
    [] r.type = "PES" -> \A i \in DOMAIN r.ts :
                           /\ r.ts[i].ts \in Filtering
                           /\ sys.feed[r.ts[i].ts].priv = f
                           /\ sys.feed[r.ts[i].ts].pid = r.ts[i].pid
    [] OTHER -> FALSE

\* "restart section feed if it has filters left associated with it": whatever
\* the other files do, a started filter stays fed (dvb_dmxdev_feed_restart,
\* dvb_dmxdev_filter_start), also when their start fails on a full table and
\* is undone.
StartedIsFed == Sound => \A f \in Filters : sys.flt[f].state >= GO => Fed(f)

\* Feeds and demux filters in use are exactly those of the started filters:
\* a failed start that is undone leaks nothing, nothing is freed twice, and
\* started section filters with one PID share one feed (dvb_demux.c tables
\* under the paths of dmxdev.c).
TablesAccountedFor ==
  LET started(t) == {f \in Filters : sys.flt[f].state >= GO /\ sys.flt[f].type = t}
      secFeeds   == {sys.flt[f].sec : f \in started("SEC")}
      tsFeeds    == UNION {{sys.flt[f].ts[i].ts : i \in DOMAIN sys.flt[f].ts} : f \in started("PES")}
  IN Sound =>
       /\ {d \in Feeds : sys.feed[d].state # DMX_FREE} = secFeeds \cup tsFeeds
       /\ sys.nfilt = Cardinality(started("SEC")) + Cardinality(tsFeeds)
       /\ Cardinality(secFeeds) = Cardinality({sys.flt[f].par.pid : f \in started("SEC")})

\* A section reaches a file only through the feed of the PID it asked for
\* (dvb_dmxdev_section_callback with the filter lists of dvb_demux.c).
SectionsMatch ==
  Sound => \A d \in Feeds, f \in Filters :
    sys.feed[d].isf /\ sys.feed[d].sec /\ sys.feed[d].fl[f] > 0 /\ sys.flt[f].state = GO
    => sys.flt[f].par.pid = sys.feed[d].pid

\* release_filter never has to stop a feed itself: it would take the demux
\* mutex that it holds.  No NULL or foreign feed is ever dereferenced.
NoLockup == Sound => Alive

=============================================================================
