----------------------------- MODULE RateLimiter -----------------------------
(***************************************************************************)
(* The sliding-window rate limiter of the ACME client (ratelimiter.go): a  *)
(* ring of the times of the last events, a goroutine (loop) that hands out *)
(* tickets over an unbuffered channel, and callers that wait for a ticket, *)
(* reconfigure the limiter or stop it at any moment.                       *)
(*                                                                         *)
(* A time is represented by its age, up to MaxWindow: no window is larger, *)
(* so older events are all alike, and so is the zero time of an unused     *)
(* slot.  The loop is split where it gives up or ignores the mutex: the    *)
(* tests of len(ring) and of window are made without it, the wait is       *)
(* computed under it and used after it, and an event is recorded after its *)
(* ticket was taken.                                                       *)
(***************************************************************************)
EXTENDS Integers, Sequences, FiniteSets

CONSTANTS
    Caller,         \* goroutines that call Wait or Allow
    EventLimit,     \* the values of maxEvents in use
    MaxWindow       \* the largest window in use, in ticks of the clock

ASSUME EventLimitAssumption == EventLimit \subseteq Nat /\ EventLimit # {0}
ASSUME MaxWindowAssumption == MaxWindow \in Nat

Age == 0 .. MaxWindow

VARIABLES
    ring,       \* ages of the recorded events; maxEvents is the ring's length
    cursor,
    window,
    stuck,      \* whether the mutex was left locked by a panic
    loop,       \* the program point of the goroutine
    wait,       \* how long until `then'
    stopped,    \* whether the stopped channel is closed
    queue,      \* callers blocked in Wait, in the order the channel serves them
    events      \* ages of the tickets taken since the last reconfiguration

limitVars == <<ring, cursor, window>>
limiterVars == <<ring, cursor, window, stuck, loop, wait, stopped, queue, events>>

MaxEvents == Cardinality(DOMAIN ring)

\* The types of the variables (RingBufferRateLimiter and its callers).
LimiterTypeOK ==
    /\ \E n \in EventLimit : ring \in [0 .. n - 1 -> Age]
    /\ cursor \in Nat /\ (cursor < MaxEvents \/ cursor = 0)
    /\ window \in Age
    /\ MaxEvents = 0 => window = 0
    /\ stuck \in BOOLEAN
    /\ loop \in {"top", "readWindow", "lock", "sleep", "permit", "record", "ended", "dead"}
    /\ wait \in Age
    /\ stopped \in BOOLEAN
    /\ queue \in Seq(Caller)
    /\ events \in Seq(Age)

EmptyRing(n) == [i \in 0 .. n - 1 |-> MaxWindow]

\* NewRateLimiter returns when its goroutine is ready to give a ticket.
LimiterInit ==
    /\ \E n \in EventLimit : ring = EmptyRing(n)
    /\ cursor = 0
    /\ window \in Age
    /\ MaxEvents = 0 => window = 0
    /\ stuck = FALSE
    /\ loop = "permit"
    /\ wait = 0
    /\ stopped = FALSE
    /\ queue = <<>>
    /\ events = <<>>

Advance(c) == IF c + 1 >= MaxEvents THEN 0 ELSE c + 1

-----------------------------------------------------------------------------
(* loop *)

\* The stop signal is looked for, then len(ring) is read without the mutex.
LoopTop ==
    /\ loop = "top"
    /\ loop' = IF stopped THEN "ended" ELSE IF MaxEvents = 0 THEN "readWindow" ELSE "lock"
    /\ UNCHANGED <<limitVars, stuck, wait, stopped, queue, events>>

\* The window is read without the mutex; a non-zero one is a panic, which
\* ends the goroutine.
ReadWindow ==
    /\ loop = "readWindow"
    /\ loop' = IF window = 0 THEN "permit" ELSE "dead"
    /\ UNCHANGED <<limitVars, stuck, wait, stopped, queue, events>>

\* The time at the cursor is read under the mutex.  If the ring has been
\* emptied since its length was tested, that is an index out of range: the
\* panic is recovered at the top of the goroutine and the mutex stays locked.
ComputeWait ==
    /\ loop = "lock"
    /\ ~stuck
    /\ \/ /\ MaxEvents > 0
          /\ wait' = IF ring[cursor] < window THEN window - ring[cursor] ELSE 0
          /\ loop' = "sleep"
          /\ UNCHANGED stuck
       \/ /\ MaxEvents = 0
          /\ stuck' = TRUE
          /\ loop' = "dead"
          /\ UNCHANGED wait
    /\ UNCHANGED <<limitVars, stopped, queue, events>>

WaitOver ==
    /\ loop = "sleep"
    /\ wait = 0
    /\ loop' = "permit"
    /\ UNCHANGED <<limitVars, stuck, wait, stopped, queue, events>>

\* The stop signal is received in one of the two blocking selects.  permit
\* returns to the loop, which looks for the signal first.
ReceiveStop ==
    /\ stopped
    /\ \/ loop = "sleep" /\ loop' = "ended"
       \/ loop = "permit" /\ loop' = "top"
    /\ UNCHANGED <<limitVars, stuck, wait, stopped, queue, events>>

\* A ticket is taken: the event happens now.  It is remembered while the
\* limiter limits at all.
Ticket ==
    /\ loop = "permit"
    /\ loop' = "record"
    /\ events' = IF window = 0 THEN events ELSE Append(events, 0)
    /\ UNCHANGED <<limitVars, stuck, wait, stopped>>

\* The channel serves the caller that has waited longest.
GiveTicket ==
    /\ queue # <<>>
    /\ Ticket
    /\ queue' = Tail(queue)

\* Mutant of RecordEvent: the mutex is not unlocked.
RecordWithoutUnlock ==
    /\ loop = "record" /\ ~stuck
    /\ IF MaxEvents > 0
          THEN ring' = [ring EXCEPT ![cursor] = 0] /\ cursor' = Advance(cursor)
          ELSE UNCHANGED <<ring, cursor>>
    /\ stuck' = TRUE
    /\ loop' = "top"
    /\ UNCHANGED <<window, wait, stopped, queue, events>>

\* Mutant of RecordEvent: permit goes round again instead of returning.
RecordAndPermit ==
    /\ loop = "record" /\ ~stuck
    /\ IF MaxEvents > 0
          THEN ring' = [ring EXCEPT ![cursor] = 0] /\ cursor' = Advance(cursor)
          ELSE UNCHANGED <<ring, cursor>>
    /\ loop' = "permit"
    /\ UNCHANGED <<window, stuck, wait, stopped, queue, events>>

\* The rest of permit: the current time replaces the one at the cursor.
RecordEvent ==
    /\ loop = "record"
    /\ ~stuck
    /\ IF MaxEvents > 0
          THEN ring' = [ring EXCEPT ![cursor] = 0] /\ cursor' = Advance(cursor)
          ELSE UNCHANGED <<ring, cursor>>
    /\ loop' = "top"
    /\ UNCHANGED <<window, stuck, wait, stopped, queue, events>>

-----------------------------------------------------------------------------
(* Callers *)

Waiting(c) == \E i \in DOMAIN queue : queue[i] = c

\* A call of Wait; it is served by GiveTicket or cancelled.
Wait(c) ==
    /\ ~Waiting(c)
    /\ queue' = Append(queue, c)
    /\ UNCHANGED <<limitVars, stuck, loop, wait, stopped, events>>

\* The context of a waiting caller ends.
CancelWait(c) ==
    /\ \E i \in DOMAIN queue :
          /\ queue[i] = c
          /\ queue' = SubSeq(queue, 1, i - 1) \o SubSeq(queue, i + 1, Len(queue))
    /\ UNCHANGED <<limitVars, stuck, loop, wait, stopped, events>>

\* Allow takes a ticket if the loop offers one and nobody waits for it;
\* otherwise it returns false and changes nothing.
Allow ==
    /\ queue = <<>>
    /\ Ticket
    /\ UNCHANGED queue

Stop ==
    /\ ~stopped
    /\ stopped' = TRUE
    /\ UNCHANGED <<limitVars, stuck, loop, wait, queue, events>>

\* SetMaxEvents, where it does not panic or find nothing to change.  The
\* newest times are copied to the front of a new ring, oldest first.
SetMaxEvents(n) ==
    /\ ~stuck
    /\ window # 0 => n # 0
    /\ n # MaxEvents
    /\ LET skipped == IF MaxEvents > n THEN MaxEvents - n ELSE 0 IN
          ring' = [i \in 0 .. n - 1 |->
                     IF i < MaxEvents THEN ring[(cursor + skipped + i) % MaxEvents]
                                      ELSE MaxWindow]
    /\ cursor' = 0
    /\ events' = <<>>
    /\ UNCHANGED <<window, stuck, loop, wait, stopped, queue>>

\* SetWindow, where it does not panic.
SetWindow(w) ==
    /\ ~stuck
    /\ w # 0 => MaxEvents # 0
    /\ window' = w
    /\ events' = <<>>
    /\ UNCHANGED <<ring, cursor, stuck, loop, wait, stopped, queue>>

Older(a) == IF a < MaxWindow THEN a + 1 ELSE a

\* Time passes.  Events too old for any window are forgotten: the first k, for
\* the oldest come first.
Tick ==
    /\ ring' = [i \in DOMAIN ring |-> Older(ring[i])]
    /\ wait' = IF wait > 0 THEN wait - 1 ELSE 0
    /\ \E k \in 0 .. Len(events) :
          /\ \A i \in DOMAIN events : i <= k <=> Older(events[i]) = MaxWindow
          /\ events' = [i \in 1 .. Len(events) - k |-> Older(events[i + k])]
    /\ UNCHANGED <<cursor, window, stuck, loop, stopped, queue>>

LoopStep ==
    \/ LoopTop \/ ReadWindow \/ ComputeWait \/ WaitOver
    \/ ReceiveStop \/ GiveTicket \/ RecordEvent

LimiterNext ==
    \/ LoopStep
    \/ \E c \in Caller : Wait(c) \/ CancelWait(c)
    \/ Allow
    \/ Stop
    \/ \E n \in EventLimit : SetMaxEvents(n)
    \/ \E w \in Age : SetWindow(w)
    \/ Tick

LimiterSpec == LimiterInit /\ [][LimiterNext]_limiterVars

\* The goroutine runs and time passes; nobody has to call anything.
LimiterFairSpec == LimiterSpec /\ WF_limiterVars(LoopStep) /\ WF_limiterVars(Tick)

-----------------------------------------------------------------------------
(* Properties *)

\* NewRateLimiter: "allows up to maxEvents in a sliding window of size
\* window".  Of the tickets taken since the limiter was last reconfigured, at
\* most MaxEvents are younger than the window, at every moment: although an
\* event is recorded after its ticket was taken, and a wait computed for an
\* earlier configuration is used in the present one.
WindowRespected ==
    Cardinality({i \in DOMAIN events : events[i] < window}) <= MaxEvents

\* A caller of Wait does not wait for ever: not because callers of Allow take
\* the tickets, nor because somebody keeps changing the window.  (A limiter
\* that was stopped or whose goroutine died serves nobody.)
WaitReturns ==
    \A c \in Caller : Waiting(c) ~> (~Waiting(c) \/ stopped \/ loop = "dead")
=============================================================================
