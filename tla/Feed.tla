-------------------------------- MODULE Feed --------------------------------
(***************************************************************************)
(* The price feed of the services: PythLazerStream (sdk/src/pyth.ts) and   *)
(* the services that start it, with the Hermes poll they fall back to.     *)
(* owner is chosen for the whole behaviour:                                *)
(*   broadcaster   services/er-broadcaster                                 *)
(*   watcher       services/liquidation-watcher                            *)
(*   user          a program that uses the SDK, and may close the stream   *)
(*                                                                         *)
(* Every handler of a socket is one action.  A connection that fails runs  *)
(* two of them, the error handler (which rejects the promise of start) and *)
(* the close handler, and both may schedule a reconnect.                   *)
(***************************************************************************)
EXTENDS Naturals, FiniteSets

CONSTANTS
  MaxReconnects, \* maxReconnectAttempts (10)
  Sockets        \* ids of the sockets and timers of the model, used again when free

ASSUME FeedAssumption ==
  /\ MaxReconnects \in Nat \ {0}
  /\ Sockets # {} /\ IsFiniteSet(Sockets) /\ 0 \notin Sockets

VARIABLES
  owner,
  sockets,   \* state of every socket; "free" is one that is over or was never made
  first,     \* the socket of the owner's own start(), while its promise is pending
  current,   \* this.ws
  timers,    \* reconnects scheduled: those whose handle was overwritten, and the last
  attempts,  \* this.reconnectAttempts
  closed,    \* this.closed
  polling,   \* the Hermes poll runs
  heard,     \* a price has reached the owner (history)
  ended      \* sockets that have ended since one last opened (history)

feedVars == <<owner, sockets, first, current, timers, attempts, closed, polling, heard, ended>>

FeedOwners == {"broadcaster", "watcher", "user"}
None == 0
NoTimers == [lost |-> 0, last |-> FALSE]

Live == {s \in Sockets : sockets[s] # "free"}
Pending == timers.lost + (IF timers.last THEN 1 ELSE 0)

\* The process starts: on the stream if it has a token, on Hermes otherwise.
FeedInit ==
  /\ owner \in FeedOwners
  /\ \/ \E s \in Sockets : /\ sockets = [t \in Sockets |-> IF t = s THEN "connecting" ELSE "free"]
                           /\ first = s /\ current = s
                           /\ polling = FALSE
     \/ /\ owner # "user"
        /\ sockets = [t \in Sockets |-> "free"]
        /\ first = None /\ current = None
        /\ polling = TRUE
  /\ timers = NoTimers
  /\ attempts = 0 /\ closed = FALSE /\ ended = 0
  /\ heard = FALSE

-----------------------------------------------------------------------------
(* The stream.                                                             *)

Schedules(state) ==
  LET t == state.timers
  IN  [timers |-> [lost |-> t.lost + (IF t.last THEN 1 ELSE 0), last |-> TRUE],
       attempts |-> state.attempts + 1]

\* Faulty variant: nothing is scheduled while a timer's handle is kept, and
\* the handle is never cleared.
FaultyScheduleOnce(state) == IF closed \/ state.attempts > 0 THEN state ELSE Schedules(state)

\* Nothing once closed or after maxReconnectAttempts; otherwise a new timer,
\* whose handle replaces that of one that may still be pending.
ScheduleReconnect(state) ==
  IF closed \/ state.attempts >= MaxReconnects THEN state ELSE Schedules(state)

Now == [timers |-> timers, attempts |-> attempts]
Becomes(state) == timers' = state.timers /\ attempts' = state.attempts

\* Faulty variant: a connection that opens does not start the count again.
FaultyOpens(s) ==
  /\ sockets[s] = "connecting"
  /\ sockets' = [sockets EXCEPT ![s] = "open"]
  /\ first' = IF first = s THEN None ELSE first
  /\ ended' = 0
  /\ UNCHANGED <<owner, current, timers, attempts, closed, polling, heard>>

Opens(s) ==
  /\ sockets[s] = "connecting"
  /\ sockets' = [sockets EXCEPT ![s] = "open"]
  /\ attempts' = 0
  /\ first' = IF first = s THEN None ELSE first
  /\ ended' = 0
  /\ UNCHANGED <<owner, current, timers, closed, polling, heard>>

\* The model has a socket for every timer and every connection.
SocketRoom == Cardinality(Live) + Pending < Cardinality(Sockets)

Ends(s) ==
  /\ sockets' = [sockets EXCEPT ![s] = "free"]
  /\ ended' = IF ended > MaxReconnects THEN ended ELSE ended + 1

\* The start() that a timer made is caught and schedules one more reconnect
\* than the close handler of the same socket.
ConnectFails(s) ==
  /\ sockets[s] = "connecting" /\ first # s
  /\ SocketRoom
  /\ Becomes(ScheduleReconnect(ScheduleReconnect(Now)))
  /\ Ends(s)
  /\ UNCHANGED <<owner, first, current, closed, polling, heard>>

\* The rejection of the first start() is the owner's.  The watcher starts the
\* Hermes poll, beside the stream that goes on reconnecting.  The broadcaster
\* leaves it unhandled (a runtime that ends the process for it has the
\* container start it again, which brings back the state before).
FirstConnectFails(s) ==
  /\ sockets[s] = "connecting" /\ first = s
  /\ SocketRoom
  /\ Becomes(ScheduleReconnect(Now))
  /\ Ends(s)
  /\ first' = None
  /\ polling' = (owner = "watcher")
  /\ UNCHANGED <<owner, current, closed, heard>>

\* An open socket is closed by the server or the network, or, "closing", by
\* this side.
SocketCloses(s) ==
  /\ sockets[s] \in {"open", "closing"}
  /\ Becomes(ScheduleReconnect(Now))
  /\ Ends(s)
  /\ UNCHANGED <<owner, first, current, closed, polling, heard>>

\* Faulty variant: the timer does not look whether the stream was closed.
FaultyMayStart == TRUE

\* A pending timer starts a connection unless the stream was closed.
MayStart == ~closed

Fire ==
  IF MayStart
  THEN \E s \in Sockets \ Live :
         /\ sockets' = [sockets EXCEPT ![s] = "connecting"]
         /\ current' = s
  ELSE UNCHANGED <<sockets, current>>

LostTimerFires ==
  /\ timers.lost > 0
  /\ timers' = [timers EXCEPT !.lost = @ - 1]
  /\ Fire
  /\ UNCHANGED <<owner, first, attempts, closed, polling, heard, ended>>

LastTimerFires ==
  /\ timers.last
  /\ timers' = [timers EXCEPT !.last = FALSE]
  /\ Fire
  /\ UNCHANGED <<owner, first, attempts, closed, polling, heard, ended>>

\* close() reaches this.ws and the last timer only.  A socket that was still
\* connecting fails, an open one closes in time.
Close ==
  /\ owner = "user"
  /\ ~closed
  /\ closed' = TRUE
  /\ timers' = [timers EXCEPT !.last = FALSE]
  /\ sockets' = [sockets EXCEPT ![current] = CASE @ = "open" -> "closing"
                                               [] @ = "connecting" -> "free"
                                               [] OTHER -> @]
  /\ first' = IF first = current THEN None ELSE first
  /\ UNCHANGED <<owner, current, attempts, polling, heard, ended>>

\* Prices in the frames the server sends, JSON objects and binary ones.
Frames == {"object", "binary"}
PriceFeeds == [object |-> 1, binary |-> 0]

\* Every frame that begins as an object is taken for an answer, and any other
\* has no price: the callbacks are never called, whatever
\* docs/architecture/PYTH-LAZER-INTEGRATION.md:19-21 says of the updates.
Delivered(frame) == IF frame = "object" THEN 0 ELSE PriceFeeds[frame]

HandleMessage(s, frame) ==
  /\ sockets[s] = "open"
  /\ heard' = (heard \/ Delivered(frame) > 0)
  /\ UNCHANGED <<owner, sockets, first, current, timers, attempts, closed, polling, ended>>

\* A poll that succeeds; one that fails is made again after 2 s.
PollHermes ==
  /\ polling
  /\ heard' = TRUE
  /\ UNCHANGED <<owner, sockets, first, current, timers, attempts, closed, polling, ended>>

-----------------------------------------------------------------------------
SocketStep(s) == Opens(s) \/ ConnectFails(s) \/ FirstConnectFails(s)

FeedNext ==
  \/ \E s \in Sockets : SocketStep(s) \/ SocketCloses(s)
  \/ \E s \in Sockets, frame \in Frames : HandleMessage(s, frame)
  \/ LostTimerFires \/ LastTimerFires
  \/ PollHermes \/ Close

\* A connection is made or fails, and timers fire.
FeedFairness ==
  /\ \A s \in Sockets : WF_feedVars(SocketStep(s))
  /\ WF_feedVars(LostTimerFires) /\ WF_feedVars(LastTimerFires)

FeedSpec == FeedInit /\ [][FeedNext]_feedVars /\ FeedFairness

-----------------------------------------------------------------------------
(* Properties.                                                             *)

FeedTypeOK ==
  /\ owner \in FeedOwners
  /\ sockets \in [Sockets -> {"free", "connecting", "open", "closing"}]
  /\ first \in Sockets \union {None} /\ current \in Sockets \union {None}
  /\ first # None => sockets[first] = "connecting"
  /\ timers \in [lost : Nat, last : BOOLEAN]
  /\ attempts \in 0 .. MaxReconnects
  /\ closed \in BOOLEAN /\ polling \in BOOLEAN
  /\ heard \in BOOLEAN
  /\ ended \in 0 .. MaxReconnects + 1

Lazer == current # None

\* Nothing is connected, and nothing is scheduled to be.
Dead == Lazer /\ ~closed /\ Live = {} /\ Pending = 0
GaveUp == Dead /\ attempts = MaxReconnects

\* Though a failed connection counts twice, the stream gives up only after as
\* many failures as it should: both of its reconnects are made.
GivesUpOnlyWhenAllFailed == Dead => ended > MaxReconnects

\* After close() no connection is made: not by the timers whose handles were
\* lost, nor by those that connections failing later would set.
NothingStartsOnceClosed ==
  [][closed => \A s \in Sockets : sockets[s] = "free" => sockets'[s] = "free"]_feedVars

\* Once connections no longer fail or drop, the stream is up for good, unless
\* it gave up before or was closed.
Recovers ==
  ~[]<><<\E s \in Sockets : ConnectFails(s) \/ FirstConnectFails(s) \/ SocketCloses(s)>>_feedVars
    => <>[](~Lazer \/ closed \/ GaveUp \/ \E s \in Sockets : sockets[s] = "open")

\* docs/architecture/PYTH-LAZER-INTEGRATION.md:129-132: after failures the
\* service falls back to Hermes polling and never goes down.
FallsBackToHermes == owner # "user" /\ Dead => polling
=============================================================================
