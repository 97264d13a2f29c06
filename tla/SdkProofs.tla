----------------------------- MODULE SdkProofs -----------------------------
(***************************************************************************)
(* What is proved of the SDK's two halves: the price feed never gives up   *)
(* early, and the clients lose the opening of an order only as Trading     *)
(* counts it.                                                              *)
(***************************************************************************)
EXTENDS MCSdk, FiniteSetTheorems, TLAPS

-----------------------------------------------------------------------------
(* The feed's invariant.                                                   *)

\* There is a failure, a socket or a timer for every attempt and one more, and
\* a stream that may still try has one of the last two: a reconnect is owed by
\* each failed connection even when it counts twice.
ReconnectsAccountedFor ==
  /\ ended > MaxReconnects \/ Cardinality(Live) + Pending + ended >= attempts + 1
  /\ attempts < MaxReconnects => Cardinality(Live) + Pending > 0

FeedInv ==
  /\ FeedTypeOK
  /\ polling => first = None
  /\ ~ Lazer => Live = {} /\ Pending = 0
  /\ Lazer /\ ~ closed => ReconnectsAccountedFor

-----------------------------------------------------------------------------
(* The clients' invariant.                                                 *)

Commitments == {OthersOrder} \union [form : {"opening", "ciphertext"}, of : Nat]
Order == [commitment : Commitments, state : {"resting", "matched", "cancelled"}]
Tx == [initUser : BOOLEAN, fate : {"flying", "landed", "refused", "expired"}]
Call == [kind : {"none", "place", "close"}, stage : {"idle", "confirming", "cancelling"},
         attempt : 0 .. MaxAttempts, tx : Nat, entry : Entries, seen : SUBSET Entries]

States ==
  /\ client \in Clients /\ hasUser \in BOOLEAN
  /\ book \in Seq(Order) /\ Len(book) <= MaxOrders
  /\ txs \in Seq(Tx) /\ Len(txs) <= MaxSends[client]
  /\ cancels \subseteq Entries
  /\ kept \subseteq Entries /\ IsFiniteSet(kept)
  /\ calls \in [Calls -> Call]
  /\ failures \in 0 .. MaxFailures /\ lost \in Nat

\* Only a call that places has a transaction, and only a browser never cancels.
CallSound(q) ==
  /\ q.kind = "none" => q.stage = "idle" /\ q.tx = 0
  /\ q.kind = "place" => q.stage = "confirming" /\ q.tx \in DOMAIN txs
  /\ q.kind = "close" => q.stage = "cancelling" /\ q.tx = 0 /\ client # "browser"

CallsSound ==
  /\ \A c \in Calls : CallSound(calls[c])
  /\ client = "browser" => cancels = {}

Landed(t) == t \in DOMAIN txs /\ txs[t].fate = "landed"

\* Every order of ours is that of one transaction that has landed.
OrdersSound ==
  /\ \A i \in DOMAIN book : IsOurs(i) =>
       /\ book[i].commitment = Commitment(book[i].commitment.of)
       /\ Landed(book[i].commitment.of)
  /\ \A i, k \in DOMAIN book :
       IsOurs(i) /\ IsOurs(k) /\ book[i].commitment.of = book[k].commitment.of => i = k

\* What is kept is of transactions that have landed, one entry for an id; the
\* tools have no opening anywhere.
KeptSound ==
  /\ client # "browser" => \A e, k \in kept : e.id = k.id => e = k
  /\ client # "browser" => \A e \in kept : e.opening = 0 \/ Landed(e.opening)
  /\ client = "tools" => /\ \A e \in kept : e.opening = 0
                         /\ \A e \in cancels : e.opening = 0
                         /\ \A c \in Calls : calls[c].entry.opening = 0
  /\ IdsNeverBehind

\* Transactions of which an order lives or may live yet, and the openings that
\* the client or a call has.
Alive ==
  {t \in DOMAIN txs : \/ txs[t].fate = "flying"
                      \/ \E i \in DOMAIN book : /\ IsOurs(i) /\ book[i].commitment.of = t
                                                /\ book[i].state # "cancelled"}
Held(t) == (\E e \in kept : e.opening = t) \/ (\E c \in Calls : calls[c].tx = t)
Missing == {t \in Alive : ~ Held(t)}

\* Also an opening whose order has yet to land is missed only if it is counted.
LossesCounted == client # "tools" => Cardinality(Missing) <= lost

TradingInv == States /\ CallsSound /\ OrdersSound /\ KeptSound /\ LossesCounted

-----------------------------------------------------------------------------
(* The feed.                                                               *)

SocketStates == {"free", "connecting", "open", "closing"}
Timers == [lost : Nat, last : BOOLEAN]
Reconnects == [timers : Timers, attempts : 0 .. MaxReconnects]
PendingOf(t) == t.lost + (IF t.last THEN 1 ELSE 0)

LEMMA PendingType == ASSUME NEW t \in Timers PROVE PendingOf(t) \in Nat
  BY DEF Timers, PendingOf

LEMMA LiveCounts ==
  ASSUME NEW f \in [Sockets -> SocketStates]
  PROVE  /\ IsFiniteSet({s \in Sockets : f[s] # "free"})
         /\ Cardinality({s \in Sockets : f[s] # "free"}) \in Nat
<1>1. {s \in Sockets : f[s] # "free"} \subseteq Sockets /\ IsFiniteSet(Sockets)
  BY FeedAssumption
<1>2. IsFiniteSet({s \in Sockets : f[s] # "free"})
  BY <1>1, FS_Subset
<1> QED BY <1>2, FS_CardinalityType

LEMMA SocketKept ==
  ASSUME sockets \in [Sockets -> SocketStates], NEW s \in Sockets, sockets[s] # "free",
         NEW state \in SocketStates \ {"free"}, sockets' = [sockets EXCEPT ![s] = state]
  PROVE  sockets' \in [Sockets -> SocketStates] /\ Live' = Live
<1>1. sockets' \in [Sockets -> SocketStates]
  OBVIOUS
<1>2. \A t \in Sockets : sockets'[t] # "free" <=> sockets[t] # "free"
  OBVIOUS
<1> QED BY <1>1, <1>2 DEF Live

LEMMA SocketFreed ==
  ASSUME sockets \in [Sockets -> SocketStates], NEW s \in Sockets, sockets[s] # "free",
         sockets' = [sockets EXCEPT ![s] = "free"]
  PROVE  /\ sockets' \in [Sockets -> SocketStates]
         /\ Cardinality(Live) \in Nat \ {0} /\ Cardinality(Live') = Cardinality(Live) - 1
<1>1. sockets' \in [Sockets -> SocketStates]
  BY DEF SocketStates
<1>2. \A t \in Sockets : sockets'[t] # "free" <=> sockets[t] # "free" /\ t # s
  OBVIOUS
<1>3. Live' = Live \ {s} /\ s \in Live
  BY <1>2 DEF Live
<1>4. IsFiniteSet(Live) /\ Cardinality(Live) \in Nat
  BY LiveCounts DEF Live
<1>5. Cardinality(Live) # 0
  BY <1>3, <1>4, FS_EmptySet
<1> QED BY <1>1, <1>3, <1>4, <1>5, FS_RemoveElement

LEMMA SocketMade ==
  ASSUME sockets \in [Sockets -> SocketStates], NEW s \in Sockets, sockets[s] = "free",
         sockets' = [sockets EXCEPT ![s] = "connecting"]
  PROVE  /\ sockets' \in [Sockets -> SocketStates]
         /\ Cardinality(Live) \in Nat /\ Cardinality(Live') = Cardinality(Live) + 1
<1>1. sockets' \in [Sockets -> SocketStates]
  BY DEF SocketStates
<1>2. \A t \in Sockets : sockets'[t] # "free" <=> sockets[t] # "free" \/ t = s
  OBVIOUS
<1>3. Live' = Live \union {s} /\ s \notin Live
  BY <1>2 DEF Live
<1>4. IsFiniteSet(Live) /\ Cardinality(Live) \in Nat
  BY LiveCounts DEF Live
<1> QED BY <1>1, <1>3, <1>4, FS_AddElement

\* A reconnect is scheduled with every attempt that is counted, and one is
\* counted unless the stream is closed or has none left.
Follows(r, q) ==
  /\ q \in Reconnects
  /\ q.attempts >= r.attempts
  /\ PendingOf(q.timers) + r.attempts = PendingOf(r.timers) + q.attempts
  /\ q.attempts = r.attempts => closed \/ r.attempts = MaxReconnects

LEMMA Scheduled == ASSUME NEW r \in Reconnects PROVE Follows(r, ScheduleReconnect(r))
<1>1. MaxReconnects \in Nat
  BY FeedAssumption
<1>2. r.timers \in Timers /\ r.attempts \in 0 .. MaxReconnects
  BY DEF Reconnects
<1>3. CASE closed \/ r.attempts >= MaxReconnects
  <2>1. ScheduleReconnect(r) = r
    BY <1>3 DEF ScheduleReconnect
  <2>2. closed \/ r.attempts = MaxReconnects
    BY <1>1, <1>2, <1>3
  <2> QED BY <1>2, <2>1, <2>2 DEF Follows
<1>4. CASE ~ (closed \/ r.attempts >= MaxReconnects)
  <2>1. PICK q : q = ScheduleReconnect(r)
    OBVIOUS
  <2>2. q.timers = [lost |-> PendingOf(r.timers), last |-> TRUE] /\ q.attempts = r.attempts + 1
        /\ q = [timers |-> [lost |-> PendingOf(r.timers), last |-> TRUE], attempts |-> r.attempts + 1]
    BY <1>4, <2>1 DEF ScheduleReconnect, Schedules, PendingOf
  <2>3. PICK p \in Nat : p = PendingOf(r.timers)
    BY <1>2, PendingType
  <2>4. r.attempts + 1 \in 0 .. MaxReconnects
    BY <1>1, <1>2, <1>4
  <2>5. q \in Reconnects
    BY <2>2, <2>3, <2>4 DEF Reconnects, Timers
  <2>6. PendingOf(q.timers) = p + 1
    BY <2>2, <2>3 DEF PendingOf
  <2>7. Follows(r, q)
    BY <1>2, <2>2, <2>3, <2>5, <2>6 DEF Follows
  <2> QED BY <2>1, <2>7
<1> QED BY <1>3, <1>4

LEMMA ScheduledTwice ==
  ASSUME NEW r \in Reconnects PROVE Follows(r, ScheduleReconnect(ScheduleReconnect(r)))
<1>1. PICK q : q = ScheduleReconnect(r) /\ Follows(r, q) /\ q \in Reconnects
  BY Scheduled DEF Follows
<1>2. PICK u : u = ScheduleReconnect(q) /\ Follows(q, u) /\ u \in Reconnects
  BY <1>1, Scheduled DEF Follows
<1>3. /\ r.attempts \in Nat /\ q.attempts \in Nat /\ u.attempts \in Nat
      /\ PendingOf(r.timers) \in Nat /\ PendingOf(q.timers) \in Nat /\ PendingOf(u.timers) \in Nat
  BY <1>1, <1>2, PendingType, FeedAssumption DEF Reconnects
<1>4. Follows(r, u)
  BY <1>1, <1>2, <1>3 DEF Follows
<1> QED BY <1>1, <1>2, <1>4

LEMMA FailureCounted ==
  ASSUME NEW m \in Nat, NEW live \in Nat \ {0}, NEW p \in Nat, NEW a \in Nat, NEW e \in Nat,
         e > m \/ live + p + e >= a + 1,
         NEW q \in Nat, NEW b \in Nat, b >= a, b <= m, q + a = p + b, b = a => a = m,
         NEW f, f = IF e > m THEN e ELSE e + 1
  PROVE  /\ f > m \/ (live - 1) + q + f >= b + 1
         /\ b < m => (live - 1) + q > 0
<1>1. b < m => (live - 1) + q > 0
  OBVIOUS
<1>2. CASE e > m
  BY <1>1, <1>2
<1>3. CASE ~ (e > m)
  BY <1>1, <1>3
<1> QED BY <1>2, <1>3

LEMMA FeedShape ==
  ASSUME FeedInv
  PROVE  /\ MaxReconnects \in Nat \ {0}
         /\ sockets \in [Sockets -> SocketStates]
         /\ timers \in Timers /\ Now \in Reconnects
         /\ Pending = PendingOf(timers) /\ Pending \in Nat
         /\ attempts \in Nat /\ attempts <= MaxReconnects /\ ended \in Nat /\ ended <= MaxReconnects + 1
         /\ IsFiniteSet(Live) /\ Cardinality(Live) \in Nat
<1>1. MaxReconnects \in Nat \ {0}
  BY FeedAssumption
<1>2. sockets \in [Sockets -> SocketStates]
  BY DEF FeedInv, FeedTypeOK, SocketStates
<1>3. timers \in Timers /\ attempts \in 0 .. MaxReconnects /\ ended \in 0 .. MaxReconnects + 1
  BY DEF FeedInv, FeedTypeOK, Timers
<1>4. Now \in Reconnects
  BY <1>3 DEF Now, Reconnects
<1>5. Pending = PendingOf(timers)
  BY DEF Pending, PendingOf
<1>6. IsFiniteSet(Live) /\ Cardinality(Live) \in Nat
  BY <1>2, LiveCounts DEF Live
<1> QED BY <1>1, <1>2, <1>3, <1>4, <1>5, <1>6, PendingType

\* Whatever ends, what is scheduled for it is enough.
LEMMA FailureWorks ==
  ASSUME FeedInv, NEW s \in Sockets, sockets[s] # "free", Ends(s),
         NEW r, Follows(Now, r), Becomes(r),
         UNCHANGED <<owner, current, closed>>,
         first' \in {first, None}, first' # s,
         polling' \in BOOLEAN, polling => polling', heard' = heard, polling' => first' = None
  PROVE  FeedInv'
<1>1. sockets' = [sockets EXCEPT ![s] = "free"] /\ ended' = IF ended > MaxReconnects THEN ended ELSE ended + 1
  BY DEF Ends
<1>2. /\ r \in Reconnects /\ timers' = r.timers /\ attempts' = r.attempts
      /\ r.timers \in Timers /\ r.attempts \in 0 .. MaxReconnects
  BY DEF Follows, Becomes, Reconnects
<1>3. /\ sockets' \in [Sockets -> SocketStates]
      /\ Cardinality(Live) \in Nat \ {0} /\ Cardinality(Live') = Cardinality(Live) - 1
  BY <1>1, FeedShape, SocketFreed
<1>4. Lazer /\ Lazer'
  <2>1. s \in Live
    BY DEF Live
  <2>2. Lazer
    BY <2>1 DEF FeedInv
  <2> QED BY <2>2 DEF Lazer
<1>5. ended' \in 0 .. MaxReconnects + 1
  BY <1>1, FeedShape
<1>6. FeedTypeOK'
  <2>1. /\ owner \in FeedOwners /\ first \in Sockets \union {None} /\ current \in Sockets \union {None}
        /\ first # None => sockets[first] = "connecting"
        /\ closed \in BOOLEAN /\ polling \in BOOLEAN /\ heard \in BOOLEAN
    BY DEF FeedInv, FeedTypeOK
  <2>2. first' # None => sockets'[first'] = "connecting"
    BY <1>1, <2>1, FeedShape
  <2>3. sockets' \in [Sockets -> {"free", "connecting", "open", "closing"}] /\ timers' \in [lost : Nat, last : BOOLEAN]
        /\ attempts' \in 0 .. MaxReconnects
    BY <1>2, <1>3 DEF SocketStates, Timers
  <2>4. heard' \in BOOLEAN /\ polling' \in BOOLEAN
    BY <2>1
  <2>5. first' \in Sockets \union {None}
    BY <2>1
  <2> QED BY <1>5, <2>1, <2>2, <2>3, <2>4, <2>5 DEF FeedTypeOK
<1>7. ASSUME ~ closed PROVE ReconnectsAccountedFor'
  <2>1. ended > MaxReconnects \/ Cardinality(Live) + Pending + ended >= attempts + 1
    BY <1>4, <1>7 DEF FeedInv, ReconnectsAccountedFor
  <2>2. PICK live, p, q, b : /\ live = Cardinality(Live) /\ p = Pending /\ q = Pending' /\ b = attempts'
    OBVIOUS
  <2>3. q = PendingOf(r.timers) /\ p = PendingOf(Now.timers) /\ Now.attempts = attempts /\ b = r.attempts
    BY <1>2, <2>2, FeedShape DEF Now, Pending, PendingOf
  <2>4. q \in Nat /\ b \in Nat /\ b <= MaxReconnects
    BY <1>2, <2>3, PendingType, FeedShape
  <2>5. b >= attempts /\ q + attempts = p + b /\ (b = attempts => attempts = MaxReconnects)
    BY <1>7, <2>3 DEF Follows
  <2>6. live \in Nat \ {0} /\ p \in Nat /\ attempts \in Nat /\ ended \in Nat /\ MaxReconnects \in Nat
    BY <1>3, <2>2, FeedShape
  <2>7. /\ ended' > MaxReconnects \/ (live - 1) + q + ended' >= b + 1
        /\ b < MaxReconnects => (live - 1) + q > 0
    BY <1>1, <2>1, <2>2, <2>4, <2>5, <2>6, FailureCounted
  <2> QED BY <1>3, <2>2, <2>7 DEF ReconnectsAccountedFor
<1> QED BY <1>4, <1>6, <1>7 DEF FeedInv

LEMMA FeedStarts == FeedInit => FeedInv
<1> SUFFICES ASSUME FeedInit PROVE FeedInv
  OBVIOUS
<1>1. MaxReconnects \in Nat \ {0} /\ None \notin Sockets
  BY FeedAssumption DEF None
<1>2. /\ owner \in FeedOwners /\ timers = [lost |-> 0, last |-> FALSE] /\ attempts = 0
      /\ closed = FALSE /\ heard = FALSE /\ ended = 0 /\ timers \in [lost : Nat, last : BOOLEAN]
  BY DEF FeedInit, NoTimers
<1>3. Pending = 0
  BY <1>2 DEF Pending
<1>a. attempts \in 0 .. MaxReconnects /\ ended \in 0 .. MaxReconnects + 1
  BY <1>1, <1>2
<1>4. CASE \E s \in Sockets : /\ sockets = [t \in Sockets |-> IF t = s THEN "connecting" ELSE "free"]
                              /\ first = s /\ current = s
                              /\ polling = FALSE
  <2>1. PICK s \in Sockets : /\ sockets = [t \in Sockets |-> IF t = s THEN "connecting" ELSE "free"]
                             /\ first = s /\ current = s /\ polling = FALSE
    BY <1>4
  <2>a. /\ sockets \in [Sockets -> {"free", "connecting", "open", "closing"}]
        /\ first \in Sockets \union {None} /\ current \in Sockets \union {None}
        /\ (first # None => sockets[first] = "connecting") /\ polling \in BOOLEAN
    BY <2>1
  <2>2. FeedTypeOK
    BY <1>2, <1>a, <2>a DEF FeedTypeOK
  <2>3. Live = {s}
    BY <2>1 DEF Live
  <2>4. Cardinality(Live) = 1
    BY <2>3, FS_Singleton
  <2>5. ReconnectsAccountedFor
    BY <1>1, <1>2, <1>3, <2>4 DEF ReconnectsAccountedFor
  <2> QED BY <1>1, <2>1, <2>2, <2>5 DEF FeedInv, Lazer
<1>5. CASE /\ sockets = [t \in Sockets |-> "free"]
           /\ first = None /\ current = None
           /\ polling = TRUE
  <2>a. /\ sockets \in [Sockets -> {"free", "connecting", "open", "closing"}]
        /\ first \in Sockets \union {None} /\ current \in Sockets \union {None}
        /\ first = None /\ polling \in BOOLEAN
    BY <1>5
  <2>1. FeedTypeOK
    BY <1>2, <1>a, <2>a DEF FeedTypeOK
  <2>2. Live = {}
    BY <1>5 DEF Live
  <2> QED BY <1>3, <1>5, <2>1, <2>2 DEF FeedInv, Lazer
<1> QED BY <1>4, <1>5 DEF FeedInit

\* A timer that fires makes a socket, unless the stream is closed.
LEMMA FiringWorks ==
  ASSUME FeedInv, timers' \in Timers, Pending > 0, Pending' = Pending - 1, Fire,
         UNCHANGED <<owner, first, attempts, closed, polling, heard, ended>>
  PROVE  FeedInv'
<1>1. Lazer /\ None \notin Sockets
  <2>1. Pending # 0
    BY FeedShape
  <2> QED BY <2>1, FeedAssumption DEF FeedInv, None
<1>2. /\ owner \in FeedOwners /\ first \in Sockets \union {None} /\ current \in Sockets \union {None}
      /\ first # None => sockets[first] = "connecting"
      /\ closed \in BOOLEAN /\ polling \in BOOLEAN /\ heard \in BOOLEAN
      /\ attempts \in 0 .. MaxReconnects /\ ended \in 0 .. MaxReconnects + 1
      /\ sockets \in [Sockets -> {"free", "connecting", "open", "closing"}]
  BY DEF FeedInv, FeedTypeOK
<1>3. timers' \in [lost : Nat, last : BOOLEAN]
  BY DEF Timers
<1>4. CASE closed
  <2>1. UNCHANGED <<sockets, current>>
    BY <1>4 DEF Fire, MayStart
  <2> QED BY <1>1, <1>2, <1>3, <1>4, <2>1 DEF FeedInv, FeedTypeOK, Lazer
<1>5. CASE ~ closed
  <2>1. PICK s \in Sockets \ Live : sockets' = [sockets EXCEPT ![s] = "connecting"] /\ current' = s
    BY <1>5 DEF Fire, MayStart
  <2>2. sockets[s] = "free"
    BY <2>1 DEF Live
  <2>3. /\ sockets' \in [Sockets -> SocketStates]
        /\ Cardinality(Live) \in Nat /\ Cardinality(Live') = Cardinality(Live) + 1
    BY <2>1, <2>2, FeedShape, SocketMade
  <2>4. Lazer'
    BY <1>1, <2>1 DEF Lazer
  <2>5. FeedTypeOK'
    BY <1>2, <1>3, <2>1, <2>3 DEF FeedTypeOK, SocketStates
  <2>6. ReconnectsAccountedFor'
    <3>1. ReconnectsAccountedFor
      BY <1>1, <1>5 DEF FeedInv
    <3>2. Cardinality(Live') + Pending' = Cardinality(Live) + Pending
      BY <2>3, FeedShape
    <3> QED BY <3>1, <3>2 DEF ReconnectsAccountedFor
  <2>7. polling' => first' = None
    BY DEF FeedInv
  <2> QED BY <2>4, <2>5, <2>6, <2>7 DEF FeedInv
<1> QED BY <1>4, <1>5

LEMMA FeedSteps == ASSUME FeedInv, FeedNext PROVE FeedInv'
<1>0. /\ owner \in FeedOwners /\ first \in Sockets \union {None} /\ current \in Sockets \union {None}
      /\ first # None => sockets[first] = "connecting"
      /\ closed \in BOOLEAN /\ polling \in BOOLEAN /\ heard \in BOOLEAN
      /\ attempts \in 0 .. MaxReconnects /\ ended \in 0 .. MaxReconnects + 1
      /\ sockets \in [Sockets -> {"free", "connecting", "open", "closing"}]
      /\ timers \in [lost : Nat, last : BOOLEAN] /\ (polling => first = None)
  BY DEF FeedInv, FeedTypeOK
<1>1. ASSUME NEW s \in Sockets, Opens(s) PROVE FeedInv'
  <2>1. /\ sockets[s] = "connecting" /\ sockets' = [sockets EXCEPT ![s] = "open"] /\ attempts' = 0 /\ ended' = 0
        /\ first' = (IF first = s THEN None ELSE first)
        /\ UNCHANGED <<owner, current, timers, closed, polling, heard>>
    BY <1>1 DEF Opens
  <2>2. sockets' \in [Sockets -> SocketStates] /\ Live' = Live
    BY <2>1, FeedShape, SocketKept DEF SocketStates
  <2>3. s \in Live /\ Pending' = Pending
    BY <2>1 DEF Live, Pending
  <2>4. Cardinality(Live) # 0
    BY <2>3, FeedShape, FS_EmptySet
  <2>5. Cardinality(Live) + Pending >= 1
    BY <2>4, FeedShape
  <2>6. ReconnectsAccountedFor'
    BY <2>1, <2>2, <2>3, <2>5, FeedShape DEF ReconnectsAccountedFor
  <2>7. attempts' \in 0 .. MaxReconnects /\ ended' \in 0 .. MaxReconnects + 1
    BY <2>1, FeedShape
  <2>8. first' \in {first, None} /\ first' # s
    BY <2>1, FeedAssumption DEF None
  <2>9. FeedTypeOK'
    BY <1>0, <2>1, <2>2, <2>7, <2>8 DEF FeedTypeOK, SocketStates
  <2>10. Lazer'
    BY <2>1, <2>3 DEF Lazer, FeedInv
  <2> QED BY <1>0, <2>1, <2>6, <2>9, <2>10 DEF FeedInv
<1>2. ASSUME NEW s \in Sockets, ConnectFails(s) PROVE FeedInv'
  <2>1. /\ sockets[s] # "free" /\ first # s /\ Ends(s)
        /\ Becomes(ScheduleReconnect(ScheduleReconnect(Now)))
        /\ UNCHANGED <<owner, first, current, closed, polling, heard>>
    BY <1>2 DEF ConnectFails
  <2>2. Follows(Now, ScheduleReconnect(ScheduleReconnect(Now)))
    BY FeedShape, ScheduledTwice
  <2> QED BY <1>0, <2>1, <2>2, FailureWorks
<1>3. ASSUME NEW s \in Sockets, FirstConnectFails(s) PROVE FeedInv'
  <2>1. /\ sockets[s] # "free" /\ first = s /\ Ends(s) /\ first' = None
        /\ Becomes(ScheduleReconnect(Now)) /\ polling' = (owner = "watcher")
        /\ UNCHANGED <<owner, current, closed, heard>>
    BY <1>3 DEF FirstConnectFails
  <2>2. Follows(Now, ScheduleReconnect(Now))
    BY FeedShape, Scheduled
  <2>3. first' # s /\ first' \in {first, None} /\ ~ polling /\ polling' \in BOOLEAN /\ (polling => polling')
    BY <1>0, <2>1, FeedAssumption DEF None
  <2> QED BY <2>1, <2>2, <2>3, FailureWorks
<1>4. ASSUME NEW s \in Sockets, SocketCloses(s) PROVE FeedInv'
  <2>1. /\ sockets[s] \in {"open", "closing"} /\ Ends(s)
        /\ Becomes(ScheduleReconnect(Now))
        /\ UNCHANGED <<owner, first, current, closed, polling, heard>>
    BY <1>4 DEF SocketCloses
  <2>2. Follows(Now, ScheduleReconnect(Now))
    BY FeedShape, Scheduled
  <2>3. first # s
    BY <1>0, <2>1, FeedAssumption DEF None
  <2> QED BY <1>0, <2>1, <2>2, <2>3, FailureWorks
<1>5. ASSUME NEW s \in Sockets, NEW frame \in Frames, HandleMessage(s, frame) PROVE FeedInv'
  <2>1. Delivered(frame) = 0
    BY DEF Frames, Delivered, PriceFeeds
  <2>2. heard' = heard /\ UNCHANGED <<owner, sockets, first, current, timers, attempts, closed, polling, ended>>
    BY <1>0, <1>5, <2>1 DEF HandleMessage
  <2> QED BY <2>2 DEF FeedInv, FeedTypeOK, Lazer, Live, Pending, ReconnectsAccountedFor
<1>6. ASSUME LostTimerFires PROVE FeedInv'
  <2>1. /\ timers.lost > 0 /\ timers' = [timers EXCEPT !.lost = @ - 1] /\ Fire
        /\ UNCHANGED <<owner, first, attempts, closed, polling, heard, ended>>
    BY <1>6 DEF LostTimerFires
  <2>2. PICK n \in Nat, b \in BOOLEAN : n = timers.lost /\ b = timers.last /\ timers = [lost |-> n, last |-> b]
    BY <1>0
  <2>3. timers' = [lost |-> n - 1, last |-> b] /\ n > 0
    BY <2>1, <2>2
  <2>4. timers' \in Timers
    BY <2>3 DEF Timers
  <2>5. Pending = n + (IF b THEN 1 ELSE 0) /\ Pending' = (n - 1) + (IF b THEN 1 ELSE 0)
    BY <2>2, <2>3 DEF Pending
  <2>6. Pending > 0 /\ Pending' = Pending - 1
    BY <2>2, <2>3, <2>5
  <2> QED BY <2>1, <2>4, <2>6, FiringWorks
<1>7. ASSUME LastTimerFires PROVE FeedInv'
  <2>1. /\ timers.last /\ timers' = [timers EXCEPT !.last = FALSE] /\ Fire
        /\ UNCHANGED <<owner, first, attempts, closed, polling, heard, ended>>
    BY <1>7 DEF LastTimerFires
  <2>2. PICK n \in Nat, b \in BOOLEAN : n = timers.lost /\ b = timers.last /\ timers = [lost |-> n, last |-> b]
    BY <1>0
  <2>3. timers' = [lost |-> n, last |-> FALSE] /\ b
    BY <2>1, <2>2
  <2>4. timers' \in Timers
    BY <2>3 DEF Timers
  <2>5. Pending = n + 1 /\ Pending' = n
    BY <2>2, <2>3 DEF Pending
  <2>6. Pending > 0 /\ Pending' = Pending - 1
    BY <2>2, <2>5
  <2> QED BY <2>1, <2>4, <2>6, FiringWorks
<1>8. ASSUME PollHermes PROVE FeedInv'
  BY <1>8 DEF PollHermes, FeedInv, FeedTypeOK, Lazer, Live, Pending, ReconnectsAccountedFor
<1>9. ASSUME Close PROVE FeedInv'
  <2>1. /\ closed' = TRUE /\ timers' = [timers EXCEPT !.last = FALSE]
        /\ first' = (IF first = current THEN None ELSE first)
        /\ UNCHANGED <<owner, current, attempts, polling, heard, ended>>
    BY <1>9 DEF Close
  <2>2. /\ sockets' \in [Sockets -> {"free", "connecting", "open", "closing"}]
        /\ \A s \in Sockets : s # current => sockets'[s] = sockets[s]
        /\ \A s \in Sockets : sockets[s] = "free" => sockets'[s] = "free"
    <3>1. PICK v : /\ sockets' = [sockets EXCEPT ![current] = v]
                   /\ current \in Sockets => /\ v \in {"free", "connecting", "open", "closing"}
                                             /\ sockets[current] = "free" => v = "free"
      <4> DEFINE v == CASE sockets[current] = "open" -> "closing"
                        [] sockets[current] = "connecting" -> "free"
                        [] OTHER -> sockets[current]
      <4>1. sockets' = [sockets EXCEPT ![current] = v]
        BY <1>9 DEF Close
      <4>2. current \in Sockets => /\ v \in {"free", "connecting", "open", "closing"}
                                   /\ sockets[current] = "free" => v = "free"
        BY <1>0
      <4> QED BY <4>1, <4>2
    <3> QED BY <1>0, <3>1
  <2>3. timers' \in [lost : Nat, last : BOOLEAN]
    BY <1>0, <2>1
  <2>4. first' \in {first, None} /\ (first' # None => first' # current)
    BY <2>1
  <2>5. FeedTypeOK'
    BY <1>0, <2>1, <2>2, <2>3, <2>4, FeedAssumption DEF FeedTypeOK
  <2>6. ~ Lazer => Live' = {} /\ Pending' = 0
    <3>1. ASSUME ~ Lazer PROVE Live' = {} /\ Pending' = 0
      <4>1. Live = {} /\ Pending = 0
        BY <3>1 DEF FeedInv
      <4>2. Live' = {}
        BY <2>2, <4>1 DEF Live
      <4>3. PICK n \in Nat, b \in BOOLEAN : n = timers.lost /\ b = timers.last /\ timers = [lost |-> n, last |-> b]
        BY <1>0
      <4>4. n = 0
        BY <4>1, <4>3 DEF Pending
      <4>5. timers' = [lost |-> n, last |-> FALSE]
        BY <2>1, <4>3
      <4> QED BY <4>2, <4>4, <4>5 DEF Pending
    <3> QED BY <3>1
  <2> QED BY <1>0, <2>1, <2>4, <2>5, <2>6 DEF FeedInv, Lazer
<1> QED BY <1>1, <1>2, <1>3, <1>4, <1>5, <1>6, <1>7, <1>8, <1>9 DEF FeedNext, SocketStep

-----------------------------------------------------------------------------
(* The clients: the records, and what is counted.                          *)

LEMMA OpeningsCover == \A cl \in Clients : 1 .. MaxSends[cl] \subseteq Openings
<1>1. PICK S : S = {MaxSends[cl] : cl \in Clients}
  OBVIOUS
<1>2. S \subseteq Nat
  BY <1>1, TradingAssumption
<1>3. PICK a \in Nat, b \in Nat, c \in Nat, d \in Nat :
        a = MaxSends["agent"] /\ b = MaxSends["browser"] /\ c = MaxSends["tools"] /\ d = MaxSends["sealed"]
  BY TradingAssumption DEF Clients
<1>4. S = {a, b, c, d}
  BY <1>1, <1>3 DEF Clients
<1>5. \E x \in S : \A y \in S : x >= y
  BY <1>4
<1>6. Max(S) \in S /\ \A y \in S : Max(S) >= y
  BY <1>5 DEF Max
<1>7. Openings = 1 .. Max(S)
  BY <1>1 DEF Openings
<1>8. \A cl \in Clients : MaxSends[cl] \in S
  BY <1>1
<1>9. PICK m \in Nat : m = Max(S) /\ \A y \in S : m >= y
  BY <1>2, <1>6
<1> SUFFICES ASSUME NEW cl \in Clients PROVE 1 .. MaxSends[cl] \subseteq 1 .. m
  BY <1>7, <1>9
<1>10. PICK v \in Nat : v = MaxSends[cl] /\ v <= m
  BY <1>2, <1>8, <1>9
<1> QED BY <1>10

LEMMA EntryFields ==
  /\ \A e \in Entries : e.id \in 0 .. MaxOrders /\ e.opening \in {0} \union Openings
  /\ \A e, k \in Entries : e.id = k.id /\ e.opening = k.opening => e = k
  /\ \A n \in 0 .. MaxOrders, t \in {0} \union Openings :
       [id |-> n, opening |-> t] \in Entries
  /\ NoEntry \in Entries /\ NoEntry.opening = 0
<1>1. 0 \in 0 .. MaxOrders
  BY TradingAssumption
<1> QED BY <1>1 DEF Entries, NoEntry

LEMMA EntryMade ==
  ASSUME NEW n \in 0 .. MaxOrders, NEW t \in {0} \union Openings
  PROVE  \E e \in Entries : e = [id |-> n, opening |-> t] /\ e.id = n /\ e.opening = t
<1>1. PICK e : e = [id |-> n, opening |-> t]
  OBVIOUS
<1>2. e \in Entries
  BY <1>1 DEF Entries
<1> QED BY <1>1, <1>2

LEMMA AttemptChanged ==
  ASSUME NEW r \in Call, NEW a \in 0 .. MaxAttempts
  PROVE  \E q \in Call : /\ q = [r EXCEPT !.attempt = a]
                         /\ q.kind = r.kind /\ q.stage = r.stage /\ q.tx = r.tx /\ q.entry = r.entry
<1>1. PICK q : q = [r EXCEPT !.attempt = a]
  OBVIOUS
<1>2. q \in Call
  BY <1>1 DEF Call
<1>3. q.kind = r.kind /\ q.stage = r.stage /\ q.tx = r.tx /\ q.entry = r.entry
  BY <1>1 DEF Call
<1> QED BY <1>1, <1>2, <1>3

LEMMA QuietCall == Quiet \in Call /\ CallSound(Quiet) /\ Quiet.tx = 0 /\ Quiet.entry = NoEntry /\ Quiet.stage = "idle"
<1>1. 0 \in 0 .. MaxAttempts /\ NoEntry \in Entries
  BY TradingAssumption, EntryFields
<1>2. {} \in SUBSET Entries /\ 0 \in Nat
  OBVIOUS
<1>3. Quiet \in Call
  BY <1>1, <1>2 DEF Quiet, Call
<1> QED BY <1>3 DEF Quiet, CallSound

LEMMA CancelCallSound ==
  ASSUME NEW e \in Entries, NEW seen \in SUBSET Entries, client # "browser"
  PROVE  /\ CancelCall(e, seen) \in Call /\ CallSound(CancelCall(e, seen))
         /\ CancelCall(e, seen).tx = 0 /\ CancelCall(e, seen).entry = e
<1>1. 1 \in 0 .. MaxAttempts
  BY TradingAssumption
<1>2. CancelCall(e, seen) \in Call
  BY <1>1 DEF CancelCall, Call
<1> QED BY <1>2 DEF CancelCall, CallSound

LEMMA CommitmentFields ==
  ASSUME NEW t
  PROVE  /\ Commitment(t).of = t /\ Commitment(t).form # "others"
         /\ Commitment(t).form = IF client = "sealed" THEN "ciphertext" ELSE "opening"
         /\ t \in Nat => Commitment(t) \in Commitments
  BY DEF Commitment, EncryptOrderBlob, ComputeCommitment, Commitments

LEMMA TxFacts ==
  ASSUME States
  PROVE  /\ DOMAIN txs = 1 .. Len(txs) /\ Len(txs) \in Nat
         /\ DOMAIN txs \subseteq Openings /\ DOMAIN txs \subseteq Nat /\ 0 \notin DOMAIN txs
         /\ IsFiniteSet(Missing) /\ Cardinality(Missing) \in Nat
<1>1. DOMAIN txs = 1 .. Len(txs) /\ Len(txs) \in Nat
  BY DEF States
<1>2. MaxSends[client] \in Nat /\ client \in Clients /\ Len(txs) <= MaxSends[client]
  BY TradingAssumption DEF States
<1>3. DOMAIN txs \subseteq 1 .. MaxSends[client]
  BY <1>1, <1>2
<1>4. IsFiniteSet(1 .. Len(txs))
  BY <1>1, FS_Interval
<1>5. Missing \subseteq 1 .. Len(txs)
  BY <1>1 DEF Missing, Alive
<1>6. IsFiniteSet(Missing)
  BY <1>4, <1>5, FS_Subset
<1> QED BY <1>1, <1>2, <1>3, <1>6, OpeningsCover, FS_CardinalityType

LEMMA ElementReplaced ==
  ASSUME NEW S, NEW s \in Seq(S), NEW i \in DOMAIN s, NEW x \in S
  PROVE  /\ [s EXCEPT ![i] = x] \in Seq(S) /\ Len([s EXCEPT ![i] = x]) = Len(s)
         /\ DOMAIN [s EXCEPT ![i] = x] = DOMAIN s
         /\ [s EXCEPT ![i] = x][i] = x /\ \A k \in DOMAIN s : k # i => [s EXCEPT ![i] = x][k] = s[k]
  OBVIOUS

LEMMA FateChanged ==
  ASSUME txs \in Seq(Tx), NEW t \in DOMAIN txs,
         NEW fate \in {"flying", "landed", "refused", "expired"},
         txs' = [txs EXCEPT ![t].fate = fate]
  PROVE  /\ txs' \in Seq(Tx) /\ Len(txs') = Len(txs) /\ DOMAIN txs' = DOMAIN txs
         /\ txs'[t].fate = fate /\ \A u \in DOMAIN txs : u # t => txs'[u] = txs[u]
<1>1. txs[t] \in Tx
  OBVIOUS
<1>2. PICK x \in Tx : x = [txs[t] EXCEPT !.fate = fate] /\ x.fate = fate
  BY <1>1 DEF Tx
<1>3. txs' = [txs EXCEPT ![t] = x]
  BY <1>2
<1>4. /\ txs' \in Seq(Tx) /\ Len(txs') = Len(txs) /\ DOMAIN txs' = DOMAIN txs
      /\ txs'[t] = x /\ \A u \in DOMAIN txs : u # t => txs'[u] = txs[u]
  BY <1>3, ElementReplaced
<1> QED BY <1>2, <1>4

LEMMA StateChanged ==
  ASSUME book \in Seq(Order), NEW i \in DOMAIN book,
         NEW state \in {"resting", "matched", "cancelled"},
         book' = [book EXCEPT ![i].state = state]
  PROVE  /\ book' \in Seq(Order) /\ Len(book') = Len(book) /\ DOMAIN book' = DOMAIN book
         /\ \A k \in DOMAIN book : book'[k].commitment = book[k].commitment
         /\ book'[i].state = state /\ \A k \in DOMAIN book : k # i => book'[k] = book[k]
<1>1. book[i] \in Order
  OBVIOUS
<1>2. PICK x \in Order : /\ x = [book[i] EXCEPT !.state = state]
                         /\ x.state = state /\ x.commitment = book[i].commitment
  BY <1>1 DEF Order
<1>3. book' = [book EXCEPT ![i] = x]
  BY <1>2
<1>4. /\ book' \in Seq(Order) /\ Len(book') = Len(book) /\ DOMAIN book' = DOMAIN book
      /\ book'[i] = x /\ \A k \in DOMAIN book : k # i => book'[k] = book[k]
  BY <1>3, ElementReplaced
<1> QED BY <1>2, <1>4

LEMMA OrderAppended ==
  ASSUME book \in Seq(Order), NEW x \in Order, book' = Append(book, x)
  PROVE  /\ book' \in Seq(Order) /\ Len(book) \in Nat /\ Len(book') = Len(book) + 1
         /\ DOMAIN book' = DOMAIN book \union {Len(book) + 1} /\ Len(book) + 1 \notin DOMAIN book
         /\ \A i \in DOMAIN book : i <= Len(book)
         /\ book'[Len(book) + 1] = x /\ \A k \in DOMAIN book : book'[k] = book[k]
  OBVIOUS

LEMMA OpeningsCount ==
  ASSUME NEW gone \in SUBSET Entries, IsFiniteSet(gone)
  PROVE  /\ IsFiniteSet({e.opening : e \in gone})
         /\ Cardinality({e.opening : e \in gone}) \in Nat /\ Cardinality(gone) \in Nat
         /\ Cardinality({e.opening : e \in gone}) <= Cardinality(gone)
<1>1. PICK T : T = {e.opening : e \in gone}
  OBVIOUS
<1>2. PICK f : f = [e \in gone |-> e.opening]
  OBVIOUS
<1>3. f \in [gone -> T] /\ \A t \in T : \E e \in gone : f[e] = t
  BY <1>1, <1>2
<1>4. f \in Surjection(gone, T)
  BY <1>3 DEF Surjection
<1>5. IsFiniteSet(T) /\ Cardinality(T) <= Cardinality(gone)
  BY <1>4, FS_Surjection
<1> QED BY <1>1, <1>5, FS_CardinalityType

\* What more is missing is counted.
LEMMA CountedStill ==
  ASSUME States, LossesCounted, client' = client,
         NEW D, IsFiniteSet(D), NEW n \in Nat, Cardinality(D) <= n,
         Missing' \subseteq Missing \union D, lost' = lost + n
  PROVE  LossesCounted'
<1> SUFFICES ASSUME client # "tools" PROVE Cardinality(Missing') <= lost'
  BY DEF LossesCounted
<1>1. IsFiniteSet(Missing) /\ Cardinality(Missing) \in Nat /\ Cardinality(D) \in Nat
  BY TxFacts, FS_CardinalityType
<1>2. Cardinality(Missing) <= lost /\ lost \in Nat
  BY DEF LossesCounted, States
<1>3. PICK m \in Nat : m = Cardinality(Missing \union D) /\ m <= Cardinality(Missing) + Cardinality(D) /\ IsFiniteSet(Missing \union D)
  <2>1. Cardinality(Missing \intersect D) \in Nat
    BY <1>1, FS_Intersection, FS_CardinalityType
  <2>2. IsFiniteSet(Missing \union D)
        /\ Cardinality(Missing \union D) = Cardinality(Missing) + Cardinality(D) - Cardinality(Missing \intersect D)
    BY <1>1, FS_Union
  <2>3. Cardinality(Missing \union D) \in Nat
    BY <2>2, FS_CardinalityType
  <2> QED BY <1>1, <2>1, <2>2, <2>3
<1>4. IsFiniteSet(Missing') /\ Cardinality(Missing') <= m /\ Cardinality(Missing') \in Nat
  BY <1>3, FS_Subset, FS_CardinalityType
<1> QED BY <1>1, <1>2, <1>3, <1>4

\* What a call that steps can lose: what it held itself, and what is no longer kept.
LEMMA LossBound ==
  ASSUME States, States', LossesCounted, client' = client,
         NEW c \in Calls, NEW q \in Call, calls' = [calls EXCEPT ![c] = q],
         \A t \in Alive' : t \in Alive \/ t = q.tx,
         NEW gone \in SUBSET kept,
         \A e \in kept : e \in kept' \/ e \in gone \/ e.opening \notin Alive',
         NEW k \in {0, 1}, k = 0 => client = "tools" \/ calls[c].tx \notin Missing',
         lost' = lost + Cardinality(gone) + k
  PROVE  LossesCounted'
<1> SUFFICES ASSUME client # "tools" PROVE LossesCounted'
  BY DEF LossesCounted
<1>1. IsFiniteSet(gone) /\ gone \in SUBSET Entries
  BY FS_Subset DEF States
<1>2. PICK T : T = {e.opening : e \in gone}
  OBVIOUS
<1>3. IsFiniteSet(T) /\ Cardinality(T) \in Nat /\ Cardinality(gone) \in Nat /\ Cardinality(T) <= Cardinality(gone)
  BY <1>1, <1>2, OpeningsCount
<1>4. calls'[c] = q /\ \A d \in Calls : d # c => calls'[d] = calls[d]
  BY DEF States
<1>5. ASSUME NEW t \in Missing', t \notin Missing PROVE t \in T \/ t = calls[c].tx
  <2>1. t \in Alive' /\ ~ Held(t)'
    BY <1>5 DEF Missing
  <2>2. t # q.tx
    BY <1>4, <2>1 DEF Held
  <2>3. t \in Alive
    BY <2>1, <2>2
  <2>4. Held(t)
    BY <1>5, <2>3 DEF Missing
  <2>5. CASE \E e \in kept : e.opening = t
    <3>1. PICK e \in kept : e.opening = t
      BY <2>5
    <3>2. e \notin kept'
      BY <2>1, <3>1 DEF Held
    <3> QED BY <1>2, <2>1, <3>1, <3>2
  <2>6. CASE \E d \in Calls : calls[d].tx = t
    <3>1. PICK d \in Calls : calls[d].tx = t
      BY <2>6
    <3>2. calls'[d].tx # t
      BY <2>1 DEF Held
    <3> QED BY <1>4, <3>1, <3>2
  <2> QED BY <2>4, <2>5, <2>6 DEF Held
<1>6. PICK D : /\ IsFiniteSet(D) /\ Cardinality(D) \in Nat /\ Cardinality(D) <= Cardinality(gone) + k
               /\ Missing' \subseteq Missing \union D
  <2>1. CASE k = 0
    <3>1. Missing' \subseteq Missing \union T
      BY <1>5, <2>1
    <3> QED BY <1>3, <2>1, <3>1
  <2>2. CASE k = 1
    <3>1. PICK D : D = T \union {calls[c].tx}
      OBVIOUS
    <3>2. IsFiniteSet(D) /\ (Cardinality(D) = Cardinality(T) \/ Cardinality(D) = Cardinality(T) + 1)
      BY <1>3, <3>1, FS_AddElement
    <3>3. Cardinality(D) \in Nat /\ Cardinality(D) <= Cardinality(gone) + k
      BY <1>3, <2>2, <3>2
    <3>4. Missing' \subseteq Missing \union D
      BY <1>5, <3>1
    <3> QED BY <3>2, <3>3, <3>4
  <2> QED BY <2>1, <2>2
<1>7. PICK n \in Nat : n = Cardinality(gone) + k
  BY <1>3
<1>8. lost' = lost + n
  <2>1. lost' = lost + Cardinality(gone) + k /\ lost \in Nat
    BY DEF States
  <2> QED BY <1>3, <1>7, <2>1
<1> QED BY <1>6, <1>7, <1>8, CountedStill

-----------------------------------------------------------------------------
(* The clients: the steps of the program and its other users.              *)

LEMMA TradingStarts == Init => TradingInv
<1> SUFFICES ASSUME Init PROVE TradingInv
  OBVIOUS
<1>1. /\ client \in Clients /\ hasUser \in BOOLEAN /\ book = <<>> /\ txs = <<>> /\ cancels = {} /\ kept = {}
      /\ calls = [c \in Calls |-> Quiet] /\ failures = 0 /\ lost = 0
  BY DEF Init
<1>2. MaxSends[client] \in Nat /\ 0 \in 0 .. MaxFailures /\ MaxOrders \in Nat
  BY <1>1, TradingAssumption
<1>3. States
  BY <1>1, <1>2, QuietCall, FS_EmptySet DEF States
<1>4. CallsSound
  BY <1>1, QuietCall DEF CallsSound
<1>5. OrdersSound /\ KeptSound
  BY <1>1, QuietCall, EntryFields DEF OrdersSound, KeptSound, IdsNeverBehind
<1>6. Missing = {}
  BY <1>1 DEF Missing, Alive
<1> QED BY <1>1, <1>3, <1>4, <1>5, <1>6, FS_EmptySet DEF TradingInv, LossesCounted

\* What the program does to the book and the transactions takes nothing from a client.
LEMMA ProgramWorks ==
  ASSUME TradingInv, UNCHANGED <<client, kept, calls, failures, lost>>,
         hasUser' \in BOOLEAN, book' \in Seq(Order), Len(book') <= MaxOrders,
         txs' \in Seq(Tx), Len(txs') = Len(txs), DOMAIN txs' = DOMAIN txs, cancels' \subseteq cancels,
         OrdersSound', \A t : Landed(t) => Landed(t)', IdsNeverBehind', Alive' \subseteq Alive
  PROVE  TradingInv'
<1>1. States /\ CallsSound /\ KeptSound /\ LossesCounted
  BY DEF TradingInv
<1>2. States'
  BY <1>1 DEF States
<1>3. CallsSound'
  BY <1>1 DEF CallsSound, CallSound
<1>4. KeptSound'
  <2>1. /\ client # "browser" => \A e \in kept : e.opening = 0 \/ Landed(e.opening)'
    BY <1>1 DEF KeptSound
  <2>2. client = "tools" => /\ \A e \in kept : e.opening = 0
                            /\ \A e \in cancels' : e.opening = 0
                            /\ \A c \in Calls : calls[c].entry.opening = 0
    BY <1>1 DEF KeptSound
  <2>3. client # "browser" => \A e, k \in kept : e.id = k.id => e = k
    BY <1>1 DEF KeptSound
  <2> QED BY <2>1, <2>2, <2>3 DEF KeptSound
<1>5. Missing' \subseteq Missing
  BY DEF Missing, Held
<1>6. LossesCounted'
  <2>1. IsFiniteSet(Missing) /\ Cardinality(Missing) \in Nat
    BY <1>1, TxFacts
  <2>2. Cardinality(Missing') <= Cardinality(Missing) /\ Cardinality(Missing') \in Nat
    BY <1>5, <2>1, FS_Subset, FS_CardinalityType
  <2> QED BY <1>1, <2>1, <2>2 DEF LossesCounted, States
<1> QED BY <1>2, <1>3, <1>4, <1>6 DEF TradingInv

\* The commitments of the book stay.
LEMMA SameCommitments ==
  ASSUME TradingInv, client' = client, \A t : Landed(t) => Landed(t)', DOMAIN book' = DOMAIN book,
         \A k \in DOMAIN book : book'[k].commitment = book[k].commitment
  PROVE  /\ OrdersSound'
         /\ \A i \in DOMAIN book : IsOurs(i)' = IsOurs(i)
         /\ \A e \in kept : client # "browser" =>
              \A i \in DOMAIN book' : book'[i].commitment = Commitment(e.opening)' => i <= e.id
<1>2. \A t : Commitment(t)' = Commitment(t)
  BY DEF Commitment, EncryptOrderBlob, ComputeCommitment
<1>3. \A i \in DOMAIN book : IsOurs(i)' = IsOurs(i)
  BY DEF IsOurs
<1>4. OrdersSound /\ IdsNeverBehind
  BY DEF TradingInv, KeptSound
<1>5. OrdersSound'
  <2>1. ASSUME NEW i \in DOMAIN book', IsOurs(i)'
        PROVE  book'[i].commitment = Commitment(book[i].commitment.of)' /\ Landed(book[i].commitment.of)'
    <3>1. PICK u : u = book[i].commitment.of
      OBVIOUS
    <3>2. book[i].commitment = Commitment(u) /\ Landed(u)
      BY <1>3, <1>4, <2>1, <3>1 DEF OrdersSound
    <3>3. book'[i].commitment = Commitment(u)' /\ Landed(u)'
      BY <1>2, <3>2
    <3> QED BY <3>1, <3>3
  <2>2. \A i \in DOMAIN book' : book'[i].commitment.of = book[i].commitment.of
    OBVIOUS
  <2>3. \A i, k \in DOMAIN book' :
          IsOurs(i)' /\ IsOurs(k)' /\ book'[i].commitment.of = book'[k].commitment.of => i = k
    BY <1>3, <1>4, <2>2 DEF OrdersSound
  <2> QED BY <2>1, <2>2, <2>3 DEF OrdersSound
<1>6. \A e \in kept : client # "browser" =>
        \A i \in DOMAIN book' : book'[i].commitment = Commitment(e.opening)' => i <= e.id
  BY <1>2, <1>4 DEF IdsNeverBehind
<1> QED BY <1>3, <1>5, <1>6

LEMMA StateWorks ==
  ASSUME TradingInv, NEW i \in DOMAIN book, book[i].state # "cancelled",
         NEW state \in {"matched", "cancelled"}, book' = [book EXCEPT ![i].state = state],
         cancels' \subseteq cancels,
         UNCHANGED <<client, hasUser, txs, kept, calls, failures, lost>>
  PROVE  TradingInv'
<1>1. States
  BY DEF TradingInv
<1>2. /\ book' \in Seq(Order) /\ Len(book') = Len(book) /\ DOMAIN book' = DOMAIN book
      /\ \A k \in DOMAIN book : book'[k].commitment = book[k].commitment
      /\ book'[i].state = state /\ \A k \in DOMAIN book : k # i => book'[k] = book[k]
  BY <1>1, StateChanged DEF States
<1>3. \A k \in DOMAIN book : book'[k].state # "cancelled" => book[k].state # "cancelled"
  BY <1>2
<1>a. \A t : Landed(t) => Landed(t)'
  BY DEF Landed
<1>4. OrdersSound' /\ IdsNeverBehind'
  BY <1>2, <1>a, SameCommitments DEF IdsNeverBehind
<1>5. \A k \in DOMAIN book : IsOurs(k)' = IsOurs(k)
  BY <1>2, <1>a, SameCommitments
<1>6. Alive' \subseteq Alive
  BY <1>2, <1>3, <1>5 DEF Alive
<1> QED BY <1>1, <1>2, <1>4, <1>6, <1>a, ProgramWorks DEF States

LEMMA AppendWorks ==
  ASSUME TradingInv, NEW x \in Order, Len(book) < MaxOrders, book' = Append(book, x), x.state = "resting",
         hasUser' \in BOOLEAN, cancels' = cancels,
         txs' \in Seq(Tx), Len(txs') = Len(txs), DOMAIN txs' = DOMAIN txs,
         UNCHANGED <<client, kept, calls, failures, lost>>,
         \A t : Landed(t) => Landed(t)',
         \A t \in DOMAIN txs : txs'[t].fate = "flying" => txs[t].fate = "flying",
         NEW t,
         \/ x.commitment.form = "others"
         \/ t \in DOMAIN txs /\ x.commitment = Commitment(t) /\ txs[t].fate = "flying" /\ txs'[t].fate = "landed"
  PROVE  TradingInv'
<1>1. States /\ OrdersSound /\ KeptSound
  BY DEF TradingInv
<1>2. /\ book' \in Seq(Order) /\ Len(book) \in Nat /\ Len(book') = Len(book) + 1
      /\ DOMAIN book' = DOMAIN book \union {Len(book) + 1} /\ Len(book) + 1 \notin DOMAIN book
      /\ \A i \in DOMAIN book : i <= Len(book)
      /\ book'[Len(book) + 1] = x /\ \A k \in DOMAIN book : book'[k] = book[k]
  BY <1>1, OrderAppended DEF States
<1>3. Len(book') <= MaxOrders
  BY <1>2, TradingAssumption
<1>4. PICK n : n = Len(book) + 1
  OBVIOUS
<1>5. \A u : Commitment(u)' = Commitment(u)
  BY DEF Commitment, EncryptOrderBlob, ComputeCommitment
<1>6. \A i \in DOMAIN book : IsOurs(i)' = IsOurs(i)
  BY <1>2 DEF IsOurs
<1>7. IsOurs(n)' => /\ x.commitment = Commitment(t) /\ x.commitment.of = t
                    /\ txs[t].fate = "flying" /\ Landed(t)'
  <2>1. IsOurs(n)' => x.commitment.form # "others"
    BY <1>2, <1>4 DEF IsOurs
  <2> QED BY <2>1, CommitmentFields DEF Landed
<1>8. ~ (txs[t].fate = "flying" /\ Landed(t))
  BY DEF Landed
<1>9. \A i \in DOMAIN book : IsOurs(i) => /\ book[i].commitment = Commitment(book[i].commitment.of)
                                          /\ Landed(book[i].commitment.of)
  BY <1>1 DEF OrdersSound
<1>10. OrdersSound'
  <2>1. ASSUME NEW i \in DOMAIN book', IsOurs(i)'
        PROVE  book'[i].commitment = Commitment(book[i].commitment.of)' /\ Landed(book[i].commitment.of)'
    <3>1. CASE i = n
      <4>1. book'[i].commitment = x.commitment
        BY <1>2, <1>4, <3>1
      <4>2. x.commitment = Commitment(t)' /\ x.commitment.of = t /\ Landed(t)'
        BY <1>5, <1>7, <2>1, <3>1
      <4> QED BY <4>1, <4>2
    <3>2. CASE i \in DOMAIN book
      <4>1. PICK u : u = book[i].commitment.of
        OBVIOUS
      <4>2. book[i].commitment = Commitment(u) /\ Landed(u)
        BY <1>6, <1>9, <2>1, <3>2, <4>1
      <4>3. book'[i].commitment = Commitment(u)' /\ Landed(u)' /\ book'[i].commitment.of = u
        BY <1>2, <1>5, <3>2, <4>1, <4>2
      <4> QED BY <4>3
    <3> QED BY <1>2, <1>4, <3>1, <3>2
  <2>2. ASSUME NEW i \in DOMAIN book', NEW k \in DOMAIN book', IsOurs(i)', IsOurs(k)',
               book'[i].commitment.of = book'[k].commitment.of
        PROVE  i = k
    <3>1. CASE i \in DOMAIN book /\ k \in DOMAIN book
      BY <1>1, <1>2, <1>6, <2>2, <3>1 DEF OrdersSound
    <3>2. CASE i = n /\ k \in DOMAIN book
      <4>1. book[k].commitment.of = t /\ Landed(t)
        BY <1>2, <1>4, <1>6, <1>7, <1>9, <2>2, <3>2
      <4> QED BY <1>7, <1>8, <2>2, <3>2, <4>1
    <3>3. CASE k = n /\ i \in DOMAIN book
      <4>1. book[i].commitment.of = t /\ Landed(t)
        BY <1>2, <1>4, <1>6, <1>7, <1>9, <2>2, <3>3
      <4> QED BY <1>7, <1>8, <2>2, <3>3, <4>1
    <3>4. (i = n \/ i \in DOMAIN book) /\ (k = n \/ k \in DOMAIN book)
      BY <1>2, <1>4
    <3> QED BY <3>1, <3>2, <3>3, <3>4
  <2> QED BY <2>1, <2>2 DEF OrdersSound
<1>11. IdsNeverBehind'
  <2> SUFFICES ASSUME client # "browser", NEW e \in kept, NEW i \in DOMAIN book',
                      book'[i].commitment = Commitment(e.opening)
               PROVE  i <= e.id
    BY <1>5 DEF IdsNeverBehind
  <2>1. CASE i \in DOMAIN book
    BY <1>1, <1>2, <2>1 DEF KeptSound, IdsNeverBehind
  <2>2. CASE i = n
    <3>1. x.commitment = Commitment(e.opening)
      BY <1>2, <1>4, <2>2
    <3>2. x.commitment.form # "others" /\ x.commitment.of = e.opening
      BY <3>1, CommitmentFields
    <3>3. e.opening = t /\ txs[t].fate = "flying" /\ t \in DOMAIN txs
      <4>1. t \in DOMAIN txs /\ x.commitment = Commitment(t) /\ txs[t].fate = "flying"
        BY <3>2
      <4>2. x.commitment.of = t
        BY <4>1, CommitmentFields
      <4> QED BY <3>2, <4>1, <4>2
    <3>4. t # 0
      BY <1>1, <3>3, TxFacts
    <3>5. Landed(t)
      BY <1>1, <3>3, <3>4 DEF KeptSound
    <3> QED BY <1>8, <3>3, <3>5
  <2> QED BY <1>2, <1>4, <2>1, <2>2
<1>12. Alive' \subseteq Alive
  <2> SUFFICES ASSUME NEW u \in Alive' PROVE u \in Alive
    OBVIOUS
  <2>1. u \in DOMAIN txs
    BY DEF Alive
  <2>2. CASE txs'[u].fate = "flying"
    BY <2>1, <2>2 DEF Alive
  <2>3. CASE \E i \in DOMAIN book' : IsOurs(i)' /\ book'[i].commitment.of = u /\ book'[i].state # "cancelled"
    <3>1. PICK i \in DOMAIN book' : IsOurs(i)' /\ book'[i].commitment.of = u /\ book'[i].state # "cancelled"
      BY <2>3
    <3>2. CASE i = n
      BY <1>2, <1>4, <1>7, <2>1, <3>1, <3>2 DEF Alive
    <3>3. CASE i \in DOMAIN book
      BY <1>2, <1>6, <2>1, <3>1, <3>3 DEF Alive
    <3> QED BY <1>2, <1>4, <3>2, <3>3
  <2> QED BY <2>2, <2>3 DEF Alive
<1> QED BY <1>2, <1>3, <1>10, <1>11, <1>12, ProgramWorks

FateSet(fate, t) ==
  /\ txs' \in Seq(Tx) /\ Len(txs') = Len(txs) /\ DOMAIN txs' = DOMAIN txs
  /\ txs'[t].fate = fate /\ \A u \in DOMAIN txs : u # t => txs'[u] = txs[u]

LEMMA FateSetBy ==
  ASSUME States, NEW t \in DOMAIN txs, NEW fate \in {"flying", "landed", "refused", "expired"},
         txs' = [txs EXCEPT ![t].fate = fate]
  PROVE  FateSet(fate, t)
  BY FateChanged DEF FateSet, States

\* A transaction that does not land.
LEMMA FateWorks ==
  ASSUME TradingInv, NEW t \in DOMAIN txs, txs[t].fate = "flying", NEW fate \in {"refused", "expired"},
         FateSet(fate, t),
         UNCHANGED <<client, hasUser, book, cancels, kept, calls, failures, lost>>
  PROVE  TradingInv'
<1>1. States
  BY DEF TradingInv
<1>2. \A u : Landed(u) => Landed(u)'
  BY DEF FateSet, Landed
<1>3. OrdersSound' /\ IdsNeverBehind'
  BY <1>2, SameCommitments DEF IdsNeverBehind
<1>4. \A i \in DOMAIN book : IsOurs(i)' = IsOurs(i)
  BY <1>2, SameCommitments
<1>5. \A u \in DOMAIN txs : txs'[u].fate = "flying" => txs[u].fate = "flying"
  BY DEF FateSet
<1>6. Alive' \subseteq Alive
  BY <1>4, <1>5 DEF Alive, FateSet
<1> QED BY <1>1, <1>2, <1>3, <1>6, ProgramWorks DEF FateSet, States


LEMMA ProgramSteps == ASSUME TradingInv, ProgramStep PROVE TradingInv'
<1>1. States
  BY DEF TradingInv
<1>2. ASSUME NEW t \in DOMAIN txs, PlaceLands(t) PROVE TradingInv'
  <2>1. txs[t].fate = "flying" /\ UNCHANGED <<client, cancels, kept, calls, failures, lost>>
    BY <1>2 DEF PlaceLands
  <2>2. CASE txs' = [txs EXCEPT ![t].fate = "refused"] /\ UNCHANGED <<hasUser, book>>
    <3>1. FateSet("refused", t)
      BY <1>1, <2>2, FateSetBy
    <3> QED BY <2>1, <2>2, <3>1, FateWorks
  <2>3. CASE /\ Len(book) < MaxOrders
             /\ txs' = [txs EXCEPT ![t].fate = "landed"]
             /\ book' = Append(book, [commitment |-> Commitment(t), state |-> "resting"])
             /\ hasUser' = TRUE
    <3>1. FateSet("landed", t)
      BY <1>1, <2>3, FateSetBy
    <3>2. PICK x : x = [commitment |-> Commitment(t), state |-> "resting"]
      OBVIOUS
    <3>3. t \in Nat
      BY <1>1, TxFacts
    <3>4. x \in Order /\ x.state = "resting" /\ x.commitment = Commitment(t)
      BY <3>2, <3>3, CommitmentFields DEF Order
    <3>5. /\ \A u : Landed(u) => Landed(u)'
          /\ \A u \in DOMAIN txs : txs'[u].fate = "flying" => txs[u].fate = "flying"
      BY <2>1, <3>1 DEF FateSet, Landed
    <3>6. book' = Append(book, x) /\ hasUser' \in BOOLEAN /\ txs'[t].fate = "landed"
      BY <2>3, <3>1, <3>2 DEF FateSet
    <3> QED BY <2>1, <2>3, <3>1, <3>4, <3>5, <3>6, AppendWorks DEF FateSet
  <2> QED BY <1>2, <2>2, <2>3 DEF PlaceLands
<1>3. ASSUME NEW t \in DOMAIN txs, PlaceExpires(t) PROVE TradingInv'
  <2>1. txs[t].fate = "flying" /\ txs' = [txs EXCEPT ![t].fate = "expired"]
        /\ UNCHANGED <<client, hasUser, book, cancels, kept, calls, failures, lost>>
    BY <1>3 DEF PlaceExpires
  <2>2. FateSet("expired", t)
    BY <1>1, <2>1, FateSetBy
  <2> QED BY <2>1, <2>2, FateWorks
<1>4. ASSUME NEW e \in Entries, CancelLands(e) PROVE TradingInv'
  <2>1. /\ e.id \in DOMAIN book /\ book[e.id].state = "resting"
        /\ book' = [book EXCEPT ![e.id].state = "cancelled"] /\ cancels' = cancels \ {e}
        /\ UNCHANGED <<client, hasUser, txs, kept, calls, failures, lost>>
    BY <1>4 DEF CancelLands, CancelAccepted
  <2> QED BY <2>1, StateWorks
<1>5. ASSUME OthersPlace PROVE TradingInv'
  <2>1. /\ Len(book) < MaxOrders
        /\ book' = Append(book, [commitment |-> OthersOrder, state |-> "resting"])
        /\ UNCHANGED <<client, hasUser, txs, cancels, kept, calls, failures, lost>>
    BY <1>5 DEF OthersPlace
  <2>2. PICK x : x = [commitment |-> OthersOrder, state |-> "resting"]
    OBVIOUS
  <2>3. x \in Order /\ x.state = "resting" /\ x.commitment.form = "others"
    BY <2>2 DEF Order, Commitments, OthersOrder
  <2>4. txs' \in Seq(Tx) /\ hasUser' \in BOOLEAN
    BY <1>1, <2>1 DEF States
  <2>5. \A u : Landed(u) => Landed(u)'
    BY <2>1 DEF Landed
  <2>6. book' = Append(book, x)
    BY <2>1, <2>2
  <2> QED BY <2>1, <2>3, <2>4, <2>5, <2>6, AppendWorks
<1>6. ASSUME NEW i \in DOMAIN book, OrderMatched(i) PROVE TradingInv'
  <2>1. /\ book[i].state = "resting" /\ book' = [book EXCEPT ![i].state = "matched"]
        /\ UNCHANGED <<client, hasUser, txs, cancels, kept, calls, failures, lost>>
    BY <1>6 DEF OrderMatched
  <2> QED BY <2>1, StateWorks
<1> QED BY <1>2, <1>3, <1>4, <1>5, <1>6 DEF ProgramStep

-----------------------------------------------------------------------------
(* The clients: the calls.                                                 *)

\* A step of the call c, which becomes q.  It may drop the entries of out and
\* keep those of more; of out, those of gone are openings that may be needed.
LEMMA CallWorks ==
  ASSUME TradingInv, client' = client, hasUser' = hasUser,
         NEW c \in Calls, NEW q \in Call, calls' = [calls EXCEPT ![c] = q], CallSound(q)',
         q.entry.opening = 0 \/ q.entry \in kept \/ q.entry = calls[c].entry,
         book' \in Seq(Order), Len(book') = Len(book), DOMAIN book' = DOMAIN book,
         \A k \in DOMAIN book : /\ book'[k].commitment = book[k].commitment
                                /\ book'[k].state # "cancelled" => book[k].state # "cancelled",
         txs' \in Seq(Tx), Len(txs') <= MaxSends[client],
         \A t \in DOMAIN txs : t \in DOMAIN txs' /\ txs'[t] = txs[t],
         \A t \in DOMAIN txs' : t \in DOMAIN txs \/ t = q.tx,
         cancels' \subseteq cancels \union {calls[c].entry}, client = "browser" => cancels' = {},
         NEW out \in SUBSET kept, NEW more \in SUBSET Entries, IsFiniteSet(more),
         kept' = (kept \ out) \union more,
         client # "browser" =>
           /\ \A e, f \in more : e = f
           /\ \A e \in more : /\ e.opening = 0 \/ Landed(e.opening)
                              /\ client = "tools" => e.opening = 0
                              /\ e.id = Len(book)
                              /\ \A f \in kept \ out : f.id = e.id => f = e,
         NEW gone \in SUBSET out, \A e \in out : e \in gone \/ e.opening \notin Alive',
         failures' \in 0 .. MaxFailures,
         NEW k \in {0, 1}, k = 0 => client = "tools" \/ calls[c].tx \notin Missing',
         lost' = lost + Cardinality(gone) + k
  PROVE  TradingInv'
<1>1. States /\ CallsSound /\ KeptSound /\ LossesCounted
  BY DEF TradingInv
<1>2. States'
  <2>1. IsFiniteSet(gone) /\ IsFiniteSet(kept \ out)
    BY <1>1, FS_Subset DEF States
  <2>2. IsFiniteSet(kept') /\ kept' \subseteq Entries
    BY <1>1, <2>1, FS_Union DEF States
  <2>3. Cardinality(gone) \in Nat
    BY <2>1, FS_CardinalityType
  <2>4. lost' \in Nat
    BY <1>1, <2>3 DEF States
  <2>5. calls' \in [Calls -> Call] /\ calls[c].entry \in Entries
    BY <1>1 DEF States, Call
  <2> QED BY <1>1, <2>2, <2>4, <2>5 DEF States
<1>3. calls'[c] = q /\ \A d \in Calls : d # c => calls'[d] = calls[d]
  BY <1>1 DEF States
<1>4. CallsSound'
  <2>1. ASSUME NEW d \in Calls PROVE CallSound(calls[d])'
    <3>1. CASE d = c
      BY <1>3, <3>1
    <3>2. CASE d # c
      <4>1. CallSound(calls[d])
        BY <1>1 DEF CallsSound
      <4> QED BY <1>3, <3>2, <4>1 DEF CallSound
    <3> QED BY <3>1, <3>2
  <2> QED BY <2>1 DEF CallsSound
<1>5. \A t : Landed(t) => Landed(t)'
  BY DEF Landed
<1>6. /\ OrdersSound'
      /\ \A i \in DOMAIN book : IsOurs(i)' = IsOurs(i)
      /\ \A e \in kept : client # "browser" =>
           \A i \in DOMAIN book' : book'[i].commitment = Commitment(e.opening)' => i <= e.id
  BY <1>5, SameCommitments
<1>7. KeptSound'
  <2>1. ASSUME client # "browser", NEW e \in kept', NEW f \in kept', e.id = f.id PROVE e = f
    BY <1>1, <2>1 DEF KeptSound
  <2>2. ASSUME client # "browser", NEW e \in kept' PROVE e.opening = 0 \/ Landed(e.opening)'
    BY <1>1, <1>5, <2>2 DEF KeptSound
  <2>3. ASSUME client = "tools"
        PROVE  /\ \A e \in kept' : e.opening = 0
               /\ \A e \in cancels' : e.opening = 0
               /\ \A d \in Calls : calls'[d].entry.opening = 0
    <3>1. /\ \A e \in kept : e.opening = 0
          /\ \A e \in cancels : e.opening = 0
          /\ \A d \in Calls : calls[d].entry.opening = 0
      BY <1>1, <2>3 DEF KeptSound
    <3>2. \A e \in kept' : e.opening = 0
      BY <2>3, <3>1
    <3> QED BY <1>3, <3>1, <3>2
  <2>4. IdsNeverBehind'
    <3> SUFFICES ASSUME client # "browser", NEW e \in kept', NEW i \in DOMAIN book',
                        book'[i].commitment = Commitment(e.opening)'
                 PROVE  i <= e.id
      BY DEF IdsNeverBehind
    <3>1. CASE e \in kept
      BY <1>6, <3>1
    <3>2. CASE e \in more
      <4>1. e.id = Len(book) /\ i \in 1 .. Len(book)
        BY <1>1, <3>2 DEF States
      <4> QED BY <4>1
    <3> QED BY <3>1, <3>2
  <2> QED BY <2>1, <2>2, <2>3, <2>4 DEF KeptSound
<1>8. \A t \in Alive' : t \in Alive \/ t = q.tx
  <2> SUFFICES ASSUME NEW t \in Alive', t # q.tx PROVE t \in Alive
    OBVIOUS
  <2>1. t \in DOMAIN txs /\ txs'[t] = txs[t]
    BY DEF Alive
  <2>2. CASE txs'[t].fate = "flying"
    BY <2>1, <2>2 DEF Alive
  <2>3. CASE \E i \in DOMAIN book' : IsOurs(i)' /\ book'[i].commitment.of = t /\ book'[i].state # "cancelled"
    <3>1. PICK i \in DOMAIN book' : IsOurs(i)' /\ book'[i].commitment.of = t /\ book'[i].state # "cancelled"
      BY <2>3
    <3>2. i \in DOMAIN book /\ IsOurs(i) /\ book[i].commitment.of = t /\ book[i].state # "cancelled"
      BY <1>6, <3>1
    <3> QED BY <2>1, <3>2 DEF Alive
  <2> QED BY <2>2, <2>3 DEF Alive
<1>9. LossesCounted'
  <2>1. gone \in SUBSET kept
    OBVIOUS
  <2>2. \A e \in kept : e \in kept' \/ e \in gone \/ e.opening \notin Alive'
    OBVIOUS
  <2> QED BY <1>1, <1>2, <1>8, <2>1, <2>2, LossBound
<1> QED BY <1>2, <1>4, <1>6, <1>7, <1>9 DEF TradingInv

\* Nothing of the book changes, and nothing is dropped or kept: what most calls do.
LEMMA CallMoves ==
  ASSUME TradingInv, UNCHANGED <<client, hasUser, book, kept>>,
         NEW c \in Calls, NEW q \in Call, calls' = [calls EXCEPT ![c] = q], CallSound(q)',
         q.entry.opening = 0 \/ q.entry \in kept \/ q.entry = calls[c].entry,
         txs' \in Seq(Tx), Len(txs') <= MaxSends[client],
         \A t \in DOMAIN txs : t \in DOMAIN txs' /\ txs'[t] = txs[t],
         \A t \in DOMAIN txs' : t \in DOMAIN txs \/ t = q.tx,
         cancels' \subseteq cancels \union {calls[c].entry}, client = "browser" => cancels' = {},
         failures' \in 0 .. MaxFailures,
         NEW k \in {0, 1}, k = 0 => calls[c].tx \notin Missing', lost' = lost + k
  PROVE  TradingInv'
<1>1. States
  BY DEF TradingInv
<1>2. book' \in Seq(Order) /\ lost \in Nat
  BY <1>1 DEF States
<1>3. PICK none : none = {}
  OBVIOUS
<1>4. /\ none \in SUBSET kept /\ none \in SUBSET Entries /\ IsFiniteSet(none) /\ Cardinality(none) = 0
      /\ kept' = (kept \ none) \union none /\ none \in SUBSET none /\ \A e \in none : FALSE
  BY <1>3, FS_EmptySet
<1>5. lost' = lost + Cardinality(none) + k
  BY <1>2, <1>4
<1> QED BY <1>2, <1>4, <1>5, CallWorks

LEMMA SendFacts ==
  ASSUME TradingInv, NEW c \in Calls, NEW attempt \in 1 .. MaxAttempts, NEW initUser \in BOOLEAN,
         Room, client' = client, Send(c, attempt, initUser)
  PROVE  \E q \in Call :
           /\ calls' = [calls EXCEPT ![c] = q] /\ CallSound(q)' /\ q.entry.opening = 0
           /\ txs' \in Seq(Tx) /\ Len(txs') <= MaxSends[client]
           /\ \A t \in DOMAIN txs : t \in DOMAIN txs' /\ txs'[t] = txs[t]
           /\ \A t \in DOMAIN txs' : t \in DOMAIN txs \/ t = q.tx
<1>1. States /\ attempt \in 0 .. MaxAttempts
  BY TradingAssumption DEF TradingInv
<1>2. PICK n \in Nat : n = Len(txs) + 1
  BY <1>1 DEF States
<1>3. PICK q : q = [Quiet EXCEPT !.kind = "place", !.stage = "confirming", !.attempt = attempt, !.tx = n]
  OBVIOUS
<1>4. q = [kind |-> "place", stage |-> "confirming", attempt |-> attempt, tx |-> n,
           entry |-> NoEntry, seen |-> {}]
  BY <1>3 DEF Quiet
<1>5. q \in Call /\ q.entry.opening = 0
  BY <1>1, <1>4, EntryFields DEF Call
<1>6. calls' = [calls EXCEPT ![c] = q]
  BY <1>2, <1>3 DEF Send
<1>7. PICK x \in Tx : x = [initUser |-> initUser, fate |-> "flying"] /\ txs' = Append(txs, x)
  BY DEF Send, Tx
<1>8. /\ txs' \in Seq(Tx) /\ Len(txs') = n /\ DOMAIN txs' = DOMAIN txs \union {n}
      /\ n \notin DOMAIN txs /\ \A t \in DOMAIN txs : txs'[t] = txs[t]
  BY <1>1, <1>2, <1>7 DEF States
<1>9. Len(txs') <= MaxSends[client]
  <2>1. MaxSends[client] \in Nat /\ Len(txs) \in Nat /\ Len(txs) < MaxSends[client]
    BY <1>1, TradingAssumption DEF States, Room
  <2> QED BY <1>2, <1>8, <2>1
<1>10. CallSound(q)'
  BY <1>4, <1>8 DEF CallSound
<1> QED BY <1>4, <1>5, <1>6, <1>8, <1>9, <1>10

LEMMA SamePlace ==
  ASSUME TradingInv, UNCHANGED txs
  PROVE  /\ txs' \in Seq(Tx) /\ Len(txs') <= MaxSends[client]
         /\ \A t \in DOMAIN txs : t \in DOMAIN txs' /\ txs'[t] = txs[t]
         /\ \A t \in DOMAIN txs' : t \in DOMAIN txs
  BY DEF TradingInv, States

\* A call starts, or tries again.
LEMMA SendWorks ==
  ASSUME TradingInv, UNCHANGED <<client, hasUser, book, kept, cancels>>,
         NEW c \in Calls, NEW attempt \in 1 .. MaxAttempts, NEW initUser \in BOOLEAN,
         Room, Send(c, attempt, initUser), failures' \in 0 .. MaxFailures,
         NEW k \in {0, 1}, k = 0 => calls[c].tx \notin Missing', lost' = lost + k
  PROVE  TradingInv'
<1>1. PICK q \in Call :
           /\ calls' = [calls EXCEPT ![c] = q] /\ CallSound(q)' /\ q.entry.opening = 0
           /\ txs' \in Seq(Tx) /\ Len(txs') <= MaxSends[client]
           /\ \A t \in DOMAIN txs : t \in DOMAIN txs' /\ txs'[t] = txs[t]
           /\ \A t \in DOMAIN txs' : t \in DOMAIN txs \/ t = q.tx
  BY SendFacts
<1>2. cancels' \subseteq cancels \union {calls[c].entry} /\ (client = "browser" => cancels' = {})
  BY DEF TradingInv, CallsSound
<1> QED BY <1>1, <1>2, CallMoves

LEMMA ReturnWorks ==
  ASSUME TradingInv, UNCHANGED <<client, hasUser, book, kept, txs>>,
         NEW c \in Calls, Return(c),
         cancels' \subseteq cancels \union {calls[c].entry}, client = "browser" => cancels' = {},
         failures' \in 0 .. MaxFailures,
         NEW k \in {0, 1}, k = 0 => calls[c].tx \notin Missing', lost' = lost + k
  PROVE  TradingInv'
<1>1. Quiet \in Call /\ calls' = [calls EXCEPT ![c] = Quiet] /\ Quiet.entry.opening = 0
  BY QuietCall, EntryFields DEF Return
<1>2. CallSound(Quiet)'
  BY DEF CallSound, Quiet
<1> QED BY <1>1, <1>2, SamePlace, CallMoves

LEMMA StageFacts ==
  ASSUME TradingInv, NEW c \in Calls
  PROVE  /\ calls[c] \in Call /\ calls[c].attempt \in 0 .. MaxAttempts /\ calls[c].entry \in Entries
         /\ calls[c].seen \in SUBSET Entries
         /\ calls[c].kind \in {"none", "close"} => calls[c].tx = 0
         /\ calls[c].stage = "confirming" => calls[c].kind = "place" /\ calls[c].tx \in DOMAIN txs
         /\ calls[c].stage = "cancelling" => calls[c].kind = "close" /\ calls[c].tx = 0 /\ client # "browser"
<1>1. calls[c] \in Call /\ CallSound(calls[c])
  BY DEF TradingInv, States, CallsSound
<1> QED BY <1>1 DEF Call, CallSound

\* No order comes of a transaction that did not land.
LEMMA NotMissing ==
  ASSUME TradingInv, UNCHANGED <<client, book>>, NEW t,
         \A u \in DOMAIN txs : u \in DOMAIN txs' /\ txs'[u] = txs[u],
         t = 0 \/ t \in DOMAIN txs, 0 \notin DOMAIN txs',
         t \in DOMAIN txs => txs[t].fate \in {"expired", "refused"}
  PROVE  t \notin Missing'
<1>1. States /\ OrdersSound
  BY DEF TradingInv
<1>2. SUFFICES ASSUME t \in Alive' PROVE FALSE
  BY DEF Missing
<1>3. t \in DOMAIN txs' /\ t \in DOMAIN txs
  BY <1>2 DEF Alive
<1>4. txs'[t].fate \in {"expired", "refused"}
  BY <1>3
<1>5. PICK i \in DOMAIN book : IsOurs(i) /\ book[i].commitment.of = t
  BY <1>2, <1>4 DEF Alive, IsOurs
<1>6. Landed(t)
  BY <1>1, <1>5 DEF OrdersSound
<1> QED BY <1>3, <1>6 DEF Landed

LEMMA ThrowWorks ==
  ASSUME TradingInv, UNCHANGED <<client, hasUser, book, kept, cancels>>,
         NEW c \in Calls, calls[c].stage = "confirming", Throw(c), failures' \in 0 .. MaxFailures,
         NEW k \in {0, 1}, k = 0 => txs[calls[c].tx].fate = "expired", lost' = lost + k
  PROVE  TradingInv'
<1>1. /\ calls[c].tx \in DOMAIN txs /\ calls[c].attempt \in 0 .. MaxAttempts
  BY StageFacts
<1>2. CASE calls[c].attempt < Attempts /\ Room
  <2>1. Send(c, calls[c].attempt + 1, FALSE)
    BY <1>2 DEF Throw
  <2>2. PICK a \in 1 .. MaxAttempts : a = calls[c].attempt + 1
    <3>1. MaxAttempts \in Nat \ {0}
      BY TradingAssumption
    <3>2. Attempts \in {1, MaxAttempts}
      BY DEF Attempts
    <3> QED BY <1>1, <1>2, <3>1, <3>2
  <2>3. /\ txs' \in Seq(Tx) /\ \A t \in DOMAIN txs : t \in DOMAIN txs' /\ txs'[t] = txs[t]
    BY <1>2, <2>1, <2>2, SendFacts
  <2>4. 0 \notin DOMAIN txs'
    BY <2>3
  <2>5. k = 0 => calls[c].tx \notin Missing'
    BY <1>1, <2>3, <2>4, NotMissing
  <2> QED BY <1>2, <2>1, <2>2, <2>5, SendWorks
<1>3. CASE ~ (calls[c].attempt < Attempts /\ Room)
  <2>1. Return(c) /\ UNCHANGED txs
    BY <1>3 DEF Throw
  <2>2. 0 \notin DOMAIN txs'
    BY <2>1, TxFacts DEF TradingInv
  <2>3. k = 0 => calls[c].tx \notin Missing'
    BY <1>1, <2>1, <2>2, NotMissing
  <2>4. cancels' \subseteq cancels \union {calls[c].entry} /\ (client = "browser" => cancels' = {})
    BY DEF TradingInv, CallsSound
  <2> QED BY <2>1, <2>3, <2>4, ReturnWorks
<1> QED BY <1>2, <1>3

LEMMA CallStarts ==
  ASSUME TradingInv, NEW c \in Calls, calls[c].kind = "none", Room, NEW initUser \in BOOLEAN,
         Send(c, 1, initUser),
         UNCHANGED <<client, hasUser, book, cancels, kept, failures, lost>>
  PROVE  TradingInv'
<1>1. 1 \in 1 .. MaxAttempts /\ calls[c].tx = 0
  BY StageFacts, TradingAssumption
<1>2. txs' \in Seq(Tx)
  BY <1>1, SendFacts
<1>3. calls[c].tx \notin Missing'
  BY <1>1, <1>2 DEF Missing, Alive
<1>4. failures' \in 0 .. MaxFailures /\ lost' = lost + 0
  BY DEF TradingInv, States
<1> QED BY <1>1, <1>3, <1>4, SendWorks

LEMMA FailureCount == ASSUME TradingInv, Fail PROVE failures' \in 0 .. MaxFailures
<1>1. failures \in 0 .. MaxFailures /\ MaxFailures \in Nat
  BY TradingAssumption DEF TradingInv, States
<1> QED BY <1>1 DEF Fail

\* The id that is read is that of the last order; the tools do not keep the opening.
LEMMA RecordFacts ==
  ASSUME TradingInv, NEW t, Landed(t)
  PROVE  /\ Record(t) \in Entries /\ Record(t).id = Len(book)
         /\ Record(t).opening = IF client = "tools" THEN 0 ELSE t
<1>1. Record(t) = [id |-> Len(book), opening |-> IF client = "tools" THEN 0 ELSE t]
  BY DEF Record, OrderIdRead
<1>2. Len(book) \in 0 .. MaxOrders /\ t \in Openings
  <2>1. States /\ MaxOrders \in Nat
    BY TradingAssumption DEF TradingInv
  <2>2. Len(book) \in Nat /\ Len(book) <= MaxOrders
    BY <2>1 DEF States
  <2>3. t \in DOMAIN txs
    BY DEF Landed
  <2>4. t \in Openings
    BY <2>1, <2>3, TxFacts
  <2> QED BY <2>1, <2>2, <2>4
<1>3. PICK o \in {0} \union Openings : o = IF client = "tools" THEN 0 ELSE t
  BY <1>2
<1>4. Record(t) = [id |-> Len(book), opening |-> o]
  BY <1>1, <1>3
<1> QED BY <1>2, <1>3, <1>4, EntryMade

LEMMA ReadOrderIdWorks == ASSUME TradingInv, NEW c \in Calls, ReadOrderId(c) PROVE TradingInv'
<1>1. /\ client # "browser" /\ calls[c].stage = "confirming" /\ txs[calls[c].tx].fate = "landed"
      /\ Keep(Record(calls[c].tx)) /\ Return(c)
      /\ UNCHANGED <<client, hasUser, book, txs, cancels, failures>>
  BY DEF ReadOrderId, Awaits
<1>2. PICK t : t = calls[c].tx /\ Landed(t)
  BY <1>1, StageFacts DEF Landed
<1>3. PICK e \in Entries : e = Record(t) /\ e.id = Len(book) /\ e.opening = IF client = "tools" THEN 0 ELSE t
  BY <1>2, RecordFacts
<1>4. PICK out : out = {k \in kept : k.id = e.id /\ k.opening # e.opening}
  OBVIOUS
<1>5. kept' = (kept \ out) \union {e} /\ lost' = lost + Cardinality(out)
  BY <1>1, <1>2, <1>3, <1>4 DEF Keep
<1>6. out \in SUBSET kept /\ \A f \in kept \ out : f.id = e.id => f = e
  <2>1. kept \subseteq Entries
    BY DEF TradingInv, States
  <2> QED BY <1>4, <2>1, EntryFields
<1>7. IsFiniteSet({e}) /\ {e} \in SUBSET Entries
  BY FS_Singleton
<1>8. Cardinality(out) \in Nat /\ lost \in Nat
  BY <1>6, FS_Subset, FS_CardinalityType DEF TradingInv, States
<1>9. Quiet \in Call /\ calls' = [calls EXCEPT ![c] = Quiet] /\ Quiet.entry.opening = 0
  BY <1>1, QuietCall, EntryFields DEF Return
<1>10. CallSound(Quiet)'
  BY DEF CallSound, Quiet
<1>11. client = "tools" \/ t \notin Missing'
  <2>1. client # "tools" => e \in kept' /\ e.opening = t
    BY <1>3, <1>5
  <2> QED BY <2>1 DEF Missing, Held
<1>12. lost' = lost + Cardinality(out) + 0
  BY <1>5, <1>8
<1>13. \A f \in {e} : /\ f.opening = 0 \/ Landed(f.opening)
                      /\ client = "tools" => f.opening = 0
                      /\ f.id = Len(book)
                      /\ \A g \in kept \ out : g.id = f.id => g = f
  BY <1>2, <1>3, <1>6
<1>14. book' \in Seq(Order) /\ failures' \in 0 .. MaxFailures
       /\ cancels' \subseteq cancels \union {calls[c].entry} /\ (client = "browser" => cancels' = {})
  BY <1>1 DEF TradingInv, States, CallsSound
<1>15. out \in SUBSET out /\ \A x, y \in {e} : x = y
  OBVIOUS
<1> QED BY <1>1, <1>2, <1>5, <1>6, <1>7, <1>9, <1>10, <1>11, <1>12, <1>13, <1>14, <1>15, SamePlace, CallWorks

LEMMA HandleSubmitWorks == ASSUME TradingInv, NEW c \in Calls, HandleSubmit(c) PROVE TradingInv'
<1>1. /\ client = "browser" /\ calls[c].stage = "confirming" /\ Return(c)
      /\ UNCHANGED <<client, hasUser, book, txs, cancels, failures, lost>>
      /\ \/ kept' = kept \union {[id |-> 0, opening |-> calls[c].tx]}
         \/ txs[calls[c].tx].fate = "expired" /\ kept' = kept
  BY DEF HandleSubmit
<1>2. PICK t \in DOMAIN txs : t = calls[c].tx
  BY <1>1, StageFacts
<1>3. PICK none : none = {}
  OBVIOUS
<1>4. /\ none \in SUBSET kept /\ none \in SUBSET none /\ Cardinality(none) = 0 /\ \A e \in none : FALSE
      /\ none \in SUBSET Entries /\ IsFiniteSet(none)
  BY <1>3, FS_EmptySet
<1>5. PICK e \in Entries : e = [id |-> 0, opening |-> t] /\ e.opening = t
  <2>1. \A n \in 0 .. MaxOrders, u \in {0} \union Openings :
          \E e \in Entries : e = [id |-> n, opening |-> u] /\ e.opening = u
    BY EntryMade
  <2>2. t \in {0} \union Openings
    BY TxFacts DEF TradingInv
  <2>3. 0 \in 0 .. MaxOrders
    BY TradingAssumption
  <2> QED BY <2>1, <2>2, <2>3, Zenon
<1>6. Quiet \in Call /\ calls' = [calls EXCEPT ![c] = Quiet] /\ Quiet.entry.opening = 0 /\ CallSound(Quiet)'
  <2>1. CallSound(Quiet)'
    BY DEF CallSound, Quiet
  <2> QED BY <1>1, <2>1, QuietCall, EntryFields DEF Return
<1>7. /\ book' \in Seq(Order) /\ failures' \in 0 .. MaxFailures /\ lost' = lost + Cardinality(none) + 0
      /\ cancels' \subseteq cancels \union {calls[c].entry} /\ cancels' = {}
  <2>1. lost \in Nat
    BY DEF TradingInv, States
  <2>2. lost' = lost + Cardinality(none) + 0
    BY <1>1, <1>4, <2>1
  <2> QED BY <1>1, <2>2 DEF TradingInv, States, CallsSound
<1>8. CASE kept' = kept \union {[id |-> 0, opening |-> calls[c].tx]}
  <2>1. kept' = (kept \ none) \union {e} /\ IsFiniteSet({e}) /\ {e} \in SUBSET Entries
    BY <1>2, <1>3, <1>5, <1>8, FS_Singleton
  <2>2. t \notin Missing'
    <3>1. e \in kept'
      BY <2>1
    <3> QED BY <1>5, <3>1 DEF Missing, Held
  <2> QED BY <1>1, <1>2, <1>4, <1>6, <1>7, <2>1, <2>2, SamePlace, CallWorks
<1>9. CASE txs[calls[c].tx].fate = "expired" /\ kept' = kept
  <2>1. kept' = (kept \ none) \union none
    BY <1>3, <1>9
  <2>2. 0 \notin DOMAIN txs'
    BY <1>1, TxFacts DEF TradingInv
  <2>3. t \notin Missing'
    BY <1>1, <1>2, <1>9, <2>2, NotMissing
  <2> QED BY <1>1, <1>2, <1>4, <1>6, <1>7, <2>1, <2>3, SamePlace, CallWorks
<1> QED BY <1>1, <1>8, <1>9

LEMMA TabGoneWorks == ASSUME TradingInv, NEW c \in Calls, TabGone(c) PROVE TradingInv'
<1>1. /\ client = "browser" /\ Fail /\ Return(c) /\ lost' = lost + 1
      /\ UNCHANGED <<client, hasUser, book, txs, cancels, kept>>
  BY DEF TabGone
<1>2. failures' \in 0 .. MaxFailures
  BY <1>1, FailureCount
<1>3. cancels' \subseteq cancels \union {calls[c].entry} /\ (client = "browser" => cancels' = {})
  BY <1>1 DEF TradingInv, CallsSound
<1> QED BY <1>1, <1>2, <1>3, ReturnWorks

\* The next order to cancel, if there is one.
LEMMA NextCancelFacts ==
  ASSUME NEW c \in Calls, client # "browser", UNCHANGED <<client, txs>>,
         NEW seen \in SUBSET Entries, NEW entries \in SUBSET Entries, NextCancel(c, seen, entries)
  PROVE  \E q \in Call :
           /\ calls' = [calls EXCEPT ![c] = q] /\ CallSound(q)'
           /\ q.entry.opening = 0 \/ q.entry \in entries
<1>1. CASE entries \ seen = {}
  <2>1. calls' = [calls EXCEPT ![c] = Quiet]
    BY <1>1 DEF NextCancel, Return
  <2>2. CallSound(Quiet)'
    BY DEF CallSound, Quiet
  <2> QED BY <2>1, <2>2, QuietCall, EntryFields
<1>2. CASE entries \ seen # {}
  <2>1. PICK e \in entries \ seen : calls' = [calls EXCEPT ![c] = CancelCall(e, seen \union {e})]
    BY <1>2 DEF NextCancel
  <2>2. PICK q : q = CancelCall(e, seen \union {e})
    OBVIOUS
  <2>3. seen \union {e} \in SUBSET Entries /\ e \in Entries
    OBVIOUS
  <2>4. q \in Call /\ q.entry = e
    BY <2>2, <2>3, CancelCallSound
  <2>5. CallSound(q)'
    BY <2>2 DEF CallSound, CancelCall
  <2> QED BY <2>1, <2>2, <2>4, <2>5
<1> QED BY <1>1, <1>2

LEMMA CancelStartsWorks == ASSUME TradingInv, NEW c \in Calls, CancelStarts(c) PROVE TradingInv'
<1>1. /\ client \in {"tools", "sealed"} /\ calls[c].kind = "none"
      /\ UNCHANGED <<client, hasUser, book, txs, cancels, kept, failures, lost>>
  BY DEF CancelStarts
<1>2. PICK e \in kept : calls' = [calls EXCEPT ![c] = CancelCall(e, {})]
  BY DEF CancelStarts
<1>3. PICK q : q = CancelCall(e, {})
  OBVIOUS
<1>4. e \in Entries
  BY DEF TradingInv, States
<1>5. q \in Call /\ q.entry = e /\ CallSound(q)'
  <2>1. {} \in SUBSET Entries
    OBVIOUS
  <2>2. q \in Call /\ q.entry = e
    BY <1>1, <1>3, <1>4, <2>1, CancelCallSound
  <2>3. CallSound(q)'
    BY <1>1, <1>3 DEF CallSound, CancelCall
  <2> QED BY <2>2, <2>3
<1>6. calls[c].tx \notin Missing'
  <2>1. calls[c].tx = 0 /\ 0 \notin DOMAIN txs'
    BY <1>1, StageFacts, TxFacts DEF TradingInv
  <2> QED BY <2>1 DEF Missing, Alive
<1>7. /\ cancels' \subseteq cancels \union {calls[c].entry} /\ (client = "browser" => cancels' = {})
      /\ failures' \in 0 .. MaxFailures /\ lost' = lost + 0
  BY <1>1 DEF TradingInv, States
<1> QED BY <1>1, <1>2, <1>3, <1>5, <1>6, <1>7, SamePlace, CallMoves

LEMMA CloseStartsWorks == ASSUME TradingInv, NEW c \in Calls, CloseStarts(c) PROVE TradingInv'
<1>1. /\ client = "agent" /\ calls[c].kind = "none" /\ NextCancel(c, {}, kept)
      /\ UNCHANGED <<client, hasUser, book, txs, cancels, kept, failures, lost>>
  BY DEF CloseStarts
<1>2. kept \in SUBSET Entries /\ {} \in SUBSET Entries
  BY DEF TradingInv, States
<1>3. PICK q \in Call : /\ calls' = [calls EXCEPT ![c] = q] /\ CallSound(q)'
                        /\ q.entry.opening = 0 \/ q.entry \in kept
  BY <1>1, <1>2, NextCancelFacts
<1>4. calls[c].tx \notin Missing'
  <2>1. calls[c].tx = 0 /\ 0 \notin DOMAIN txs'
    BY <1>1, StageFacts, TxFacts DEF TradingInv
  <2> QED BY <2>1 DEF Missing, Alive
<1>5. /\ cancels' \subseteq cancels \union {calls[c].entry} /\ (client = "browser" => cancels' = {})
      /\ failures' \in 0 .. MaxFailures /\ lost' = lost + 0
  BY <1>1 DEF TradingInv, States
<1> QED BY <1>1, <1>3, <1>4, <1>5, SamePlace, CallMoves

LEMMA CancelFailsWorks == ASSUME TradingInv, NEW c \in Calls, CancelFails(c) PROVE TradingInv'
<1>1. /\ calls[c].stage = "cancelling" /\ RetryCancel(c)
      /\ UNCHANGED <<client, hasUser, book, txs, kept, lost>>
      /\ \/ Fail /\ cancels' = cancels \union {calls[c].entry}
         \/ UNCHANGED <<failures, cancels>>
  BY DEF CancelFails
<1>2. /\ calls[c] \in Call /\ calls[c].kind = "close" /\ calls[c].tx = 0 /\ client # "browser"
      /\ calls[c].attempt \in 0 .. MaxAttempts /\ calls[c].seen \in SUBSET Entries
  BY <1>1, StageFacts
<1>3. PICK q \in Call : /\ calls' = [calls EXCEPT ![c] = q] /\ CallSound(q)'
                        /\ q.entry.opening = 0 \/ q.entry \in kept \/ q.entry = calls[c].entry
  <2>1. CASE client # "agent"
    <3>1. calls' = [calls EXCEPT ![c] = Quiet]
      BY <1>1, <2>1 DEF RetryCancel, Return
    <3>2. CallSound(Quiet)'
      BY DEF CallSound, Quiet
    <3> QED BY <3>1, <3>2, QuietCall, EntryFields
  <2>2. CASE client = "agent" /\ calls[c].attempt < MaxAttempts
    <3>1. calls' = [calls EXCEPT ![c].attempt = @ + 1]
      BY <1>1, <2>2 DEF RetryCancel
    <3>2. PICK a \in 0 .. MaxAttempts : a = calls[c].attempt + 1
      BY <1>2, <2>2, TradingAssumption
    <3>3. PICK q \in Call : /\ q = [calls[c] EXCEPT !.attempt = a]
                            /\ q.kind = calls[c].kind /\ q.stage = calls[c].stage /\ q.tx = calls[c].tx
                            /\ q.entry = calls[c].entry
      BY <1>2, AttemptChanged
    <3>4. calls' = [calls EXCEPT ![c] = q]
      BY <3>1, <3>2, <3>3
    <3>5. CallSound(q)'
      BY <1>1, <1>2, <3>3 DEF CallSound
    <3> QED BY <3>3, <3>4, <3>5
  <2>3. CASE client = "agent" /\ ~ (calls[c].attempt < MaxAttempts)
    <3>1. NextCancel(c, calls[c].seen, kept)
      BY <1>1, <2>3 DEF RetryCancel
    <3>2. kept \in SUBSET Entries
      BY DEF TradingInv, States
    <3> QED BY <1>1, <1>2, <3>1, <3>2, NextCancelFacts
  <2> QED BY <2>1, <2>2, <2>3
<1>4. calls[c].tx \notin Missing'
  <2>1. 0 \notin DOMAIN txs'
    BY <1>1, TxFacts DEF TradingInv
  <2> QED BY <1>2, <2>1 DEF Missing, Alive
<1>5. /\ cancels' \subseteq cancels \union {calls[c].entry} /\ (client = "browser" => cancels' = {})
      /\ lost' = lost + 0
  BY <1>1, <1>2 DEF TradingInv, States
<1>6. failures' \in 0 .. MaxFailures
  <2>1. failures \in 0 .. MaxFailures
    BY DEF TradingInv, States
  <2> QED BY <1>1, <2>1, FailureCount
<1> QED BY <1>1, <1>3, <1>4, <1>5, <1>6, SamePlace, CallMoves

LEMMA CancelConfirmedWorks == ASSUME TradingInv, NEW c \in Calls, CancelConfirmed(c) PROVE TradingInv'
<1>0. States /\ CallsSound /\ OrdersSound
  BY DEF TradingInv
<1>1. PICK e, out : e = calls[c].entry /\ out = IF client = "agent" THEN {k \in kept : k.id = e.id} ELSE {}
  OBVIOUS
<1>2. /\ calls[c].stage = "cancelling" /\ CancelAccepted(e)
      /\ book' = [book EXCEPT ![e.id].state = "cancelled"]
      /\ kept' = kept \ out /\ lost' = lost + Cardinality(out \ {e})
      /\ IF client = "agent" THEN NextCancel(c, calls[c].seen, kept \ out) ELSE Return(c)
      /\ UNCHANGED <<client, hasUser, txs, cancels, failures>>
  BY <1>1 DEF CancelConfirmed
<1>3. /\ calls[c].tx = 0 /\ client # "browser" /\ calls[c].seen \in SUBSET Entries
  BY <1>2, StageFacts
<1>4. out \in SUBSET kept /\ kept \in SUBSET Entries /\ IsFiniteSet(kept)
  BY <1>0, <1>1 DEF States
<1>5. PICK q \in Call : /\ calls' = [calls EXCEPT ![c] = q] /\ CallSound(q)'
                        /\ q.entry.opening = 0 \/ q.entry \in kept
  <2>1. CASE client = "agent"
    <3>1. NextCancel(c, calls[c].seen, kept \ out) /\ kept \ out \in SUBSET Entries
      BY <1>2, <1>4, <2>1
    <3>2. UNCHANGED <<client, txs>>
      BY <1>2
    <3>3. \E q \in Call : /\ calls' = [calls EXCEPT ![c] = q] /\ CallSound(q)'
                          /\ q.entry.opening = 0 \/ q.entry \in kept \ out
      BY <1>3, <3>1, <3>2, NextCancelFacts, Zenon
    <3>4. kept \ out \subseteq kept
      OBVIOUS
    <3> QED BY <3>3, <3>4, Zenon
  <2>2. CASE client # "agent"
    <3>1. calls' = [calls EXCEPT ![c] = Quiet]
      BY <1>2, <2>2 DEF Return
    <3>2. CallSound(Quiet)'
      BY DEF CallSound, Quiet
    <3> QED BY <3>1, <3>2, QuietCall, EntryFields
  <2> QED BY <2>1, <2>2
<1>6. /\ e.id \in DOMAIN book /\ book[e.id].commitment.of = e.opening
      /\ IsOurs(e.id) /\ book[e.id].state = "resting"
  BY <1>2 DEF CancelAccepted, IsOurs
<1>7. /\ book' \in Seq(Order) /\ Len(book') = Len(book) /\ DOMAIN book' = DOMAIN book
      /\ \A k \in DOMAIN book : book'[k].commitment = book[k].commitment
      /\ book'[e.id].state = "cancelled" /\ \A k \in DOMAIN book : k # e.id => book'[k] = book[k]
  BY <1>0, <1>2, <1>6, StateChanged DEF States
<1>8. \A k \in DOMAIN book : /\ book'[k].commitment = book[k].commitment
                             /\ book'[k].state # "cancelled" => book[k].state # "cancelled"
  BY <1>7
<1>9. e.opening \notin Alive'
  <2> SUFFICES ASSUME e.opening \in Alive' PROVE FALSE
    OBVIOUS
  <2>1. Landed(e.opening)
    BY <1>0, <1>6 DEF OrdersSound
  <2>2. PICK i \in DOMAIN book' : IsOurs(i)' /\ book'[i].commitment.of = e.opening /\ book'[i].state # "cancelled"
    BY <1>2, <2>1 DEF Alive, Landed
  <2>3. i \in DOMAIN book /\ IsOurs(i) /\ book[i].commitment.of = e.opening
    BY <1>7, <2>2 DEF IsOurs
  <2>4. i = e.id
    BY <1>0, <1>6, <2>3 DEF OrdersSound
  <2> QED BY <1>7, <2>2, <2>4
<1>10. PICK gone, none : gone = out \ {e} /\ none = {}
  OBVIOUS
<1>11. /\ gone \in SUBSET out /\ \A x \in out : x \in gone \/ x.opening \notin Alive'
       /\ none \in SUBSET Entries /\ IsFiniteSet(none) /\ (\A x \in none : FALSE)
       /\ kept' = (kept \ out) \union none
  BY <1>2, <1>9, <1>10, FS_EmptySet
<1>12. lost' = lost + Cardinality(gone) + 0
  <2>1. IsFiniteSet(gone)
    BY <1>4, <1>11, FS_Subset
  <2>2. Cardinality(gone) \in Nat /\ lost \in Nat
    BY <1>0, <2>1, FS_CardinalityType DEF States
  <2> QED BY <1>2, <1>10, <2>2
<1>13. calls[c].tx \notin Missing'
  <2>1. 0 \notin DOMAIN txs'
    BY <1>0, <1>2, TxFacts
  <2> QED BY <1>3, <2>1 DEF Missing, Alive
<1>14. /\ cancels' \subseteq cancels \union {calls[c].entry} /\ failures' \in 0 .. MaxFailures
  BY <1>0, <1>2 DEF States
<1>15. /\ client' = client /\ hasUser' = hasUser /\ UNCHANGED txs
       /\ client # "browser"
  BY <1>2, <1>3
<1>16. /\ txs' \in Seq(Tx) /\ Len(txs') <= MaxSends[client]
       /\ \A t \in DOMAIN txs : t \in DOMAIN txs' /\ txs'[t] = txs[t]
       /\ \A t \in DOMAIN txs' : t \in DOMAIN txs
  BY <1>15, SamePlace
<1> QED BY <1>4, <1>5, <1>7, <1>8, <1>11, <1>12, <1>13, <1>14, <1>15, <1>16, CallWorks

\* Everything under way is forgotten, and the file too if it is torn.
LEMMA RestartWorks == ASSUME TradingInv, NEW torn \in BOOLEAN, Restart(torn) PROVE TradingInv'
<1>0. States /\ CallsSound /\ OrdersSound /\ KeptSound /\ LossesCounted
  BY DEF TradingInv
<1>1. PICK out : out = IF torn THEN kept ELSE {}
  OBVIOUS
<1>2. /\ client = "agent" /\ Fail /\ kept' = kept \ out
      /\ lost' = lost + Cardinality(Placing) + (IF torn THEN Cardinality(kept) ELSE 0)
      /\ calls' = [c \in Calls |-> Quiet]
      /\ cancels' = cancels \union {calls[c].entry : c \in {d \in Calls : calls[d].stage = "cancelling"}}
      /\ UNCHANGED <<client, hasUser, book, txs>>
  BY <1>1 DEF Restart
<1>3. out \in SUBSET Entries /\ out \subseteq kept /\ IsFiniteSet(out) /\ IsFiniteSet(kept')
  BY <1>0, <1>1, <1>2, FS_EmptySet, FS_Subset DEF States
<1>4. PICK T : T = {e.opening : e \in out}
  OBVIOUS
<1>5. IsFiniteSet(T) /\ Cardinality(T) \in Nat /\ Cardinality(out) \in Nat /\ Cardinality(T) <= Cardinality(out)
  BY <1>3, <1>4, OpeningsCount
<1>6. PICK P : P = {calls[c].tx : c \in Placing}
  OBVIOUS
<1>7. IsFiniteSet(P) /\ Cardinality(P) \in Nat /\ Cardinality(Placing) \in Nat /\ Cardinality(P) <= Cardinality(Placing)
  <2>1. IsFiniteSet(Placing)
    BY FS_Subset, TradingAssumption DEF Placing
  <2>2. PICK f : f = [c \in Placing |-> calls[c].tx]
    OBVIOUS
  <2>3. f \in [Placing -> P] /\ \A t \in P : \E c \in Placing : f[c] = t
    BY <1>6, <2>2
  <2>4. f \in Surjection(Placing, P)
    BY <2>3 DEF Surjection
  <2> QED BY <2>1, <2>4, FS_Surjection, FS_CardinalityType
<1>8. PICK n \in Nat : n = Cardinality(Placing) + Cardinality(out)
  BY <1>5, <1>7
<1>9. lost \in Nat /\ lost' = lost + n
  <2>1. Cardinality(out) = IF torn THEN Cardinality(kept) ELSE 0
    BY <1>1, FS_EmptySet
  <2>2. lost \in Nat
    BY <1>0 DEF States
  <2> QED BY <1>2, <1>5, <1>7, <1>8, <2>1, <2>2
<1>10. States'
  <2>1. cancels' \subseteq Entries
    BY <1>0, <1>2, StageFacts DEF States
  <2>2. failures' \in 0 .. MaxFailures
    BY <1>2, FailureCount
  <2>3. calls' \in [Calls -> Call]
    BY <1>2, QuietCall
  <2>4. kept' \subseteq Entries /\ lost' \in Nat
    BY <1>0, <1>2, <1>9 DEF States
  <2> QED BY <1>0, <1>2, <1>3, <2>1, <2>2, <2>3, <2>4 DEF States
<1>11. CallsSound'
  <2>1. \A c \in Calls : calls'[c] = Quiet
    BY <1>2
  <2> QED BY <1>2, <2>1 DEF CallsSound, CallSound, Quiet
<1>12. \A t : Landed(t) => Landed(t)'
  BY <1>2 DEF Landed
<1>13. OrdersSound' /\ (\A i \in DOMAIN book : IsOurs(i)' = IsOurs(i)) /\ IdsNeverBehind'
  BY <1>2, <1>12, SameCommitments DEF IdsNeverBehind
<1>14. KeptSound'
  BY <1>0, <1>2, <1>12, <1>13 DEF KeptSound
<1>15. Alive' = Alive
  BY <1>2, <1>13 DEF Alive
<1>16. PICK D : D = T \union P
  OBVIOUS
<1>17. Missing' \subseteq Missing \union D
  <2> SUFFICES ASSUME NEW t \in Missing', t \notin Missing PROVE t \in T \/ t \in P
    BY <1>16
  <2>1. t \in Alive /\ ~ Held(t)' /\ Held(t)
    BY <1>15 DEF Missing
  <2>2. CASE \E e \in kept : e.opening = t
    BY <1>2, <1>4, <2>1, <2>2 DEF Held
  <2>3. CASE \E c \in Calls : calls[c].tx = t
    <3>1. PICK c \in Calls : calls[c].tx = t
      BY <2>3
    <3>2. t # 0
      BY <1>0, <2>1, TxFacts DEF Alive
    <3>3. calls[c].kind = "place"
      BY <3>1, <3>2, StageFacts DEF Call
    <3> QED BY <1>6, <3>1, <3>3 DEF Placing
  <2> QED BY <2>1, <2>2, <2>3 DEF Held
<1>18. IsFiniteSet(D) /\ Cardinality(D) <= n
  <2>1. Cardinality(T \intersect P) \in Nat
    BY <1>5, FS_Intersection, FS_CardinalityType
  <2>2. IsFiniteSet(T \union P) /\ Cardinality(T \union P) = Cardinality(T) + Cardinality(P) - Cardinality(T \intersect P)
    BY <1>5, <1>7, FS_Union
  <2> QED BY <1>5, <1>7, <1>8, <1>16, <2>1, <2>2
<1>19. LossesCounted'
  BY <1>0, <1>2, <1>9, <1>17, <1>18, CountedStill
<1> QED BY <1>10, <1>11, <1>13, <1>14, <1>19 DEF TradingInv

LEMMA TradingSteps == ASSUME TradingInv, Next PROVE TradingInv'
<1>1. CASE ProgramStep
  BY <1>1, ProgramSteps
<1>2. ASSUME NEW c \in Calls, CallStep(c) PROVE TradingInv'
  <2>1. CASE NotPlaced(c)
    <3>1. /\ calls[c].stage = "confirming" /\ txs[calls[c].tx].fate = "expired" /\ Throw(c)
          /\ UNCHANGED <<client, hasUser, book, cancels, kept, failures, lost>>
      BY <2>1 DEF NotPlaced, Awaits
    <3>2. failures' \in 0 .. MaxFailures /\ lost' = lost + 0
      BY <3>1 DEF TradingInv, States
    <3> QED BY <3>1, <3>2, ThrowWorks
  <2>2. CASE PlaceUnanswered(c)
    <3>1. /\ calls[c].stage = "confirming" /\ Fail /\ Throw(c) /\ lost' = lost + 1
          /\ UNCHANGED <<client, hasUser, book, cancels, kept>>
      BY <2>2 DEF PlaceUnanswered, Awaits
    <3>2. failures' \in 0 .. MaxFailures
      BY <3>1, FailureCount
    <3> QED BY <3>1, <3>2, ThrowWorks
  <2>3. CASE ReadOrderId(c)
    BY <2>3, ReadOrderIdWorks
  <2>4. CASE HandleSubmit(c)
    BY <2>4, HandleSubmitWorks
  <2>5. CASE TabGone(c)
    BY <2>5, TabGoneWorks
  <2>6. CASE CancelConfirmed(c)
    BY <2>6, CancelConfirmedWorks
  <2>7. CASE CancelFails(c)
    BY <2>7, CancelFailsWorks
  <2> QED BY <1>2, <2>1, <2>2, <2>3, <2>4, <2>5, <2>6, <2>7 DEF CallStep
<1>3. ASSUME NEW c \in Calls, SdkPlaceOrder(c) PROVE TradingInv'
  BY <1>3, CallStarts DEF SdkPlaceOrder
<1>4. ASSUME NEW c \in Calls, BuildPlaceOrderTx(c) PROVE TradingInv'
  <2>1. (~ hasUser) \in BOOLEAN
    OBVIOUS
  <2> QED BY <1>4, <2>1, CallStarts DEF BuildPlaceOrderTx
<1>5. ASSUME NEW c \in Calls, CancelStarts(c) PROVE TradingInv'
  BY <1>5, CancelStartsWorks
<1>6. ASSUME NEW c \in Calls, CloseStarts(c) PROVE TradingInv'
  BY <1>6, CloseStartsWorks
<1>7. ASSUME NEW torn \in BOOLEAN, Restart(torn) PROVE TradingInv'
  BY <1>7, RestartWorks
<1> QED BY <1>1, <1>2, <1>3, <1>4, <1>5, <1>6, <1>7 DEF Next

-----------------------------------------------------------------------------
(* The two halves together, and what the invariants say.                   *)

SdkInv == FeedInv /\ TradingInv

LEMMA FeedRests == ASSUME FeedInv, UNCHANGED feedVars PROVE FeedInv'
  BY DEF feedVars, FeedInv, FeedTypeOK, Lazer, Live, Pending, ReconnectsAccountedFor

LEMMA TradingRests == ASSUME TradingInv, UNCHANGED tradingVars PROVE TradingInv'
<1>1. UNCHANGED <<client, hasUser, book, txs, cancels, kept, calls, failures, lost>>
  BY DEF tradingVars
<1>2. States /\ CallsSound /\ OrdersSound /\ KeptSound /\ LossesCounted
  BY DEF TradingInv
<1>3. \A t : Landed(t) => Landed(t)'
  BY <1>1 DEF Landed
<1>4. OrdersSound' /\ IdsNeverBehind'
  BY <1>1, <1>3, SameCommitments DEF IdsNeverBehind
<1>5. \A i \in DOMAIN book : IsOurs(i)' = IsOurs(i)
  BY <1>1, <1>3, SameCommitments
<1>6. Alive' \subseteq Alive
  BY <1>1, <1>5 DEF Alive
<1> QED BY <1>1, <1>2, <1>3, <1>4, <1>6, ProgramWorks DEF States

LEMMA SdkInductive ==
  /\ SdkInit => SdkInv
  /\ SdkInv /\ [SdkNext]_sdkVars => SdkInv'
<1>1. SdkInit => SdkInv
  BY FeedStarts, TradingStarts DEF SdkInit, SdkInv
<1>2. ASSUME SdkInv, [SdkNext]_sdkVars PROVE SdkInv'
  <2>1. FeedInv /\ TradingInv
    BY <1>2 DEF SdkInv
  <2>2. CASE Next /\ UNCHANGED feedVars
    BY <2>1, <2>2, TradingSteps, FeedRests DEF SdkInv
  <2>3. CASE FeedNext /\ UNCHANGED tradingVars
    BY <2>1, <2>3, FeedSteps, TradingRests DEF SdkInv
  <2>4. CASE UNCHANGED sdkVars
    BY <2>1, <2>4, FeedRests, TradingRests DEF SdkInv, sdkVars
  <2>5. \/ Next /\ UNCHANGED feedVars
        \/ FeedNext /\ UNCHANGED tradingVars
        \/ UNCHANGED sdkVars
    BY <1>2, Zenon DEF SdkNext
  <2> QED BY <2>2, <2>3, <2>4, <2>5
<1> QED BY <1>1, <1>2

LEMMA SdkInvariant == SdkSpec => []SdkInv
<1> QED BY SdkInductive, PTL DEF SdkSpec

LEMMA TypesFollow == ASSUME TradingInv PROVE TradingTypeOK
<1>1. States /\ CallsSound /\ OrdersSound /\ KeptSound
  BY DEF TradingInv
<1>2. DOMAIN txs = 1 .. Len(txs) /\ Len(txs) \in Nat /\ 0 \in 0 .. Len(txs)
  BY <1>1, TxFacts
<1>3. ASSUME NEW i \in DOMAIN book
      PROVE  /\ book[i].commitment \in [form : {"opening", "ciphertext", "others"}, of : 0 .. Len(txs)]
             /\ book[i].state \in {"resting", "matched", "cancelled"}
  <2>1. book \in Seq(Order)
    BY <1>1 DEF States
  <2>2. book[i] \in Order
    BY <2>1
  <2>3. book[i].commitment \in Commitments /\ book[i].state \in {"resting", "matched", "cancelled"}
    BY <2>2, Zenon DEF Order
  <2>4. CASE book[i].commitment = OthersOrder
    BY <1>2, <2>3, <2>4 DEF OthersOrder
  <2>5. CASE book[i].commitment # OthersOrder
    <3>1. book[i].commitment \in [form : {"opening", "ciphertext"}, of : Nat]
      BY <2>3, <2>5 DEF Commitments
    <3>2. IsOurs(i)
      BY <3>1 DEF IsOurs
    <3>3. book[i].commitment.of \in 0 .. Len(txs)
      BY <1>1, <1>2, <3>2 DEF OrdersSound, Landed
    <3> QED BY <2>3, <3>1, <3>3
  <2> QED BY <2>4, <2>5
<1>4. ASSUME NEW c \in Calls
      PROVE  /\ calls[c].kind \in {"none", "place", "close"}
             /\ calls[c].stage \in {"idle", "confirming", "cancelling"}
             /\ calls[c].attempt \in 0 .. MaxAttempts
             /\ calls[c].tx \in 0 .. Len(txs)
             /\ calls[c].entry \in Entries \union {NoEntry} /\ calls[c].seen \subseteq Entries
  <2>1. calls[c] \in Call /\ CallSound(calls[c])
    BY <1>1 DEF States, CallsSound
  <2>2. /\ calls[c].kind \in {"none", "place", "close"}
        /\ calls[c].stage \in {"idle", "confirming", "cancelling"}
        /\ calls[c].attempt \in 0 .. MaxAttempts
        /\ calls[c].entry \in Entries /\ calls[c].seen \in SUBSET Entries
    BY <2>1 DEF Call
  <2>3. calls[c].tx = 0 \/ calls[c].tx \in DOMAIN txs
    BY <2>1, <2>2 DEF CallSound
  <2>4. calls[c].tx \in 0 .. Len(txs)
    BY <1>2, <2>3
  <2> QED BY <2>2, <2>4
<1>5. client # "browser" => \A e, k \in kept : e.id = k.id => e = k
  BY <1>1 DEF KeptSound
<1>6. txs \in Seq([initUser : BOOLEAN, fate : {"flying", "landed", "refused", "expired"}])
  BY <1>1 DEF States, Tx
<1> QED BY <1>1, <1>3, <1>4, <1>5, <1>6 DEF TradingTypeOK, States

\* Every order that is not accounted for is that of a transaction that is missing.
LEMMA LossesFollow == ASSUME TradingInv PROVE OpeningsAccountedFor
<1> SUFFICES ASSUME client # "tools" PROVE Cardinality(Unkept) <= lost
  BY DEF OpeningsAccountedFor
<1>1. States /\ OrdersSound /\ Cardinality(Missing) <= lost /\ lost \in Nat
  BY DEF TradingInv, LossesCounted, States
<1>2. IsFiniteSet(Missing) /\ Cardinality(Missing) \in Nat
  BY <1>1, TxFacts
<1>3. PICK f : f = [i \in Unkept |-> book[i].commitment.of]
  OBVIOUS
<1>4. \A i \in Unkept : /\ i \in DOMAIN book /\ IsOurs(i) /\ book[i].state # "cancelled"
                        /\ book[i].commitment.of \notin {e.opening : e \in kept} \union {calls[c].tx : c \in Calls}
  BY DEF Unkept
<1>5. \A i \in Unkept : book[i].commitment.of \in Missing
  <2> TAKE i \in Unkept
  <2>1. PICK t : t = book[i].commitment.of
    OBVIOUS
  <2>2. Landed(t)
    BY <1>1, <1>4, <2>1 DEF OrdersSound
  <2>3. t \in Alive
    BY <1>4, <2>1, <2>2 DEF Alive, Landed
  <2>4. ~ Held(t)
    BY <1>4, <2>1 DEF Held
  <2> QED BY <2>1, <2>3, <2>4 DEF Missing
<1>6. \A i, k \in Unkept : f[i] = f[k] => i = k
  BY <1>1, <1>3, <1>4 DEF OrdersSound
<1>7. f \in Injection(Unkept, Missing)
  <2>1. f \in [Unkept -> Missing]
    BY <1>3, <1>5
  <2> QED BY <1>6, <2>1 DEF Injection, IsInjective
<1>8. IsFiniteSet(Unkept) /\ Cardinality(Unkept) <= Cardinality(Missing)
  BY <1>2, <1>7, FS_Injection
<1>9. Cardinality(Unkept) \in Nat
  BY <1>8, FS_CardinalityType
<1> QED BY <1>1, <1>2, <1>8, <1>9

LEMMA ClosedFollows ==
  ASSUME FeedInv, FeedNext, closed
  PROVE  \A s \in Sockets : sockets[s] = "free" => sockets'[s] = "free"
<1>0. sockets \in [Sockets -> SocketStates]
  BY DEF FeedInv, FeedTypeOK, SocketStates
<1>1. ASSUME NEW s \in Sockets, SocketStep(s) \/ SocketCloses(s)
      PROVE  \A r \in Sockets : sockets[r] = "free" => sockets'[r] = "free"
  <2>1. sockets[s] # "free" /\ \E v : sockets' = [sockets EXCEPT ![s] = v]
    BY <1>1 DEF SocketStep, Opens, ConnectFails, FirstConnectFails, SocketCloses, Ends
  <2>2. PICK v : sockets' = [sockets EXCEPT ![s] = v]
    BY <2>1
  <2> QED BY <1>0, <2>1, <2>2
<1>2. ASSUME LostTimerFires \/ LastTimerFires PROVE sockets' = sockets
  BY <1>2 DEF LostTimerFires, LastTimerFires, Fire, MayStart
<1>3. ASSUME NEW s \in Sockets, NEW frame \in Frames, HandleMessage(s, frame) PROVE sockets' = sockets
  BY <1>3 DEF HandleMessage
<1>4. ASSUME PollHermes PROVE sockets' = sockets
  BY <1>4 DEF PollHermes
<1>5. ~ Close
  BY DEF Close
<1>6. (\E s \in Sockets : SocketStep(s) \/ SocketCloses(s)) \/ sockets' = sockets
  BY <1>2, <1>3, <1>4, <1>5, Zenon DEF FeedNext
<1> QED BY <1>1, <1>6

\* The Map of the agent and the answers of the other clients of placeOrder keep
\* one opening for an id, and the socket of a start() that is pending is being
\* connected.
THEOREM SdkTypes == SdkSpec => []SdkTypeOK
<1>1. SdkInv => SdkTypeOK
  BY TypesFollow DEF SdkInv, FeedInv, SdkTypeOK
<1> QED BY <1>1, SdkInvariant, PTL

\* However the calls of placeOrder, their retries by withRetry, transactions
\* that land late, restarts and other people's orders interleave, the orders
\* whose opening nobody has are at most the losses that Trading counts.
THEOREM OpeningsTheorem == SdkSpec => []OpeningsAccountedFor
<1>1. SdkInv => OpeningsAccountedFor
  BY LossesFollow DEF SdkInv
<1> QED BY <1>1, SdkInvariant, PTL

\* The id that placeOrder reads from the book after the confirmation is never
\* that of an order before the one placed.
THEOREM IdsTheorem == SdkSpec => []IdsNeverBehind
<1>1. SdkInv => IdsNeverBehind
  BY DEF SdkInv, TradingInv, KeptSound
<1> QED BY <1>1, SdkInvariant, PTL

\* Though both handlers of a failed connection count an attempt, the stream
\* (scheduleReconnect) gives up only after more failures in a row than
\* maxReconnectAttempts.
THEOREM GivesUpTheorem == SdkSpec => []GivesUpOnlyWhenAllFailed
<1>1. SdkInv => GivesUpOnlyWhenAllFailed
  <2> SUFFICES ASSUME FeedInv, Dead PROVE ended > MaxReconnects
    BY DEF SdkInv, GivesUpOnlyWhenAllFailed
  <2>1. Lazer /\ ~ closed /\ Live = {} /\ Pending = 0
    BY DEF Dead
  <2>2. ReconnectsAccountedFor /\ Cardinality(Live) = 0
    BY <2>1, FS_EmptySet DEF FeedInv
  <2>3. /\ MaxReconnects \in Nat /\ attempts \in Nat /\ attempts <= MaxReconnects /\ ended \in Nat
    BY FeedShape
  <2>4. ended > MaxReconnects \/ ended >= attempts + 1
    BY <2>1, <2>2, <2>3 DEF ReconnectsAccountedFor
  <2>5. ~ (attempts < MaxReconnects)
    BY <2>1, <2>2 DEF ReconnectsAccountedFor
  <2> QED BY <2>3, <2>4, <2>5
<1> QED BY <1>1, SdkInvariant, PTL

\* After close() of PythLazerStream neither a timer whose handle was lost nor a
\* connection that fails late opens another.
THEOREM ClosedTheorem == SdkSpec => NothingStartsOnceClosed
<1> DEFINE P == closed => \A s \in Sockets : sockets[s] = "free" => sockets'[s] = "free"
<1>1. SdkInv /\ [SdkNext]_sdkVars => [P]_feedVars
  <2> SUFFICES ASSUME SdkInv, [SdkNext]_sdkVars, UNCHANGED feedVars => FALSE, closed
               PROVE  \A s \in Sockets : sockets[s] = "free" => sockets'[s] = "free"
    OBVIOUS
  <2>1. FeedInv /\ FeedNext
    BY Zenon DEF SdkInv, SdkNext, sdkVars
  <2> QED BY <2>1, ClosedFollows
<1>2. SdkSpec => [][P]_feedVars
  BY <1>1, SdkInvariant, PTL DEF SdkSpec
<1> QED BY <1>2 DEF NothingStartsOnceClosed
=============================================================================
