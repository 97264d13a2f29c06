------------------------------ MODULE AlertBot ------------------------------
(***************************************************************************)
(* services/telegram-bot: the subscriptions, which a SQLite table keeps,   *)
(* and the alerts.  An event of the program's log is sent to the chats     *)
(* that were subscribed to its kind when it came, one after the other;     *)
(* the events do not wait for each other, and commands come in between.    *)
(*                                                                         *)
(* The program of this repository writes its events in a form the bot does *)
(* not read, so that with Forms = {"data"} there are no alerts at all; what *)
(* is checked of them is checked with the form the bot expects as well.    *)
(***************************************************************************)
EXTENDS Naturals, FiniteSets

CONSTANTS
  Chats,
  Owners,  \* wallets, the key of the table
  Kinds,   \* kinds of events (ALL_EVENT_TYPES has five)
  Forms,   \* how events are written to the log (see TryParseLogLine)
  Events   \* dispatches that can be under way together

ASSUME AlertBotAssumption == "none" \notin Chats

VARIABLES
  table,     \* subscribers: who is told of what, by wallet
  todo,      \* for every dispatch, the rows it has still to send to
  owed,      \* the rows it started with (history)
  tried,     \* those it has sent to, or failed to (history)
  told,      \* chats told that they will no longer receive alerts (history)
  trailing   \* dispatches that were under way when a chat was told so (history)

botVars == <<table, todo, owed, tried, told, trailing>>
history == <<told, trailing>>

NoRow == [chat |-> "none", alerts |-> {}]
Rows == [wallet : Owners, chat : Chats]

BotInit ==
  /\ table = [w \in Owners |-> NoRow]
  /\ todo = [e \in Events |-> {}]
  /\ owed = [e \in Events |-> {}]
  /\ tried = [e \in Events |-> {}]
  /\ told = {}
  /\ trailing = [c \in Chats |-> {}]

-----------------------------------------------------------------------------
(* Commands.                                                               *)

\* /subscribe: the row of the wallet is the chat's from now on, whoever had it.
Subscribe(c, w, alerts) ==
  /\ table' = [table EXCEPT ![w] = [chat |-> c, alerts |-> alerts]]
  /\ told' = told \ {c}
  /\ UNCHANGED <<todo, owed, tried, trailing>>

\* Faulty variant: the one row that was found is removed.
FaultyRemove(c) ==
  LET w == CHOOSE w \in Owners : table[w].chat = c
  IN  [table EXCEPT ![w] = NoRow]

\* DELETE ... WHERE chat_id = ?
Remove(c) == [w \in Owners |-> IF table[w].chat = c THEN NoRow ELSE table[w]]

\* /unsubscribe: "You will no longer receive alerts."
Unsubscribe(c) ==
  /\ \E w \in Owners : table[w].chat = c
  /\ table' = Remove(c)
  /\ told' = told \union {c}
  /\ trailing' = [trailing EXCEPT ![c] = {e \in Events : todo[e] # {}}]
  /\ UNCHANGED <<todo, owed, tried>>

-----------------------------------------------------------------------------
(* Alerts.                                                                 *)

\* emit! writes "Program data: <base64>"; the parser knows lines of the form
\* "Program log: DarkBook::<kind> <fields>" only, and skips all others.
TryParseLogLine(line) == IF line.form = "structured" THEN {line.kind} ELSE {}

\* Whose wallet an event is about is not looked at.
FindByEventType(kind) ==
  {[wallet |-> w, chat |-> table[w].chat] : w \in {u \in Owners : kind \in table[u].alerts}}

\* A dispatch starts with the rows of the moment.
DispatchEvent(e, kind) ==
  /\ todo[e] = {}
  /\ todo' = [todo EXCEPT ![e] = FindByEventType(kind)]
  /\ owed' = [owed EXCEPT ![e] = FindByEventType(kind)]
  /\ tried' = [tried EXCEPT ![e] = {}]
  /\ trailing' = [c \in Chats |-> trailing[c] \ {e}]
  /\ UNCHANGED <<table, told>>

\* The callback of onLogs, for a transaction that did not fail.
OnLogs ==
  \E form \in Forms, name \in Kinds :
    \E kind \in TryParseLogLine([form |-> form, kind |-> name]), e \in Events : DispatchEvent(e, kind)

\* The message to a chat is sent.
MessageSent(e, sub) ==
  /\ sub \in todo[e]
  /\ todo' = [todo EXCEPT ![e] = @ \ {sub}]
  /\ tried' = [tried EXCEPT ![e] = @ \union {sub}]
  /\ UNCHANGED <<table, owed, history>>

\* Faulty variant: the error ends the dispatch.
FaultyMessageFails(e, sub) ==
  /\ sub \in todo[e]
  /\ todo' = [todo EXCEPT ![e] = {}]
  /\ tried' = [tried EXCEPT ![e] = @ \union {sub}]
  /\ UNCHANGED <<table, owed, history>>

\* Telegram refuses it, for instance because there are too many: it is dropped.
MessageFails(e, sub) ==
  /\ sub \in todo[e]
  /\ todo' = [todo EXCEPT ![e] = @ \ {sub}]
  /\ tried' = [tried EXCEPT ![e] = @ \union {sub}]
  /\ UNCHANGED <<table, owed, history>>

\* The process ends and is started again: the table is as it was.
BotRestarts ==
  /\ \E e \in Events : todo[e] # {}
  /\ todo' = [e \in Events |-> {}]
  /\ owed' = [e \in Events |-> {}]
  /\ tried' = [e \in Events |-> {}]
  /\ trailing' = [c \in Chats |-> {}]
  /\ UNCHANGED <<table, told>>

-----------------------------------------------------------------------------
BotNext ==
  \/ \E c \in Chats, w \in Owners, alerts \in (SUBSET Kinds) \ {{}} : Subscribe(c, w, alerts)
  \/ \E c \in Chats : Unsubscribe(c)
  \/ OnLogs
  \/ \E e \in Events, sub \in Rows : MessageSent(e, sub) \/ MessageFails(e, sub)
  \/ BotRestarts

BotSpec == BotInit /\ [][BotNext]_botVars

-----------------------------------------------------------------------------
(* Properties.                                                             *)

\* Rows and dispatches; one failing chat costs no other its alert: what a
\* dispatch owed it has tried or still has to do.
BotTypeOK ==
  /\ table \in [Owners -> {NoRow} \union [chat : Chats, alerts : (SUBSET Kinds) \ {{}}]]
  /\ {todo, owed, tried} \subseteq [Events -> SUBSET Rows]
  /\ \A e \in Events : /\ owed[e] = todo[e] \union tried[e]
                       /\ todo[e] \intersect tried[e] = {}
  /\ told \subseteq Chats
  /\ trailing \in [Chats -> SUBSET Events]

\* Who is told "You will no longer receive alerts" receives none, for any of
\* its wallets, but of events that came before.
UnsubscribedForGood ==
  \A c \in told :
    /\ \A w \in Owners : table[w].chat # c
    /\ \A e \in Events \ trailing[c] : \A sub \in todo[e] : sub.chat # c

=============================================================================
