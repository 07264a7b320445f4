--------------------------- MODULE TelegramEgress --------------------------
(* Every message to Telegram goes through send_message (telegram_provider/  *)
(* utils.py): an audit row first, then bounded attempts behind a sliding    *)
(* window limiter per chat, then the row is stamped or left as the          *)
(* dead-letter record.  Time is counted in ticks; the calls of a process    *)
(* overlap at their awaits.                                                 *)
EXTENDS Integers, FiniteSets

CONSTANTS
    Calls,           \* send_message calls
    Chats,
    AdminChat,       \* TELEGRAM_ADMIN_CHAT_ID
    max_per_window, window_ticks,
    MAX_RETRIES,
    Backoffs,        \* delays before the next attempt, RetryAfter's among them
    MaxTicks         \* bound on time

ASSUME EgressAssumption ==
    /\ AdminChat \in Chats /\ max_per_window \in Nat \ {0} /\ window_ticks \in Nat \ {0}
    /\ MAX_RETRIES \in Nat \ {0} /\ Backoffs \subseteq Nat \ {0} /\ MaxTicks \in Nat

VARIABLES
    ticks,
    _timestamps, \* per chat: the slots given out, each with its time
    calls,       \* what each call is doing
    logs,        \* the OUTBOUND TelegramLogs row of each call
    passes,      \* history: when a call passed the limiter, and whether it had to wait
    arrived      \* history: messages of each call that reached their chat

egressVars == <<ticks, _timestamps, calls, logs, passes, arrived>>

NoLog == [sent |-> FALSE, retries |-> 0, exists |-> FALSE]
Sleeping(c) == calls[c].until > ticks

SendMessage(c, chat) ==
    /\ calls[c].stage = "new"
    /\ calls' = [calls EXCEPT ![c].stage = "acquire", ![c].chat = chat]
    /\ logs' = [logs EXCEPT ![c].exists = TRUE]
    /\ UNCHANGED <<ticks, _timestamps, passes, arrived>>

---------------------------------------------------------------------------
(* PerChatRateLimiter.acquire, and the sleep it asks for.  The sleeper      *)
(* sends when it wakes up, without asking again.                            *)
InWindowOneOff(chat) == \* Mutant: what is a window old still counts less
    {slot \in _timestamps[chat] : slot.at > ticks - window_ticks + 1}

InWindow(chat) == {slot \in _timestamps[chat] : slot.at > ticks - window_ticks}

(* Two slots may be of one instant: an entry names what it was given to.    *)
Slot(c) == [call |-> c, attempt |-> calls[c].attempt, at |-> ticks]
Oldest(slots) ==
    CHOOSE t \in {slot.at : slot \in slots} : \A slot \in slots : t <= slot.at

Pass(c, waited) ==
    passes' = passes \cup {[call |-> c, attempt |-> calls[c].attempt, chat |-> calls[c].chat,
                            at |-> ticks, waited |-> waited]}

Acquire(c) ==
    LET chat == calls[c].chat
        recent == InWindow(chat)
        delay == window_ticks - (ticks - Oldest(recent))
    IN
    /\ calls[c].stage = "acquire" /\ ~ Sleeping(c)
    /\ IF Cardinality(recent) >= max_per_window
       THEN /\ calls' = [calls EXCEPT ![c].stage = "wait", ![c].until = ticks + delay]
            /\ _timestamps' = [_timestamps EXCEPT ![chat] = recent]
            /\ UNCHANGED passes
       ELSE /\ calls' = [calls EXCEPT ![c].stage = "send"]
            /\ _timestamps' = [_timestamps EXCEPT ![chat] = recent \cup {Slot(c)}]
            /\ Pass(c, FALSE)
    /\ UNCHANGED <<ticks, logs, arrived>>

Wake(c) ==
    /\ calls[c].stage = "wait" /\ ~ Sleeping(c)
    /\ calls' = [calls EXCEPT ![c].stage = "send"]
    /\ Pass(c, TRUE)
    /\ UNCHANGED <<ticks, _timestamps, logs, arrived>>

---------------------------------------------------------------------------
(* The attempt: answered, or an exception, which the message may have       *)
(* arrived in spite of.                                                     *)
Transmit(c) ==
    /\ calls[c].stage = "send"
    /\ \/ /\ calls' = [calls EXCEPT ![c].stage = "stamp"]
          /\ arrived' = [arrived EXCEPT ![c] = @ + 1]
       \/ /\ calls' = [calls EXCEPT ![c].stage = "failed"]
          /\ \E reached \in 0 .. 1 : arrived' = [arrived EXCEPT ![c] = @ + reached]
    /\ UNCHANGED <<ticks, _timestamps, logs, passes>>

Stamp(c) ==
    /\ calls[c].stage = "stamp"
    /\ logs' = [logs EXCEPT ![c].sent = TRUE, ![c].retries = calls[c].attempt - 1]
    /\ calls' = [calls EXCEPT ![c].stage = "done"]
    /\ UNCHANGED <<ticks, _timestamps, passes, arrived>>

RetryOneLess(c) == \* Mutant: the last attempt is not made
    /\ calls[c].stage = "failed"
    /\ logs' = [logs EXCEPT ![c].retries = calls[c].attempt]
    /\ IF calls[c].attempt >= MAX_RETRIES - 1
       THEN calls' = [calls EXCEPT ![c].stage = "done"]
       ELSE \E backoff \in Backoffs :
              calls' = [calls EXCEPT ![c].stage = "acquire", ![c].attempt = @ + 1,
                                     ![c].until = ticks + backoff]
    /\ UNCHANGED <<ticks, _timestamps, passes, arrived>>

(* After the last attempt the admin chat is told directly, past the limiter *)
(* and the audit.                                                           *)
Retry(c) ==
    /\ calls[c].stage = "failed"
    /\ logs' = [logs EXCEPT ![c].retries = calls[c].attempt]
    /\ IF calls[c].attempt = MAX_RETRIES
       THEN calls' = [calls EXCEPT ![c].stage = "done"]
       ELSE \E backoff \in Backoffs :
              calls' = [calls EXCEPT ![c].stage = "acquire", ![c].attempt = @ + 1,
                                     ![c].until = ticks + backoff]
    /\ UNCHANGED <<ticks, _timestamps, passes, arrived>>

(* The process dies, or the audit row cannot be written.                    *)
Die(c) ==
    /\ calls[c].stage \notin {"new", "done", "dead"}
    /\ calls' = [calls EXCEPT ![c].stage = "dead"]
    /\ UNCHANGED <<ticks, _timestamps, logs, passes, arrived>>

Tick ==
    /\ ticks < MaxTicks /\ ticks' = ticks + 1
    /\ UNCHANGED <<_timestamps, calls, logs, passes, arrived>>

---------------------------------------------------------------------------
EgressInit ==
    /\ ticks = 0 /\ _timestamps = [chat \in Chats |-> {}]
    /\ calls = [c \in Calls |-> [stage |-> "new", chat |-> AdminChat, attempt |-> 1, until |-> 0]]
    /\ logs = [c \in Calls |-> NoLog] /\ passes = {} /\ arrived = [c \in Calls |-> 0]

EgressNext ==
    \/ Tick
    \/ \E c \in Calls, chat \in Chats : SendMessage(c, chat)
    \/ \E c \in Calls : Acquire(c) \/ Wake(c) \/ Transmit(c) \/ Stamp(c) \/ Retry(c) \/ Die(c)

EgressSpec == EgressInit /\ [][EgressNext]_egressVars

---------------------------------------------------------------------------
EgressTypeOK ==
    /\ ticks \in 0 .. MaxTicks
    /\ \A chat \in Chats :
          _timestamps[chat] \subseteq [call : Calls, attempt : 1 .. MAX_RETRIES, at : 0 .. MaxTicks]
    /\ \A c \in Calls :
          /\ calls[c].stage \in {"new", "acquire", "wait", "send", "stamp", "failed", "done", "dead"}
          /\ calls[c].chat \in Chats /\ calls[c].attempt \in 1 .. MAX_RETRIES
          /\ arrived[c] \in 0 .. MAX_RETRIES /\ logs[c].retries \in 0 .. MAX_RETRIES

(* In any window of a chat the limiter lets max_per_window messages pass;   *)
(* whatever exceeds it had been told to wait, within the window before.     *)
RateHeld ==
    \A chat \in Chats, from \in 0 .. ticks :
        LET passed == {p \in passes : p.chat = chat /\ p.at \in from .. from + window_ticks - 1}
            excess == {p \in passed : p.waited}
        IN  /\ Cardinality(passed \ excess) <= max_per_window
            /\ \A p \in excess : \E q \in passes :
                  q.chat = chat /\ ~ q.waited /\ q.at \in p.at - MaxTicks .. p.at - window_ticks

(* The audit tells what happened, attempt by attempt, of every call that    *)
(* came to its end: stamped rows were delivered, and only three failures    *)
(* make a dead letter.                                                      *)
AuditTellsTheTruth ==
    \A c \in Calls :
        /\ logs[c].sent => arrived[c] > 0 /\ logs[c].retries = calls[c].attempt - 1
        /\ (calls[c].stage = "done" /\ ~ logs[c].sent) => logs[c].retries = MAX_RETRIES
        /\ arrived[c] > 0 => logs[c].exists

(* The promise of the governed egress: the rate and the audit.              *)
EgressIsGoverned == RateHeld /\ AuditTellsTheTruth
===========================================================================
