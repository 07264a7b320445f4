----------------------------- MODULE PushAlerts ---------------------------
(* Web push (incident/services/push.py, incident/tasks.py): the tokens that *)
(* browsers register for lines, and the task that alerts the subscribers of *)
(* a major incident's lines, in chunks, under a cooldown per line, with     *)
(* retries.  FCM's answers are chosen by the state of the browser, of the   *)
(* payload and of FCM.                                                      *)
EXTENDS Integers, FiniteSets

CONSTANTS
    Lines, Users,
    Tokens,              \* FCM registration tokens, one per browser
    LineChoices,         \* the sets of lines a registration asks for
    Incidents,           \* major incidents, each announced by one task
    LinesOf,             \* the lines of an incident
    MAX_TOKENS_PER_USER,
    FCM_MULTICAST_LIMIT,
    MAX_RETRIES_PUSH,    \* max_retries of the task
    Nobody,
    InitialSubs,         \* the registrations a behaviour starts from
    Browsers,            \* what can become of the messages to the tokens
    Payloads,            \* which incidents make a payload that FCM accepts
    MaxChanges,          \* bound: registrations and removals
    MaxPushFaults        \* bound: chunks that meet an outage, and runs that fail

ASSUME PushAssumption ==
    /\ LineChoices \subseteq SUBSET Lines /\ LinesOf \in [Incidents -> SUBSET Lines]
    /\ MAX_TOKENS_PER_USER \in Nat \ {0} /\ FCM_MULTICAST_LIMIT \in Nat \ {0}
    /\ InitialSubs \subseteq [Tokens -> [user : Users \cup {Nobody}, lines : SUBSET Lines, modified : Int]]
    /\ \A s \in InitialSubs : \A t, u \in Tokens :
          /\ s[t].modified <= 0
          /\ Nobody \notin {s[t].user, s[u].user} /\ s[t].modified = s[u].modified => t = u
    /\ Browsers \subseteq [Tokens -> {"delivered", "unregistered", "invalid"}]
    /\ Payloads \subseteq [Incidents -> BOOLEAN]
    /\ MAX_RETRIES_PUSH \in Nat /\ MaxChanges \in Nat /\ MaxPushFaults \in Nat /\ Nobody \notin Users

VARIABLES
    subs,      \* PushSubscription: owner, lines and time of each token, Nobody without a row
    browser,   \* what becomes of a message to a token
    incidents, \* whether the incident is still LIVE and MAJOR, and its payload valid
    cooldown,  \* lines whose cooldown key is in the cache
    tasks,     \* the notification task of each incident
    heard,     \* history: messages a token got for a line in its present cooldown
    raised,    \* history: runs that held the line and raised in its present cooldown
    changes, pushFaults

pushVars == <<subs, browser, incidents, cooldown, tasks, heard, raised, changes, pushFaults>>

NoSub == [user |-> Nobody, lines |-> {}, modified |-> 0]
Registered == {t \in Tokens : subs[t].user # Nobody}
Upto(n, cap) == IF n < cap THEN n ELSE cap

---------------------------------------------------------------------------
(* register: upsert, re-owning the token, then evict the caller's other     *)
(* tokens but the MAX_TOKENS_PER_USER - 1 registered last; one transaction. *)
Evicted(user, token) ==
    LET own == {t \in Tokens \ {token} : subs[t].user = user} IN
    {t \in own : Cardinality({u \in own : subs[u].modified > subs[t].modified}) >= MAX_TOKENS_PER_USER - 1}

Drop(tokens) == subs' = [t \in Tokens |-> IF t \in tokens THEN NoSub ELSE subs[t]]

Register(user, token, lines) ==
    /\ changes < MaxChanges /\ changes' = changes + 1
    /\ subs' = [t \in Tokens |-> IF t = token THEN [user |-> user, lines |-> lines, modified |-> changes']
                                 ELSE IF t \in Evicted(user, token) THEN NoSub ELSE subs[t]]
    /\ UNCHANGED <<browser, incidents, cooldown, tasks, heard, raised, pushFaults>>

Unregister(token) ==
    /\ changes < MaxChanges /\ changes' = changes + 1
    /\ token \in Registered /\ Drop({token})
    /\ UNCHANGED <<browser, incidents, cooldown, tasks, heard, raised, pushFaults>>

(* The incident is deleted, or edited down, before its task gets to it; a   *)
(* run that has begun looks at it no more.                                  *)
Withdraw(i) ==
    /\ tasks[i].stage = "queued" /\ incidents[i].major
    /\ incidents' = [incidents EXCEPT ![i].major = FALSE]
    /\ UNCHANGED <<subs, browser, cooldown, tasks, heard, raised, changes, pushFaults>>

---------------------------------------------------------------------------
(* notify_major_incident.  The lines that are followed are read, claimed    *)
(* with one atomic cache.add after the other in no order, and the tokens    *)
(* are read afterwards.                                                     *)
Followed(i) == {l \in LinesOf[i] : \E t \in Registered : l \in subs[t].lines}

(* The rows of the query, in no order: it joins a token to the claimed      *)
(* lines it follows, and distinct() leaves one row of each token.           *)
TokensPerLine(claimed) == \* Mutant: no distinct()
    {row \in [token : Tokens, line : claimed] : row.line \in subs[row.token].lines}

TokensOf(claimed) ==
    {[token |-> t, line |-> CHOOSE l \in claimed : l \in subs[t].lines] :
        t \in {u \in Tokens : subs[u].lines \cap claimed # {}}}

Queued(tries) ==
    [stage |-> "queued", wanted |-> {}, lines |-> {}, todo |-> {}, stale |-> {}, tries |-> tries]
Ended == [Queued(0) EXCEPT !.stage = "done"]

Begins(i) ==
    /\ tasks[i].stage = "queued"
    /\ tasks' = [tasks EXCEPT ![i] = IF incidents[i].major
                                     THEN [@ EXCEPT !.stage = "claiming", !.wanted = Followed(i)]
                                     ELSE Ended]
    /\ UNCHANGED <<subs, browser, incidents, cooldown, heard, raised, changes, pushFaults>>

ClaimLine(i, l) ==
    /\ tasks[i].stage = "claiming" /\ l \in tasks[i].wanted
    /\ cooldown' = cooldown \cup {l}
    /\ tasks' = [tasks EXCEPT ![i].wanted = @ \ {l}, ![i].lines = @ \cup ({l} \ cooldown)]
    /\ UNCHANGED <<subs, browser, incidents, heard, raised, changes, pushFaults>>

ReadTokens(i) ==
    /\ tasks[i].stage = "claiming" /\ tasks[i].wanted = {}
    /\ tasks' = [tasks EXCEPT ![i] = IF @.lines = {} THEN Ended
                                     ELSE [@ EXCEPT !.stage = "sending", !.todo = TokensOf(tasks[i].lines)]]
    /\ UNCHANGED <<subs, browser, incidents, cooldown, heard, raised, changes, pushFaults>>

(* FCM's verdict on each message of a chunk; down: the tokens for which FCM *)
(* is out of order.                                                         *)
Verdict(i, t, down) ==
    CASE t \in down -> "transient"
      [] t \notin down /\ ~ incidents[i].valid -> "invalid"
      [] t \notin down /\ incidents[i].valid -> browser[t]

StaleWhateverDelivered(i, chunk, down) == \* Mutant: a refused payload is blamed on the tokens
    {t \in chunk : Verdict(i, t, down) \in {"unregistered", "invalid"}}

Stale(i, chunk, down) ==
    LET delivered == {t \in chunk : Verdict(i, t, down) = "delivered"} IN
    {t \in chunk : \/ Verdict(i, t, down) = "unregistered"
                   \/ Verdict(i, t, down) = "invalid" /\ delivered # {}}

(* Any exception while sending releases the claims; a FirebaseError is      *)
(* retried.                                                                 *)
Raise(i, again) ==
    /\ cooldown' = cooldown \ tasks[i].lines
    /\ raised' = [l \in Lines |-> IF l \in tasks[i].lines THEN Upto(raised[l] + 1, 2) ELSE raised[l]]
    /\ tasks' = [tasks EXCEPT ![i] =
                    IF again /\ @.tries < MAX_RETRIES_PUSH THEN Queued(@.tries + 1) ELSE Ended]

Chunks(todo) ==
    {sent \in SUBSET todo : Cardinality(sent) = Upto(Cardinality(todo), FCM_MULTICAST_LIMIT)}

(* The delivered tokens of a chunk hear of the lines of the task.           *)
Hear(i, sent, delivered) ==
    heard' = [t \in Tokens |-> [l \in Lines |->
                IF t \in delivered /\ l \in tasks[i].lines
                THEN Upto(heard[t][l] + Cardinality({row \in sent : row.token = t}), 4)
                ELSE heard[t][l]]]

(* A chunk is sent, and its verdicts are kept.                              *)
Verdicts(task, stage, sent, stale) ==
    [task EXCEPT !.stage = stage, !.todo = task.todo \ sent, !.stale = stale]

SendChunk(i) ==
    /\ tasks[i].stage = "sending" /\ tasks[i].todo # {}
    /\ \E sent \in Chunks(tasks[i].todo), down \in SUBSET Tokens :
          LET chunk == {row.token : row \in sent}
              delivered == {t \in chunk : Verdict(i, t, down) = "delivered"}
          IN
          /\ down \subseteq chunk /\ (pushFaults < MaxPushFaults \/ down = {})
          /\ Hear(i, sent, delivered)
          /\ pushFaults' = IF down = {} THEN pushFaults ELSE pushFaults + 1
          /\ tasks' = [tasks EXCEPT ![i] =
                Verdicts(@, IF delivered = {} /\ down # {} THEN "refused" ELSE "answered",
                         sent, Stale(i, chunk, down))]
    /\ UNCHANGED <<subs, browser, incidents, cooldown, raised, changes>>

(* The rows of its stale tokens are deleted, whoever owns them by now; a    *)
(* chunk of which FCM took nothing raises.                                  *)
DropStale(i) ==
    /\ tasks[i].stage \in {"answered", "refused"} /\ Drop(tasks[i].stale)
    /\ IF tasks[i].stage = "refused"
       THEN Raise(i, TRUE)
       ELSE /\ tasks' = [tasks EXCEPT ![i].stage = "sending", ![i].stale = {}]
            /\ UNCHANGED <<cooldown, raised>>
    /\ UNCHANGED <<browser, incidents, heard, changes, pushFaults>>

(* The FCM client itself fails, or a time limit strikes, whether or not the *)
(* chunk arrived, or the deletion fails.  A run that fails while it claims, *)
(* and a worker that is killed, leave the claims behind.                    *)
PushFails(i) ==
    /\ tasks[i].stage \in {"claiming", "sending", "answered", "refused"}
    /\ pushFaults < MaxPushFaults /\ pushFaults' = pushFaults + 1
    /\ \E sent \in {{}} \cup Chunks(tasks[i].todo) :
          /\ tasks[i].stage = "sending" \/ sent = {}
          /\ Hear(i, sent, {row.token : row \in sent})
    /\ \/ /\ tasks[i].stage # "claiming"
          /\ \E again \in BOOLEAN : (again => tasks[i].stage = "sending") /\ Raise(i, again)
       \/ tasks' = [tasks EXCEPT ![i] = Ended] /\ UNCHANGED <<cooldown, raised>>
    /\ UNCHANGED <<subs, browser, incidents, changes>>

Complete(i) ==
    /\ tasks[i].stage = "sending" /\ tasks[i].todo = {}
    /\ tasks' = [tasks EXCEPT ![i] = Ended]
    /\ UNCHANGED <<subs, browser, incidents, cooldown, heard, raised, changes, pushFaults>>

(* COOLDOWN_SECONDS later.  A run is limited to a minute, so the key of a   *)
(* line outlives the run that claimed it.                                   *)
Expire(l) ==
    /\ l \in cooldown /\ \A i \in Incidents : l \notin tasks[i].lines
    /\ cooldown' = cooldown \ {l}
    /\ heard' = [t \in Tokens |-> [heard[t] EXCEPT ![l] = 0]]
    /\ raised' = [raised EXCEPT ![l] = 0]
    /\ UNCHANGED <<subs, browser, incidents, tasks, changes, pushFaults>>

---------------------------------------------------------------------------
PushInit ==
    /\ subs \in InitialSubs /\ browser \in Browsers
    /\ \E valid \in Payloads :
          incidents = [i \in Incidents |-> [major |-> TRUE, valid |-> valid[i]]]
    /\ cooldown = {}
    /\ tasks = [i \in Incidents |-> Queued(0)]
    /\ heard = [t \in Tokens |-> [l \in Lines |-> 0]]
    /\ raised = [l \in Lines |-> 0] /\ changes = 0 /\ pushFaults = 0

Notify(i) ==
    \/ Begins(i) \/ ReadTokens(i) \/ SendChunk(i) \/ DropStale(i) \/ Complete(i)
    \/ \E l \in Lines : ClaimLine(i, l)

PushNext ==
    \/ \E user \in Users, t \in Tokens, lines \in LineChoices : Register(user, t, lines)
    \/ \E t \in Tokens : Unregister(t)
    \/ \E i \in Incidents : Notify(i) \/ PushFails(i) \/ Withdraw(i)
    \/ \E l \in Lines : Expire(l)

PushSpec == PushInit /\ [][PushNext]_pushVars

---------------------------------------------------------------------------
(* Subscriptions, claims and tasks stay in their types; registrations are   *)
(* told apart by their time, as the eviction needs, and a task that holds   *)
(* lines holds their cooldown keys.                                         *)
PushTypeOK ==
    /\ subs \in [Tokens -> [user : Users \cup {Nobody}, lines : SUBSET Lines, modified : Int]]
    /\ \A t, u \in Registered : subs[t].modified = subs[u].modified => t = u
    /\ cooldown \subseteq Lines
    /\ \A i \in Incidents :
          /\ tasks[i].stage \in {"queued", "claiming", "sending", "answered", "refused", "done"}
          /\ tasks[i].wanted \subseteq Lines /\ tasks[i].stale \subseteq Tokens
          /\ tasks[i].lines \subseteq cooldown /\ tasks[i].todo \subseteq [token : Tokens, line : Lines]
          /\ tasks[i].tries \in 0 .. MAX_RETRIES_PUSH
    /\ heard \in [Tokens -> [Lines -> 0 .. 4]] /\ raised \in [Lines -> 0 .. 2]
    /\ changes \in 0 .. MaxChanges /\ pushFaults \in 0 .. MaxPushFaults

(* In one cooldown of a line a browser hears of it once, however many       *)
(* incidents and concurrent tasks there are; only a run that failed after   *)
(* an earlier chunk went out may tell it again.                             *)
OneAlertPerCooldown ==
    \A t \in Tokens, l \in Lines : raised[l] < 2 => heard[t][l] <= 1 + raised[l]

(* FCM's verdicts never cost a working browser its subscription: not when   *)
(* the payload is refused, not when FCM is down.                            *)
LiveTokensSurvive ==
    [][\A t \in Registered :
          (browser[t] = "delivered" /\ subs'[t] = NoSub) => changes' # changes]_pushVars
===========================================================================
