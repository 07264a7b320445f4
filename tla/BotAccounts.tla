---------------------------- MODULE BotAccounts ----------------------------
(* Linking a Telegram account to a site account: request_verification_code  *)
(* (common/schema/schema.py), the bot's /verify (telegram_provider/         *)
(* handlers.py), the cleanup of codes (common/tasks.py) and update_user,    *)
(* which saves the same row of common.User.  A save writes every column of  *)
(* the row as it was read.  The three branches of /verify fail one by one,  *)
(* and it may die between any two of its steps.                             *)
EXTENDS Integers, FiniteSets

CONSTANTS
    Accounts,     \* site accounts
    Telegrams,    \* Telegram accounts, each with one /verify at a time
    Codes,        \* verification codes: their column is unique
    NoTelegram, NoAccount,
    MaxVerifies   \* bound: /verify messages and update_user requests

ASSUME AccountAssumption ==
    NoTelegram \notin Telegrams /\ NoAccount \notin Accounts /\ MaxVerifies \in Nat

VARIABLES
    accounts,  \* telegram_id and nickname of each account
    codes,     \* the account each code was issued to
    verifies,  \* the /verify of each Telegram account
    updates,   \* the row update_user has read and is about to save
    handled,
    told,      \* the account each Telegram account was last told it is linked to
    presented, \* history: whose code each Telegram account has presented
    unsaved,   \* history: links whose last save did not go through
    unlinked   \* history: accounts whose link update_user has overwritten

accountVars == <<accounts, codes, verifies, updates, handled, told, presented, unsaved, unlinked>>
links == <<accounts, unsaved, unlinked>>

Unread == [stage |-> "none"]
Row == [telegram_id : Telegrams \cup {NoTelegram}, nickname : {"old", "new"}]

RequestCode(u, c) ==
    /\ codes[c] = NoAccount
    /\ codes' = [codes EXCEPT ![c] = u]
    /\ UNCHANGED <<links, verifies, updates, handled, told, presented>>

(* Ten minutes or more after it was issued.                                 *)
ExpireCode(c) ==
    /\ codes[c] # NoAccount
    /\ codes' = [codes EXCEPT ![c] = NoAccount]
    /\ UNCHANGED <<links, verifies, updates, handled, told, presented>>

---------------------------------------------------------------------------
FindCode(t, c) ==
    /\ verifies[t].stage = "none" /\ handled < MaxVerifies
    /\ handled' = handled + 1
    /\ IF codes[c] = NoAccount
       THEN UNCHANGED <<verifies, presented>>
       ELSE /\ verifies' = [verifies EXCEPT ![t] = [stage |-> "found", code |-> c, user |-> codes[c]]]
            /\ presented' = presented \cup {<<t, codes[c]>>}
    /\ UNCHANGED <<links, codes, updates, told>>

Linking(t, u) ==
    [stage |-> "gather", code |-> verifies[t].code, user |-> u,
     row |-> [accounts[u] EXCEPT !.telegram_id = t], todo |-> {"save", "delete", "reply"}]

LoadUserOfCode(t) == \* Mutant: the owner is looked up by the code once more
    LET u == codes[verifies[t].code] IN
    /\ verifies[t].stage = "found" /\ u # NoAccount
    /\ verifies' = [verifies EXCEPT ![t] = Linking(t, u)]
    /\ UNCHANGED <<links, codes, updates, handled, told, presented>>

LoadUser(t) ==
    /\ verifies[t].stage = "found"
    /\ verifies' = [verifies EXCEPT ![t] = Linking(t, @.user)]
    /\ UNCHANGED <<links, codes, updates, handled, told, presented>>

(* The three branches of the gather, in any order; one that fails stops     *)
(* none of the others.                                                      *)
Todo(t, step) == verifies[t].stage = "gather" /\ step \in verifies[t].todo

CheckOff(t, step) ==
    LET rest == verifies[t].todo \ {step} IN
    verifies' = [verifies EXCEPT ![t] = IF rest = {} THEN Unread ELSE [verifies[t] EXCEPT !.todo = rest]]

TakenElsewhere(t, u) == \E v \in Accounts \ {u} : accounts[v].telegram_id = t

NotSaved(t) ==
    /\ unsaved' = unsaved \cup {<<t, verifies[t].user>>}
    /\ UNCHANGED <<accounts, unlinked>>

SaveUser(t) ==
    LET u == verifies[t].user IN
    /\ Todo(t, "save") /\ CheckOff(t, "save")
    /\ IF TakenElsewhere(t, u)
       THEN NotSaved(t)
       ELSE /\ accounts' = [accounts EXCEPT ![u] = verifies[t].row]
            /\ unsaved' = unsaved \ {<<t, u>>} /\ unlinked' = unlinked \ {u}
    /\ UNCHANGED <<codes, updates, handled, told, presented>>

DeleteCode(t) ==
    /\ Todo(t, "delete") /\ CheckOff(t, "delete")
    /\ codes' = [codes EXCEPT ![verifies[t].code] = NoAccount]
    /\ UNCHANGED <<links, updates, handled, told, presented>>

ReplySuccess(t) ==
    /\ Todo(t, "reply") /\ CheckOff(t, "reply")
    /\ told' = [told EXCEPT ![t] = verifies[t].user]
    /\ UNCHANGED <<links, codes, updates, handled, presented>>

(* An error of the database or of Telegram.                                 *)
BranchFails(t, step) ==
    /\ Todo(t, step) /\ CheckOff(t, step)
    /\ IF step = "save" THEN NotSaved(t) ELSE UNCHANGED links
    /\ UNCHANGED <<codes, updates, handled, told, presented>>

VerifyDies(t) ==
    /\ verifies[t].stage # "none"
    /\ verifies' = [verifies EXCEPT ![t] = Unread]
    /\ IF Todo(t, "save") THEN NotSaved(t) ELSE UNCHANGED links
    /\ UNCHANGED <<codes, updates, handled, told, presented>>

---------------------------------------------------------------------------
BeginUpdate(u) ==
    /\ updates[u] = Unread /\ handled < MaxVerifies
    /\ handled' = handled + 1
    /\ updates' = [updates EXCEPT ![u] = [accounts[u] EXCEPT !.nickname = "new"]]
    /\ UNCHANGED <<links, codes, verifies, told, presented>>

(* The copy may name a Telegram account that has gone to another account:   *)
(* then the save is refused.  It may also fail, and it may be older than    *)
(* the link of the account.                                                 *)
EndUpdate(u) ==
    LET row == updates[u] IN
    /\ row # Unread
    /\ updates' = [updates EXCEPT ![u] = Unread]
    /\ \/ UNCHANGED <<accounts, unlinked>>
       \/ /\ row.telegram_id = NoTelegram \/ ~ TakenElsewhere(row.telegram_id, u)
          /\ accounts' = [accounts EXCEPT ![u] = row]
          /\ unlinked' = IF row.telegram_id = NoTelegram /\ accounts[u].telegram_id # NoTelegram
                         THEN unlinked \cup {u} ELSE unlinked
    /\ UNCHANGED <<unsaved, codes, verifies, handled, told, presented>>

---------------------------------------------------------------------------
AccountInit ==
    /\ accounts = [u \in Accounts |-> [telegram_id |-> NoTelegram, nickname |-> "old"]]
    /\ codes = [c \in Codes |-> NoAccount] /\ verifies = [t \in Telegrams |-> Unread]
    /\ updates = [u \in Accounts |-> Unread] /\ handled = 0
    /\ told = [t \in Telegrams |-> NoAccount]
    /\ presented = {} /\ unsaved = {} /\ unlinked = {}

AccountNext ==
    \/ \E u \in Accounts : \/ BeginUpdate(u) \/ EndUpdate(u)
                           \/ \E c \in Codes : RequestCode(u, c)
    \/ \E c \in Codes : ExpireCode(c)
    \/ \E t \in Telegrams :
          \/ \E c \in Codes : FindCode(t, c)
          \/ LoadUser(t) \/ SaveUser(t) \/ DeleteCode(t) \/ ReplySuccess(t) \/ VerifyDies(t)
          \/ \E step \in {"save", "delete", "reply"} : BranchFails(t, step)

AccountSpec == AccountInit /\ [][AccountNext]_accountVars

---------------------------------------------------------------------------
AccountTypeOK ==
    /\ accounts \in [Accounts -> Row] /\ codes \in [Codes -> Accounts \cup {NoAccount}]
    /\ \A t \in Telegrams : verifies[t].stage \in {"none", "found", "gather"}
    /\ \A u \in Accounts : updates[u] = Unread \/ updates[u] \in Row
    /\ told \in [Telegrams -> Accounts \cup {NoAccount}]
    /\ presented \subseteq Telegrams \X Accounts /\ unsaved \subseteq presented
    /\ unlinked \subseteq Accounts

(* Whichever of two chats that use one code comes last, whatever is issued, *)
(* expires and fails in between: an account is linked to a chat that has    *)
(* presented a code of this account, and to one that is linked to no other. *)
(* A chat that was told of its success finds the account linked, but for    *)
(* two reasons: its save did not go through, which the reply does not wait  *)
(* for, or update_user saved a copy it had read before the link.            *)
SuccessMeansLinked ==
    /\ \A u \in Accounts :
          accounts[u].telegram_id = NoTelegram \/ <<accounts[u].telegram_id, u>> \in presented
    /\ \A u, v \in Accounts :
          accounts[u].telegram_id = accounts[v].telegram_id
              => u = v \/ accounts[u].telegram_id = NoTelegram
    /\ \A t \in Telegrams :
          LET u == told[t] IN
          (u # NoAccount /\ ~ Todo(t, "save"))
              => \/ accounts[u].telegram_id # NoTelegram
                 \/ <<t, u>> \in unsaved \/ u \in unlinked
===========================================================================
