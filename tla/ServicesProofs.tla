--------------------------- MODULE ServicesProofs --------------------------
(* Proofs about the small services: accounts and the bot (BotAccounts), the *)
(* credit ledger, the egress to Telegram, the digest of spottings, push     *)
(* alerts, the import of traces and the status of lines, each for any       *)
(* number of users, calls, chats, days, messages, rows and reports; and,    *)
(* with the proofs about OfficialPosts and PublicFeed, about the            *)
(* composition of all services in MCServices.                               *)
EXTENDS MCServices, OfficialPostsProofs, PublicFeedProofs,
        FiniteSetTheorems, WellFoundedInduction, TLAPS

(* Every nonempty set of naturals has a least element.                      *)
LEMMA LeastNatural ==
    ASSUME NEW T \in SUBSET Nat, T # {}
    PROVE  \E m \in T : \A n \in T : m <= n
<1>1. PICK m \in T : \A n \in T : ~ (<<n, m>> \in OpToRel(<, Nat))
  BY NatLessThanWellFounded, WFMin
<1>2. \A n \in T : ~ (n < m)
  BY <1>1 DEF OpToRel
<1> QED
  BY <1>2

---------------------------------------------------------------------------
(* Accounts and the bot.                                                    *)

(* The account row a copy may be written to: it names nobody, or a chat that*)
(* has presented a code of the account.                                     *)
Earned(row, u) == row \in Row /\ (row.telegram_id = NoTelegram \/ <<row.telegram_id, u>> \in presented)

VerifyFits(t) ==
    \/ verifies[t] = Unread
    \/ /\ verifies[t].user \in Accounts /\ <<t, verifies[t].user>> \in presented
       /\ \/ verifies[t].stage = "found"
          \/ /\ verifies[t].stage = "gather"
             /\ DOMAIN verifies[t] = {"stage", "code", "user", "row", "todo"}
             /\ verifies[t].row \in Row /\ verifies[t].row.telegram_id = t

(* A copy of a row, kept by /verify or by update_user, is as earned as the  *)
(* row in the table.                                                        *)
CopiesFit ==
    /\ codes \in [Codes -> Accounts \cup {NoAccount}]
    /\ DOMAIN updates = Accounts
    /\ \A u \in Accounts : updates[u] = Unread \/ Earned(updates[u], u)
    /\ told \in [Telegrams -> Accounts \cup {NoAccount}]
    /\ DOMAIN verifies = Telegrams
    /\ \A t \in Telegrams : VerifyFits(t)

(* The unique constraint on telegram_id, and where the links come from.     *)
LinksFit ==
    /\ accounts \in [Accounts -> Row]
    /\ \A u \in Accounts : Earned(accounts[u], u)
    /\ \A u, v \in Accounts :
          accounts[u].telegram_id = accounts[v].telegram_id
              => u = v \/ accounts[u].telegram_id = NoTelegram
    /\ presented \subseteq Telegrams \X Accounts /\ unsaved \subseteq presented
    /\ unlinked \subseteq Accounts

(* A success that can be relied on: nothing but update_user's older copy    *)
(* takes a link away and leaves none, so it lasts.                          *)
Linked(t, u) ==
    accounts[u].telegram_id # NoTelegram \/ <<t, u>> \in unsaved \/ u \in unlinked

Done(t, step) == verifies[t].stage = "gather" /\ step \notin verifies[t].todo

(* The two branches of the gather that matter may run in either order and   *)
(* fail: what each has left behind when it is over.  Only the reply of the  *)
(* very /verify whose save is due may be ahead of the link.                 *)
BranchFits(t) ==
    /\ Done(t, "save") => Linked(t, verifies[t].user)
    /\ told[t] # NoAccount =>
          Linked(t, told[t]) \/ (Todo(t, "save") /\ told[t] = verifies[t].user)

BranchesFit == \A t \in Telegrams : BranchFits(t)

AccountInv == CopiesFit /\ LinksFit /\ BranchesFit

---------------------------------------------------------------------------
(* What a step may do to the table and the histories.                       *)
LinksLast ==
    /\ \A t \in Telegrams, u \in Accounts : Linked(t, u) => Linked(t, u)'
    /\ presented \subseteq presented'

(* A save that the constraint admits keeps the chats apart and the links    *)
(* earned, and links the account.                                           *)
LEMMA SaveLinks ==
    ASSUME AccountAssumption, LinksFit, NEW t \in Telegrams, NEW u \in Accounts, NEW row \in Row,
           row.telegram_id = t, <<t, u>> \in presented, ~ TakenElsewhere(t, u),
           accounts' = [accounts EXCEPT ![u] = row], presented' = presented,
           unsaved' = unsaved \ {<<t, u>>}, unlinked' = unlinked \ {u}
    PROVE  LinksFit' /\ LinksLast /\ Linked(t, u)'
<1>1. \A v \in Accounts : accounts'[v] = IF v = u THEN row ELSE accounts[v]
  BY DEF LinksFit
<1>2. accounts' \in [Accounts -> Row]
  BY DEF LinksFit
<1>3. \A v \in Accounts : Earned(accounts[v], v)'
  BY <1>1, <1>2 DEF LinksFit, Earned
<1>4. \A v \in Accounts : v # u => accounts[v].telegram_id # t
  BY DEF TakenElsewhere
<1>5. LinksFit'
  BY <1>1, <1>2, <1>3, <1>4 DEF LinksFit
<1>6. accounts'[u].telegram_id # NoTelegram
  BY <1>1, AccountAssumption
<1>7. ASSUME NEW s \in Telegrams, NEW v \in Accounts, Linked(s, v)
      PROVE  Linked(s, v)'
  <2>1. CASE v = u
    BY <1>6, <2>1 DEF Linked
  <2>2. CASE v # u
    <3>1. <<s, v>> # <<t, u>>
      BY <2>2
    <3> QED
      BY <1>1, <1>7, <2>2, <3>1 DEF Linked
  <2> QED
    BY <2>1, <2>2
<1> QED
  BY <1>5, <1>6, <1>7 DEF LinksLast, Linked

(* A save that does not go through is remembered.                           *)
LEMMA NotSavedEffect ==
    ASSUME LinksFit, NEW t \in Telegrams, NEW u, u = verifies[t].user, <<t, u>> \in presented,
           NotSaved(t), presented' = presented
    PROVE  LinksFit' /\ LinksLast /\ Linked(t, u)'
<1>1. accounts' = accounts /\ unlinked' = unlinked /\ unsaved' = unsaved \cup {<<t, u>>}
  BY DEF NotSaved
<1> QED
  BY <1>1 DEF LinksFit, LinksLast, Linked, Earned

(* Steps that leave the links alone.                                        *)
LEMMA LinksUntouched ==
    ASSUME LinksFit, UNCHANGED links, presented \subseteq presented',
           presented' \subseteq Telegrams \X Accounts
    PROVE  LinksFit' /\ LinksLast
BY DEF links, LinksFit, LinksLast, Linked, Earned

(* A step of one chat: the others' copies and branches stay as they are.    *)
LEMMA OthersStay ==
    ASSUME AccountInv, LinksFit', LinksLast, NEW t \in Telegrams, UNCHANGED updates,
           codes' \in [Codes -> Accounts \cup {NoAccount}],
           told' \in [Telegrams -> Accounts \cup {NoAccount}], DOMAIN verifies' = Telegrams,
           \A s \in Telegrams : s # t => verifies'[s] = verifies[s] /\ told'[s] = told[s],
           VerifyFits(t)', BranchFits(t)'
    PROVE  AccountInv'
<1> USE DEF AccountInv
<1>1. \A u \in Accounts : (updates[u] = Unread \/ Earned(updates[u], u))'
  BY DEF CopiesFit, LinksLast, Earned
<1>2. ASSUME NEW s \in Telegrams, s # t
      PROVE  VerifyFits(s)' /\ BranchFits(s)'
  <2>1. verifies'[s] = verifies[s] /\ told'[s] = told[s] /\ VerifyFits(s) /\ BranchFits(s)
    BY <1>2 DEF CopiesFit, BranchesFit
  <2>2. VerifyFits(s)'
    BY <2>1 DEF VerifyFits, LinksLast
  <2>3. Done(s, "save") => verifies[s].user \in Accounts
    BY <2>1 DEF Done, VerifyFits, Unread
  <2>4. told[s] \in Accounts \cup {NoAccount}
    BY DEF CopiesFit
  <2>5. BranchFits(s)'
    BY <2>1, <2>3, <2>4 DEF BranchFits, LinksLast, Done, Todo, Linked
  <2> QED
    BY <2>2, <2>5
<1>3. CopiesFit'
  BY <1>1, <1>2 DEF CopiesFit
<1>4. BranchesFit'
  BY <1>2 DEF BranchesFit
<1> QED
  BY <1>3, <1>4

(* Checking a step off ends the gather with the last one, and does nothing  *)
(* else to it.                                                              *)
LEMMA CheckOffEffect ==
    ASSUME CopiesFit, NEW t \in Telegrams, NEW step, Todo(t, step), CheckOff(t, step)
    PROVE  /\ DOMAIN verifies' = Telegrams
           /\ \A s \in Telegrams : s # t => verifies'[s] = verifies[s]
           /\ verifies[t] # Unread /\ verifies[t].user \in Accounts
           /\ <<t, verifies[t].user>> \in presented
           /\ \/ verifies'[t] = Unread /\ \A b : b # step => b \notin verifies[t].todo
              \/ /\ verifies'[t].stage = "gather" /\ verifies'[t].user = verifies[t].user
                 /\ verifies'[t].row = verifies[t].row
                 /\ DOMAIN verifies'[t] = DOMAIN verifies[t]
                 /\ verifies'[t].todo = verifies[t].todo \ {step}
<1>1. /\ verifies[t].stage = "gather" /\ DOMAIN verifies = Telegrams /\ verifies[t] # Unread
      /\ DOMAIN verifies[t] = {"stage", "code", "user", "row", "todo"}
      /\ verifies[t].user \in Accounts /\ <<t, verifies[t].user>> \in presented
  BY DEF CopiesFit, VerifyFits, Todo, Unread
<1> DEFINE rest == verifies[t].todo \ {step}
<1>2. CASE rest = {}
  BY <1>1, <1>2 DEF CheckOff
<1>3. CASE rest # {}
  <2> DEFINE left == [verifies[t] EXCEPT !.todo = rest]
  <2>1. verifies' = [verifies EXCEPT ![t] = left]
    BY <1>3 DEF CheckOff
  <2>2. /\ left.stage = "gather" /\ left.user = verifies[t].user /\ left.row = verifies[t].row
        /\ DOMAIN left = DOMAIN verifies[t] /\ left.todo = rest
    BY <1>1
  <2> HIDE DEF left
  <2> QED
    BY <1>1, <2>1, <2>2
<1> QED
  BY <1>2, <1>3

(* A branch that is over, whichever and however, leaves the rest to go on.  *)
LEMMA BranchOver ==
    ASSUME AccountAssumption, AccountInv, LinksFit', LinksLast, NEW t \in Telegrams, NEW step,
           Todo(t, step), CheckOff(t, step), NEW u, u = verifies[t].user, UNCHANGED updates,
           codes' \in [Codes -> Accounts \cup {NoAccount}],
           told' = told \/ (step = "reply" /\ told' = [told EXCEPT ![t] = u]),
           step = "save" => Linked(t, u)'
    PROVE  AccountInv'
<1> USE DEF AccountInv
<1>1. /\ DOMAIN verifies' = Telegrams /\ \A s \in Telegrams : s # t => verifies'[s] = verifies[s]
      /\ verifies[t] # Unread /\ u \in Accounts /\ <<t, u>> \in presented
      /\ verifies[t].stage = "gather" /\ VerifyFits(t) /\ BranchFits(t)
  BY CheckOffEffect DEF CopiesFit, BranchesFit, Todo
<1>2. \/ verifies'[t] = Unread /\ \A b : b # step => b \notin verifies[t].todo
      \/ /\ verifies'[t].stage = "gather" /\ verifies'[t].user = u
         /\ verifies'[t].row = verifies[t].row
         /\ DOMAIN verifies'[t] = DOMAIN verifies[t]
         /\ verifies'[t].todo = verifies[t].todo \ {step}
  BY CheckOffEffect
<1>3. VerifyFits(t)'
  BY <1>1, <1>2 DEF VerifyFits, LinksLast, Unread
<1>4. step # "save" => (Todo(t, "save") \/ Done(t, "save"))
  BY <1>1 DEF Todo, Done
<1>5. told' \in [Telegrams -> Accounts \cup {NoAccount}]
      /\ \A s \in Telegrams : s # t => told'[s] = told[s]
  BY <1>1 DEF CopiesFit
<1>6. told'[t] = told[t] \/ (step = "reply" /\ told'[t] = u)
  BY DEF CopiesFit
<1>7. told[t] \in Accounts \cup {NoAccount}
  BY DEF CopiesFit
<1>8. CASE Linked(t, u)'
  <2>1. Done(t, "save")' => verifies'[t].user = u
    BY <1>2 DEF Done, Unread
  <2>2. (told[t] # NoAccount => Linked(t, told[t]))'
    BY <1>1, <1>6, <1>7, <1>8 DEF BranchFits, LinksLast, Linked
  <2>3. BranchFits(t)'
    BY <1>8, <2>1, <2>2 DEF BranchFits, Linked
  <2> QED
    BY <1>1, <1>3, <1>5, <2>3, OthersStay
<1>9. CASE ~ Linked(t, u)'
  <2>1. Todo(t, "save") /\ step # "save"
    BY <1>1, <1>4, <1>9 DEF BranchFits, LinksLast
  <2>2. Todo(t, "save")' /\ verifies'[t].user = u
    BY <1>2, <2>1 DEF Todo
  <2>3. BranchFits(t)'
    BY <1>1, <1>6, <1>7, <2>1, <2>2 DEF BranchFits, LinksLast, Linked, Todo, Done
  <2> QED
    BY <1>1, <1>3, <1>5, <2>3, OthersStay
<1> QED
  BY <1>8, <1>9

---------------------------------------------------------------------------
(* Every step of an account request keeps the invariant.                    *)
LEMMA AccountInvKept ==
    ASSUME AccountAssumption, AccountInv, AccountNext
    PROVE  AccountInv'
<1> USE DEF AccountInv
<1>1. ASSUME UNCHANGED <<links, verifies, told, presented>>,
             codes' \in [Codes -> Accounts \cup {NoAccount}], DOMAIN updates' = Accounts,
             \A u \in Accounts : updates'[u] = Unread \/ Earned(updates'[u], u)
      PROVE  AccountInv'
  BY <1>1 DEF links, CopiesFit, VerifyFits, LinksFit, BranchesFit, BranchFits, Linked, Earned, Done, Todo
<1>2. ASSUME NEW u \in Accounts, NEW c \in Codes, RequestCode(u, c)
      PROVE  AccountInv'
  BY <1>1, <1>2 DEF RequestCode, CopiesFit
<1>3. ASSUME NEW c \in Codes, ExpireCode(c)
      PROVE  AccountInv'
  BY <1>1, <1>3 DEF ExpireCode, CopiesFit
<1>4. ASSUME NEW u \in Accounts, BeginUpdate(u)
      PROVE  AccountInv'
  <2> DEFINE row == [accounts[u] EXCEPT !.nickname = "new"]
  <2>1. Earned(row, u)
    <3>1. accounts[u] \in Row /\ Earned(accounts[u], u)
      BY DEF LinksFit
    <3>2. row \in Row /\ row.telegram_id = accounts[u].telegram_id
      BY <3>1 DEF Row
    <3> HIDE DEF row
    <3> QED
      BY <3>1, <3>2 DEF Earned
  <2>2. updates' = [updates EXCEPT ![u] = row] /\ UNCHANGED <<links, codes, verifies, told, presented>>
    BY <1>4 DEF BeginUpdate
  <2> HIDE DEF row
  <2> QED
    BY <1>1, <2>1, <2>2 DEF CopiesFit
<1>5. ASSUME NEW u \in Accounts, EndUpdate(u)
      PROVE  AccountInv'
  <2>1. /\ Earned(updates[u], u) /\ UNCHANGED <<unsaved, codes, verifies, told, presented>>
        /\ updates' = [updates EXCEPT ![u] = Unread]
    BY <1>5 DEF EndUpdate, CopiesFit
  <2>2. CASE UNCHANGED <<accounts, unlinked>>
    BY <1>1, <2>1, <2>2 DEF links, CopiesFit
  <2>3. CASE /\ updates[u].telegram_id = NoTelegram \/ ~ TakenElsewhere(updates[u].telegram_id, u)
             /\ accounts' = [accounts EXCEPT ![u] = updates[u]]
             /\ unlinked' = IF updates[u].telegram_id = NoTelegram /\ accounts[u].telegram_id # NoTelegram
                            THEN unlinked \cup {u} ELSE unlinked
    <3>1. PICK row : row = updates[u] /\ row \in Row /\ Earned(row, u)
      BY <2>1 DEF Earned
    <3>2. \A v \in Accounts : accounts'[v] = IF v = u THEN row ELSE accounts[v]
      BY <2>3, <3>1 DEF LinksFit
    <3>3. accounts' \in [Accounts -> Row] /\ unlinked' \subseteq Accounts
      BY <2>3, <3>1 DEF LinksFit
    <3>4. row.telegram_id # NoTelegram => \A v \in Accounts : v # u => accounts[v].telegram_id # row.telegram_id
      BY <2>3, <3>1 DEF TakenElsewhere
    <3>5. LinksFit'
      BY <2>1, <3>1, <3>2, <3>3, <3>4 DEF LinksFit, Earned
    <3>6. ASSUME NEW t \in Telegrams, NEW v \in Accounts, Linked(t, v)
          PROVE  Linked(t, v)'
      BY <2>1, <2>3, <3>1, <3>2, <3>6 DEF Linked
    <3>7. CopiesFit'
      BY <2>1 DEF CopiesFit, VerifyFits, Earned
    <3>8. ASSUME NEW t \in Telegrams
          PROVE  BranchFits(t)'
      <4>1. BranchFits(t) /\ VerifyFits(t) /\ told[t] \in Accounts \cup {NoAccount}
        BY DEF BranchesFit, CopiesFit
      <4>2. Done(t, "save") => verifies[t].user \in Accounts
        BY <4>1 DEF Done, VerifyFits, Unread
      <4> QED
        BY <2>1, <3>6, <4>1, <4>2 DEF BranchFits, Done, Todo, Linked
    <3> QED
      BY <3>5, <3>7, <3>8 DEF BranchesFit
  <2> QED
    BY <1>5, <2>2, <2>3 DEF EndUpdate
<1>6. ASSUME NEW t \in Telegrams, NEW c \in Codes, FindCode(t, c)
      PROVE  AccountInv'
  <2>1. verifies[t] = Unread /\ UNCHANGED <<links, codes, updates, told>> /\ codes[c] \in Accounts \cup {NoAccount}
    BY <1>6 DEF FindCode, CopiesFit, VerifyFits, Unread
  <2>2. CASE codes[c] = NoAccount
    BY <1>1, <1>6, <2>1, <2>2 DEF FindCode, CopiesFit
  <2>3. CASE codes[c] # NoAccount
    <3>1. PICK u \in Accounts : u = codes[c]
      BY <2>1, <2>3
    <3> DEFINE found == [stage |-> "found", code |-> c, user |-> u]
    <3>2. verifies' = [verifies EXCEPT ![t] = found] /\ presented' = presented \cup {<<t, u>>}
      BY <1>6, <2>3, <3>1 DEF FindCode
    <3>3. found.stage = "found" /\ found.user = u
      OBVIOUS
    <3> HIDE DEF found
    <3>4. /\ DOMAIN verifies' = Telegrams /\ verifies'[t] = found
          /\ \A s \in Telegrams : s # t => verifies'[s] = verifies[s]
      BY <3>2 DEF CopiesFit
    <3>5. presented \subseteq presented' /\ presented' \subseteq Telegrams \X Accounts /\ <<t, u>> \in presented'
      BY <3>2 DEF LinksFit
    <3>6. LinksFit' /\ LinksLast
      BY <2>1, <3>5, LinksUntouched
    <3>7. VerifyFits(t)'
      BY <3>1, <3>3, <3>4, <3>5 DEF VerifyFits
    <3>8. BranchFits(t)'
      <4>1. BranchFits(t) /\ ~ Todo(t, "save") /\ told[t] \in Accounts \cup {NoAccount}
        BY <2>1 DEF BranchesFit, CopiesFit, Todo, Unread
      <4> QED
        BY <2>1, <3>3, <3>4, <3>6, <4>1 DEF BranchFits, Done, Todo, LinksLast, Linked
    <3> QED
      BY <2>1, <3>4, <3>6, <3>7, <3>8, OthersStay DEF CopiesFit
  <2> QED
    BY <2>2, <2>3
<1>7. ASSUME NEW t \in Telegrams, LoadUser(t)
      PROVE  AccountInv'
  <2>0. PICK u : u = verifies[t].user
    OBVIOUS
  <2>1. u \in Accounts /\ <<t, u>> \in presented /\ UNCHANGED <<links, codes, updates, told, presented>>
        /\ verifies[t].stage = "found"
    BY <1>7, <2>0 DEF LoadUser, CopiesFit, VerifyFits, Unread
  <2> DEFINE row == [accounts[u] EXCEPT !.telegram_id = t]
             job == [stage |-> "gather", code |-> verifies[t].code, user |-> u, row |-> row,
                     todo |-> {"save", "delete", "reply"}]
  <2>2. row \in Row /\ row.telegram_id = t
    BY <2>1 DEF LinksFit, Row
  <2>3. verifies' = [verifies EXCEPT ![t] = job]
    BY <1>7, <2>0 DEF LoadUser, Linking
  <2> HIDE DEF row
  <2>4. /\ job.stage = "gather" /\ job.user = u /\ job.row = row /\ job.todo = {"save", "delete", "reply"}
        /\ DOMAIN job = {"stage", "code", "user", "row", "todo"}
    OBVIOUS
  <2> HIDE DEF job
  <2>5. /\ DOMAIN verifies' = Telegrams /\ verifies'[t] = job
        /\ \A s \in Telegrams : s # t => verifies'[s] = verifies[s]
    BY <2>3 DEF CopiesFit
  <2>6. LinksFit' /\ LinksLast
    BY <2>1, LinksUntouched DEF LinksFit
  <2>7. VerifyFits(t)'
    BY <2>1, <2>2, <2>4, <2>5 DEF VerifyFits
  <2>8. BranchFits(t)'
    <3>1. BranchFits(t) /\ ~ Todo(t, "save") /\ told[t] \in Accounts \cup {NoAccount}
      BY <2>1 DEF BranchesFit, CopiesFit, Todo
    <3> QED
      BY <2>1, <2>4, <2>5, <2>6, <3>1 DEF BranchFits, Done, Todo, LinksLast, Linked
  <2> QED
    BY <2>1, <2>5, <2>6, <2>7, <2>8, OthersStay DEF CopiesFit
<1>8. ASSUME NEW t \in Telegrams, Todo(t, "save"), CheckOff(t, "save"), NotSaved(t),
             UNCHANGED <<codes, updates, told, presented>>
      PROVE  AccountInv'
  <2>0. PICK u : u = verifies[t].user
    OBVIOUS
  <2>1. <<t, u>> \in presented
    BY <1>8, <2>0, CheckOffEffect
  <2>2. LinksFit' /\ LinksLast /\ Linked(t, u)'
    BY <1>8, <2>0, <2>1, NotSavedEffect
  <2>3. codes' \in [Codes -> Accounts \cup {NoAccount}]
    BY <1>8 DEF CopiesFit
  <2> QED
    BY <1>8, <2>0, <2>2, <2>3, BranchOver
<1>9. ASSUME NEW t \in Telegrams, SaveUser(t)
      PROVE  AccountInv'
  <2>0. PICK u : u = verifies[t].user
    OBVIOUS
  <2>1. Todo(t, "save") /\ CheckOff(t, "save") /\ UNCHANGED <<codes, updates, told, presented>>
    BY <1>9 DEF SaveUser
  <2>2. CASE TakenElsewhere(t, u)
    BY <1>8, <1>9, <2>0, <2>1, <2>2 DEF SaveUser
  <2>3. CASE ~ TakenElsewhere(t, u)
    <3>1. /\ accounts' = [accounts EXCEPT ![u] = verifies[t].row]
          /\ unsaved' = unsaved \ {<<t, u>>} /\ unlinked' = unlinked \ {u}
      BY <1>9, <2>0, <2>3 DEF SaveUser
    <3>2. /\ u \in Accounts /\ <<t, u>> \in presented /\ verifies[t].row \in Row
          /\ verifies[t].row.telegram_id = t
      BY <2>0, <2>1 DEF CopiesFit, VerifyFits, Todo, Unread
    <3>3. PICK row \in Row : row = verifies[t].row
      BY <3>2
    <3>4. LinksFit' /\ LinksLast /\ Linked(t, u)'
      BY <2>1, <2>3, <3>1, <3>2, <3>3, SaveLinks
    <3>5. codes' \in [Codes -> Accounts \cup {NoAccount}]
      BY <2>1 DEF CopiesFit
    <3> QED
      BY <2>0, <2>1, <3>4, <3>5, BranchOver
  <2> QED
    BY <2>2, <2>3
<1>10. ASSUME NEW t \in Telegrams, NEW step, step # "save", Todo(t, step), CheckOff(t, step),
              UNCHANGED <<links, updates, presented>>, codes' \in [Codes -> Accounts \cup {NoAccount}],
              told' = told \/ (step = "reply" /\ told' = [told EXCEPT ![t] = verifies[t].user])
       PROVE  AccountInv'
  <2>0. PICK u : u = verifies[t].user
    OBVIOUS
  <2>1. LinksFit' /\ LinksLast
    BY <1>10, LinksUntouched DEF LinksFit
  <2> QED
    BY <1>10, <2>0, <2>1, BranchOver
<1>11. ASSUME NEW t \in Telegrams, DeleteCode(t) \/ ReplySuccess(t)
       PROVE  AccountInv'
  <2>1. codes' \in [Codes -> Accounts \cup {NoAccount}]
    BY <1>11 DEF DeleteCode, ReplySuccess, CopiesFit
  <2>2. CASE DeleteCode(t)
    BY <1>10, <2>1, <2>2 DEF DeleteCode
  <2>3. CASE ReplySuccess(t)
    BY <1>10, <2>1, <2>3 DEF ReplySuccess
  <2> QED
    BY <1>11, <2>2, <2>3
<1>12. ASSUME NEW t \in Telegrams, NEW step, BranchFails(t, step)
       PROVE  AccountInv'
  <2>1. codes' \in [Codes -> Accounts \cup {NoAccount}]
    BY <1>12 DEF BranchFails, CopiesFit
  <2>2. CASE step = "save"
    BY <1>8, <1>12, <2>2 DEF BranchFails
  <2>3. CASE step # "save"
    BY <1>10, <1>12, <2>1, <2>3 DEF BranchFails
  <2> QED
    BY <2>2, <2>3
<1>13. ASSUME NEW t \in Telegrams, VerifyDies(t)
       PROVE  AccountInv'
  <2>0. PICK u : u = verifies[t].user
    OBVIOUS
  <2>1. /\ verifies' = [verifies EXCEPT ![t] = Unread] /\ UNCHANGED <<codes, updates, told, presented>>
        /\ verifies[t] # Unread /\ VerifyFits(t) /\ BranchFits(t) /\ told[t] \in Accounts \cup {NoAccount}
    BY <1>13 DEF VerifyDies, Unread, CopiesFit, BranchesFit
  <2>2. /\ DOMAIN verifies' = Telegrams /\ verifies'[t] = Unread
        /\ \A s \in Telegrams : s # t => verifies'[s] = verifies[s]
    BY <2>1 DEF CopiesFit
  <2>3. VerifyFits(t)' /\ ~ Todo(t, "save")' /\ ~ Done(t, "save")'
    BY <2>2 DEF VerifyFits, Todo, Done, Unread
  <2>4. LinksFit' /\ LinksLast /\ (Todo(t, "save") => Linked(t, u)')
    <3>1. CASE Todo(t, "save")
      <4>1. <<t, u>> \in presented /\ NotSaved(t)
        BY <1>13, <2>0, <2>1, <3>1 DEF VerifyDies, VerifyFits
      <4> QED
        BY <2>0, <2>1, <4>1, NotSavedEffect
    <3>2. CASE ~ Todo(t, "save")
      BY <1>13, <2>1, <3>2, LinksUntouched DEF VerifyDies, LinksFit
    <3> QED
      BY <3>1, <3>2
  <2>5. BranchFits(t)'
    BY <2>0, <2>1, <2>3, <2>4 DEF BranchFits, LinksLast, Linked
  <2> QED
    BY <2>1, <2>2, <2>3, <2>4, <2>5, OthersStay DEF CopiesFit
<1> QED
  BY <1>2, <1>3, <1>4, <1>5, <1>6, <1>7, <1>9, <1>11, <1>12, <1>13 DEF AccountNext

---------------------------------------------------------------------------
(* The invariant of the accounts, for all requests and their order, with    *)
(* every branch failing where it may.                                       *)
THEOREM AccountInvariant == AccountSpec => []AccountInv
<1>1. AccountInit => AccountInv
  BY AccountAssumption
     DEF AccountInit, AccountInv, CopiesFit, VerifyFits, LinksFit, BranchesFit, BranchFits, Earned, Row,
         Unread, Done
<1>2. AccountInv /\ [AccountNext]_accountVars => AccountInv'
  <2> SUFFICES ASSUME AccountInv, [AccountNext]_accountVars PROVE AccountInv'
    OBVIOUS
  <2>1. CASE AccountNext
    BY <2>1, AccountAssumption, AccountInvKept
  <2>2. CASE UNCHANGED accountVars
    BY <2>2 DEF accountVars, AccountInv, CopiesFit, VerifyFits, LinksFit, BranchesFit, BranchFits,
       Earned, Linked, Done, Todo
  <2> QED
    BY <2>1, <2>2
<1> QED
  BY <1>1, <1>2, PTL DEF AccountSpec

(* handlers.py, the gather of /verify: an account is linked to a chat that  *)
(* has presented a code of it and to one of its own, and whoever is told of *)
(* a success finds it linked, unless the save failed or update_user came    *)
(* over it.                                                                 *)
THEOREM SuccessIsALink == AccountSpec => []SuccessMeansLinked
<1>1. AccountInv => SuccessMeansLinked
  BY DEF AccountInv, CopiesFit, LinksFit, BranchesFit, BranchFits, Earned, Linked, SuccessMeansLinked
<1> QED
  BY <1>1, AccountInvariant, PTL

(* Accounts, codes and the copies the handlers hold stay rows               *)
(* (ServicesTypeOK's conjunct).                                             *)
THEOREM AccountsTyped == AccountSpec => []AccountTypeOK
<1>1. AccountInv => AccountTypeOK
  <2> SUFFICES ASSUME AccountInv
               PROVE  AccountTypeOK
    OBVIOUS
  <2>1. ASSUME NEW t \in Telegrams
        PROVE  verifies[t].stage \in {"none", "found", "gather"}
    <3>1. VerifyFits(t)
      BY DEF AccountInv, CopiesFit
    <3>2. Unread.stage = "none"
      BY DEF Unread
    <3> QED
      BY <3>1, <3>2 DEF VerifyFits
  <2>2. \A u \in Accounts : updates[u] = Unread \/ updates[u] \in Row
    BY DEF AccountInv, CopiesFit, Earned
  <2> QED
    BY <2>1, <2>2 DEF AccountInv, CopiesFit, LinksFit, AccountTypeOK
<1> QED
  BY <1>1, AccountInvariant, PTL

---------------------------------------------------------------------------
(* Sums.  The running sums of a sequence exist and count it from its head.  *)
IsRunningSum(f, amounts, n) ==
    f = [k \in 0 .. n |-> IF k = 0 THEN 0 ELSE f[k - 1] + amounts[k]]

(* A sequence has running sums, by the least length that would not.         *)
LEMMA RunningSumExists ==
    ASSUME NEW amounts, NEW n \in Nat
    PROVE  \E f : IsRunningSum(f, amounts, n)
<1> DEFINE None == {k \in Nat : ~ \E f : IsRunningSum(f, amounts, k)}
<1> SUFFICES ASSUME None # {} PROVE FALSE
  OBVIOUS
<1>1. PICK m \in None : \A k \in None : m <= k
  BY LeastNatural
<1>2. m # 0
  <2> DEFINE f == [k \in 0 .. 0 |-> 0]
  <2>1. IsRunningSum(f, amounts, 0)
    BY DEF IsRunningSum
  <2> QED
    BY <2>1
<1>3. m - 1 \in Nat /\ m - 1 \notin None
  BY <1>1, <1>2
<1>4. PICK g : IsRunningSum(g, amounts, m - 1)
  BY <1>3
<1> DEFINE f == [k \in 0 .. m |-> IF k = m THEN g[m - 1] + amounts[m] ELSE g[k]]
<1>5. \A k \in 0 .. m : f[k] = IF k = 0 THEN 0 ELSE f[k - 1] + amounts[k]
  <2> SUFFICES ASSUME NEW k \in 0 .. m
               PROVE  f[k] = IF k = 0 THEN 0 ELSE f[k - 1] + amounts[k]
    OBVIOUS
  <2>1. CASE k = m
    BY <2>1, <1>2
  <2>2. CASE k # m
    <3>1. k \in 0 .. m - 1 /\ f[k] = g[k]
      BY <2>2
    <3>2. g[k] = IF k = 0 THEN 0 ELSE g[k - 1] + amounts[k]
      BY <3>1, <1>4 DEF IsRunningSum
    <3>3. k # 0 => f[k - 1] = g[k - 1]
      BY <3>1
    <3> QED
      BY <3>1, <3>2, <3>3
  <2> QED
    BY <2>1, <2>2
<1>6. IsRunningSum(f, amounts, m)
  <2>1. f = [k \in 0 .. m |-> f[k]]
    OBVIOUS
  <2> HIDE DEF f
  <2> QED
    BY <1>5, <2>1 DEF IsRunningSum
<1> QED
  BY <1>1, <1>6

RunningSum(amounts) == CHOOSE f : IsRunningSum(f, amounts, Len(amounts))

(* TotalOf is the last running sum.                                         *)
LEMMA TotalOfRunningSum ==
    ASSUME NEW amounts \in Seq(Nat)
    PROVE  /\ TotalOf(amounts) = RunningSum(amounts)[Len(amounts)]
           /\ IsRunningSum(RunningSum(amounts), amounts, Len(amounts))
<1>1. \E f : IsRunningSum(f, amounts, Len(amounts))
  <2>1. Len(amounts) \in Nat
    OBVIOUS
  <2> QED
    BY <2>1, RunningSumExists
<1>3. IsRunningSum(RunningSum(amounts), amounts, Len(amounts))
  BY <1>1, Zenon DEF RunningSum
<1>2. TotalOf(amounts) = RunningSum(amounts)[Len(amounts)]
  BY DEF TotalOf, RunningSum, IsRunningSum
<1> QED
  BY <1>3, <1>2

(* Sums of naturals are naturals.                                           *)
LEMMA RunningSumIsNatural ==
    ASSUME NEW amounts \in Seq(Nat), NEW n \in 0 .. Len(amounts)
    PROVE  RunningSum(amounts)[n] \in Nat
<1> DEFINE F == RunningSum(amounts)
           Bad == {k \in 0 .. Len(amounts) : F[k] \notin Nat}
<1>1. \A k \in 0 .. Len(amounts) : F[k] = IF k = 0 THEN 0 ELSE F[k - 1] + amounts[k]
  BY TotalOfRunningSum DEF IsRunningSum
<1> SUFFICES ASSUME Bad # {} PROVE FALSE
  OBVIOUS
<1>2. PICK m \in Bad : \A k \in Bad : m <= k
  <2>1. Bad \in SUBSET Nat
    OBVIOUS
  <2> QED
    BY <2>1, LeastNatural
<1>3. m # 0 /\ m - 1 \in 0 .. Len(amounts) /\ m - 1 \notin Bad
  BY <1>1, <1>2
<1>4. F[m] = F[m - 1] + amounts[m] /\ amounts[m] \in Nat
  BY <1>1, <1>3
<1> QED
  BY <1>2, <1>3, <1>4

(* The sum of a sequence is its head and the sum of the rest.               *)
LEMMA TotalOfTail ==
    ASSUME NEW amounts \in Seq(Nat), amounts # <<>>
    PROVE  /\ Tail(amounts) \in Seq(Nat) /\ Head(amounts) \in Nat
           /\ TotalOf(amounts) \in Nat /\ TotalOf(Tail(amounts)) \in Nat
           /\ TotalOf(amounts) = Head(amounts) + TotalOf(Tail(amounts))
<1> DEFINE rest == Tail(amounts)
           F == RunningSum(amounts)
           G == RunningSum(rest)
           len == Len(amounts)
           Bad == {k \in 0 .. len - 1 : F[k + 1] # amounts[1] + G[k]}
<1>1. /\ rest \in Seq(Nat) /\ len \in Nat \ {0} /\ Len(rest) = len - 1
      /\ Head(amounts) = amounts[1] /\ \A k \in 1 .. len : amounts[k] \in Nat
      /\ \A k \in 1 .. len - 1 : rest[k] = amounts[k + 1]
  OBVIOUS
<1>2. \A k \in 0 .. len : F[k] = IF k = 0 THEN 0 ELSE F[k - 1] + amounts[k]
  BY TotalOfRunningSum DEF IsRunningSum
<1>3. \A k \in 0 .. len - 1 : G[k] = IF k = 0 THEN 0 ELSE G[k - 1] + rest[k]
  BY <1>1, TotalOfRunningSum DEF IsRunningSum
<1>4. (\A k \in 0 .. len : F[k] \in Nat) /\ (\A k \in 0 .. len - 1 : G[k] \in Nat)
  BY <1>1, RunningSumIsNatural
<1> HIDE DEF rest, F, G, len
<1>5. Bad = {}
  <2> SUFFICES ASSUME Bad # {} PROVE FALSE
    OBVIOUS
  <2>1. PICK m \in Bad : \A k \in Bad : m <= k
    <3>1. Bad \in SUBSET Nat
      BY <1>1
    <3> QED
      BY <3>1, LeastNatural
  <2>2. m \in 0 .. len - 1 /\ F[m + 1] = F[m] + amounts[m + 1]
    BY <1>1, <1>2
  <2>3. CASE m = 0
    BY <2>1, <2>2, <2>3, <1>1, <1>2, <1>3
  <2>4. CASE m # 0
    <3>1. m - 1 \in 0 .. len - 1 /\ m - 1 \notin Bad
      BY <2>1, <2>2, <2>4, <1>1
    <3>2. F[m] = amounts[1] + G[m - 1]
      BY <3>1, <2>2
    <3>3. G[m] = G[m - 1] + amounts[m + 1]
      BY <2>2, <2>4, <1>1, <1>3
    <3>4. F[m] \in Nat /\ G[m - 1] \in Nat /\ amounts[m + 1] \in Nat /\ amounts[1] \in Nat
      BY <3>1, <2>2, <1>1, <1>4
    <3> QED
      BY <2>1, <2>2, <3>2, <3>3, <3>4
  <2> QED
    BY <2>3, <2>4
<1>6. F[len] = amounts[1] + G[len - 1]
  <2>1. len - 1 \in 0 .. len - 1 /\ (len - 1) + 1 = len
    BY <1>1
  <2> QED
    BY <2>1, <1>5
<1>7. TotalOf(amounts) = F[len] /\ TotalOf(rest) = G[len - 1]
  BY <1>1, TotalOfRunningSum DEF F, G, len
<1> QED
  BY <1>1, <1>4, <1>6, <1>7 DEF rest

(* Nothing adds up to nothing.                                              *)
LEMMA TotalOfNothing == TotalOf(<<>>) = 0
<1>1. <<>> \in Seq(Nat) /\ Len(<<>>) = 0
  OBVIOUS
<1> DEFINE F == RunningSum(<<>>)
<1>2. TotalOf(<<>>) = F[0] /\ IsRunningSum(F, <<>>, 0)
  BY <1>1, TotalOfRunningSum
<1> HIDE DEF F
<1>3. 0 \in 0 .. 0
  OBVIOUS
<1>4. F[0] = 0
  BY <1>2, <1>3 DEF IsRunningSum
<1> QED
  BY <1>2, <1>4

(* A total of naturals is a natural.                                        *)
LEMMA TotalOfIsNatural ==
    ASSUME NEW amounts \in Seq(Nat)
    PROVE  TotalOf(amounts) \in Nat
<1>1. Len(amounts) \in 0 .. Len(amounts)
  OBVIOUS
<1> QED
  BY <1>1, TotalOfRunningSum, RunningSumIsNatural

---------------------------------------------------------------------------
(* The ledger.                                                              *)

ChargeRow ==
    [stage : {"none", "charging", "stored", "dropped"}, due : Seq(Nat), price : Nat,
     rows : [free : Nat, paid : Nat], modifier : Int]

CreditTypes ==
    /\ ledger \in [free : Int, paid : Int] /\ owed \in Int
    /\ charges \in [Charged -> ChargeRow] /\ crossed \in BOOLEAN

(* What is prepared and what is still due make the price, and the modifier  *)
(* is what the free balance would lose.                                     *)
Splits(charge) ==
    charge.stage = "charging" =>
        /\ charge.modifier = - charge.rows.free
        /\ charge.rows.free + charge.rows.paid + TotalOf(charge.due) = charge.price

ChargesSplit == \A r \in Charged : Splits(charges[r])

LedgerAddsUp == ledger.free + ledger.paid = - owed

(* As long as no two requests crossed, the free balance covers what every   *)
(* request has prepared.                                                    *)
FreeIsCovered ==
    ~ crossed =>
        /\ ledger.free >= 0
        /\ \A r \in Charged : Answered(r) => charges[r].rows.free <= ledger.free

CreditInv == CreditTypes /\ ChargesSplit /\ LedgerAddsUp /\ FreeIsCovered

(* A charge splits into a free and a paid part, the free one within what is *)
(* left of the balance.                                                     *)
LEMMA SplitOfCharge ==
    ASSUME NEW amount \in Nat, NEW free \in Int
    PROVE  LET objs == get_charge_credits_objs(amount, free) IN
           /\ objs.free \in Nat /\ objs.paid \in Nat
           /\ objs.free + objs.paid = amount
           /\ free >= 0 => objs.free <= free
           /\ free < 0 => objs.free = 0
BY DEF get_charge_credits_objs

(* A request that begins owes the sum of its prices and has prepared        *)
(* nothing.                                                                 *)
LEMMA AnswerKeepsCredit ==
    ASSUME CreditInv, NEW r \in Charged, NEW prices \in Prices, Answer(r, prices)
    PROVE  CreditInv'
<1> DEFINE new == [stage |-> "charging", due |-> prices, price |-> TotalOf(prices),
                   rows |-> NothingPrepared, modifier |-> 0]
<1>1. prices \in Seq(Nat) /\ TotalOf(prices) \in Nat
  BY CreditAssumption, TotalOfIsNatural
<1>2. charges' = [charges EXCEPT ![r] = new] /\ UNCHANGED <<ledger, owed, crossed>>
  BY DEF Answer
<1>3. new \in ChargeRow /\ Splits(new) /\ new.rows.free = 0
  BY <1>1 DEF ChargeRow, NothingPrepared, Splits
<1> HIDE DEF new
<1>4. \A s \in Charged : charges'[s] = IF s = r THEN new ELSE charges[s]
  BY <1>2 DEF CreditInv, CreditTypes
<1>5. CreditTypes' /\ LedgerAddsUp'
  BY <1>2, <1>3 DEF CreditInv, CreditTypes, LedgerAddsUp
<1>6. ChargesSplit'
  BY <1>3, <1>4 DEF CreditInv, ChargesSplit
<1>7. FreeIsCovered'
  BY <1>2, <1>3, <1>4 DEF CreditInv, FreeIsCovered, Answered
<1> QED
  BY <1>5, <1>6, <1>7 DEF CreditInv

(* Moving one charge, h, from what is due to what is prepared.              *)
LEMMA ShiftedSum ==
    ASSUME NEW a \in Nat, NEW b \in Nat, NEW c \in Nat, NEW d \in Nat,
           NEW t \in Nat, NEW u \in Nat, NEW h \in Nat, c + d = h, t = h + u
    PROVE  (a + c) + (b + d) + u = a + b + t
OBVIOUS

(* One charge of a request is split.                                        *)
LEMMA ChargeKeepsCredit ==
    ASSUME CreditInv, NEW r \in Charged, Charge(r)
    PROVE  CreditInv'
<1> DEFINE old == charges[r]
           free == ledger.free + old.modifier
           objs == get_charge_credits_objs(Head(old.due), free)
           new == [old EXCEPT !.due = Tail(old.due), !.modifier = old.modifier - objs.free,
                              !.rows = [free |-> old.rows.free + objs.free,
                                        paid |-> old.rows.paid + objs.paid]]
<1>1. old \in ChargeRow /\ old.stage = "charging" /\ old.due # <<>> /\ Splits(old)
  BY DEF CreditInv, CreditTypes, ChargesSplit, Charge, Answered
<1>2. /\ old.due \in Seq(Nat) /\ old.modifier \in Int /\ old.price \in Nat
      /\ old.rows.free \in Nat /\ old.rows.paid \in Nat /\ ledger.free \in Int
  BY <1>1 DEF ChargeRow, CreditInv, CreditTypes
<1>3. /\ Tail(old.due) \in Seq(Nat) /\ Head(old.due) \in Nat
      /\ TotalOf(old.due) \in Nat /\ TotalOf(Tail(old.due)) \in Nat
      /\ TotalOf(old.due) = Head(old.due) + TotalOf(Tail(old.due))
  BY <1>1, <1>2, TotalOfTail
<1>4. /\ objs.free \in Nat /\ objs.paid \in Nat /\ objs.free + objs.paid = Head(old.due)
      /\ (free >= 0 => objs.free <= free) /\ (free < 0 => objs.free = 0)
  <2>1. free \in Int
    BY <1>2
  <2> HIDE DEF free
  <2> QED
    BY <2>1, <1>3, SplitOfCharge
<1>5. charges' = [charges EXCEPT ![r] = new] /\ UNCHANGED <<ledger, owed, crossed>>
  BY <1>1 DEF Charge, CreditInv, CreditTypes
<1> HIDE DEF objs
<1>6. /\ new.stage = "charging" /\ new.due = Tail(old.due) /\ new.price = old.price
      /\ new.modifier = old.modifier - objs.free
      /\ new.rows.free = old.rows.free + objs.free /\ new.rows.paid = old.rows.paid + objs.paid
  BY <1>1 DEF ChargeRow
<1>7. new \in ChargeRow
  <2>1. old.modifier - objs.free \in Int
    BY <1>2, <1>4
  <2>2. old.rows.free + objs.free \in Nat /\ old.rows.paid + objs.paid \in Nat
    <3>1. \A a, b \in Nat : a + b \in Nat
      OBVIOUS
    <3>2. old.rows.free \in Nat /\ old.rows.paid \in Nat
      BY <1>2
    <3>3. objs.free \in Nat /\ objs.paid \in Nat
      BY <1>4
    <3> QED
      BY <3>1, <3>2, <3>3, Zenon
  <2> QED
    BY <2>1, <2>2, <1>1, <1>2, <1>3 DEF ChargeRow
<1> HIDE DEF new
<1>8. Splits(new)
  <2>1. old.modifier = - old.rows.free
    BY <1>1 DEF Splits
  <2>2. old.rows.free + old.rows.paid + TotalOf(old.due) = old.price
    BY <1>1 DEF Splits
  <2>3. old.modifier - objs.free = - (old.rows.free + objs.free)
    BY <2>1, <1>2, <1>4
  <2>4. (old.rows.free + objs.free) + (old.rows.paid + objs.paid) + TotalOf(Tail(old.due)) = old.price
    <3>2. /\ old.rows.free \in Nat /\ old.rows.paid \in Nat
          /\ objs.free \in Nat /\ objs.paid \in Nat /\ objs.free + objs.paid = Head(old.due)
          /\ Head(old.due) \in Nat
          /\ TotalOf(old.due) \in Nat /\ TotalOf(Tail(old.due)) \in Nat
          /\ TotalOf(old.due) = Head(old.due) + TotalOf(Tail(old.due))
      BY <1>2, <1>3, <1>4
    <3>3. (old.rows.free + objs.free) + (old.rows.paid + objs.paid) + TotalOf(Tail(old.due))
             = old.rows.free + old.rows.paid + TotalOf(old.due)
      BY <3>2, ShiftedSum
    <3> QED
      BY <2>2, <3>3
  <2> QED
    BY <2>3, <2>4, <1>6 DEF Splits
<1>9. \A s \in Charged : charges'[s] = IF s = r THEN new ELSE charges[s]
  BY <1>5 DEF CreditInv, CreditTypes
<1>10. ~ crossed => new.rows.free <= ledger.free
  <2> SUFFICES ASSUME ~ crossed PROVE new.rows.free <= ledger.free
    OBVIOUS
  <2>1. old.rows.free <= ledger.free /\ old.modifier = - old.rows.free
    BY <1>1 DEF CreditInv, FreeIsCovered, Answered, Splits
  <2>2. free = ledger.free - old.rows.free
    BY <2>1, <1>2
  <2> QED
    BY <2>1, <2>2, <1>2, <1>4, <1>6
<1>11. CreditTypes' /\ LedgerAddsUp'
  BY <1>5, <1>7 DEF CreditInv, CreditTypes, LedgerAddsUp
<1>12. ChargesSplit'
  BY <1>8, <1>9 DEF CreditInv, ChargesSplit
<1>13. FreeIsCovered'
  BY <1>5, <1>9, <1>10 DEF CreditInv, FreeIsCovered, Answered
<1> QED
  BY <1>11, <1>12, <1>13 DEF CreditInv

(* A request is charged or dropped.  Whoever is still preparing then has    *)
(* been crossed.                                                            *)
LEMMA EndKeepsCredit ==
    ASSUME CreditInv, NEW r \in Charged, StoreCharges(r) \/ DropCharges(r)
    PROVE  CreditInv'
<1> DEFINE old == charges[r]
<1>1. old \in ChargeRow /\ old.stage = "charging" /\ Splits(old)
  BY DEF CreditInv, CreditTypes, ChargesSplit, StoreCharges, DropCharges, Answered
<1>2. PICK ending \in {"stored", "dropped"} : charges' = [charges EXCEPT ![r] = [old EXCEPT !.stage = ending]]
  BY DEF StoreCharges, DropCharges, CreditInv, CreditTypes
<1> DEFINE new == [old EXCEPT !.stage = ending]
<1>3. new \in ChargeRow /\ new.stage # "charging"
  BY <1>1 DEF ChargeRow
<1> HIDE DEF new
<1>4. \A s \in Charged : charges'[s] = IF s = r THEN new ELSE charges[s]
  BY <1>2 DEF CreditInv, CreditTypes, new
<1>5. charges' \in [Charged -> ChargeRow]
  BY <1>2, <1>3 DEF CreditInv, CreditTypes, new
<1>6. ChargesSplit'
  BY <1>3, <1>4 DEF CreditInv, ChargesSplit, Splits
<1>7. CASE DropCharges(r)
  <2>1. UNCHANGED <<ledger, owed, crossed>>
    BY <1>7 DEF DropCharges
  <2>2. CreditTypes' /\ LedgerAddsUp'
    BY <2>1, <1>5 DEF CreditInv, CreditTypes, LedgerAddsUp
  <2>3. FreeIsCovered'
    BY <2>1, <1>3, <1>4 DEF CreditInv, FreeIsCovered, Answered
  <2> QED
    BY <2>2, <2>3, <1>6 DEF CreditInv
<1>8. CASE StoreCharges(r)
  <2>1. /\ ledger' = [free |-> ledger.free - old.rows.free, paid |-> ledger.paid - old.rows.paid]
        /\ owed' = owed + old.price /\ old.due = <<>>
        /\ crossed' = (crossed \/ \E s \in Charged \ {r} : Answered(s))
    BY <1>8 DEF StoreCharges
  <2>2. /\ old.rows.free \in Nat /\ old.rows.paid \in Nat /\ old.price \in Nat
        /\ ledger.free \in Int /\ ledger.paid \in Int /\ owed \in Int
    BY <1>1 DEF ChargeRow, CreditInv, CreditTypes
  <2>3. old.rows.free + old.rows.paid = old.price
    BY <1>1, <2>1, <2>2, TotalOfNothing DEF Splits
  <2>4. CreditTypes'
    BY <2>1, <2>2, <1>5 DEF CreditTypes
  <2>5. LedgerAddsUp'
    <3>1. ledger.free + ledger.paid = - owed
      BY DEF CreditInv, LedgerAddsUp
    <3>2. (ledger.free - old.rows.free) + (ledger.paid - old.rows.paid) = - (owed + old.price)
      BY <3>1, <2>2, <2>3
    <3> QED
      BY <3>2, <2>1 DEF LedgerAddsUp
  <2>6. FreeIsCovered'
    <3> SUFFICES ASSUME ~ crossed'
                 PROVE  /\ ledger.free - old.rows.free >= 0
                        /\ \A s \in Charged : ~ Answered(s)'
      BY <2>1 DEF FreeIsCovered
    <3>1. ~ crossed /\ \A s \in Charged \ {r} : ~ Answered(s)
      BY <2>1
    <3>2. old.rows.free <= ledger.free
      BY <3>1, <1>1 DEF CreditInv, FreeIsCovered, Answered
    <3>3. \A s \in Charged : ~ Answered(s)'
      BY <3>1, <1>3, <1>4 DEF Answered
    <3> QED
      BY <3>2, <3>3, <2>2
  <2> QED
    BY <2>4, <2>5, <2>6, <1>6 DEF CreditInv
<1> QED
  BY <1>7, <1>8

(* Credits that are given change the balance and what is owed alike.        *)
LEMMA GrantKeepsCredit ==
    ASSUME CreditInv, NEW n \in Grants, NEW kind \in {"free", "paid"}, GrantCredits(n, kind)
    PROVE  CreditInv'
<1>1. n \in Nat /\ ledger.free \in Int /\ ledger.paid \in Int /\ owed \in Int
  BY CreditAssumption DEF CreditInv, CreditTypes
<1>2. /\ ledger' = [ledger EXCEPT ![kind] = ledger[kind] + n]
      /\ owed' = owed - n /\ UNCHANGED <<charges, crossed>>
  BY DEF GrantCredits
<1>3. /\ ledger' \in [free : Int, paid : Int]
      /\ ledger'.free = (IF kind = "free" THEN ledger.free + n ELSE ledger.free)
      /\ ledger'.paid = (IF kind = "paid" THEN ledger.paid + n ELSE ledger.paid)
  BY <1>1, <1>2 DEF CreditInv, CreditTypes
<1>4. CreditTypes' /\ ChargesSplit'
  BY <1>1, <1>2, <1>3 DEF CreditInv, CreditTypes, ChargesSplit
<1>5. LedgerAddsUp'
  BY <1>1, <1>2, <1>3 DEF CreditInv, LedgerAddsUp
<1>6. FreeIsCovered'
  <2> SUFFICES ASSUME ~ crossed
               PROVE  /\ ledger'.free >= 0
                      /\ \A r \in Charged : Answered(r) => charges[r].rows.free <= ledger'.free
    BY <1>2 DEF FreeIsCovered, Answered
  <2>1. \A r \in Charged : charges[r].rows.free \in Nat
    BY DEF CreditInv, CreditTypes, ChargeRow
  <2> QED
    BY <2>1, <1>1, <1>3 DEF CreditInv, FreeIsCovered
<1> QED
  BY <1>4, <1>5, <1>6 DEF CreditInv

(* The invariant of the ledger and of the requests that are charged.        *)
THEOREM CreditInvariant == CreditSpec => []CreditInv
<1>1. CreditInit => CreditInv
  <2> SUFFICES ASSUME CreditInit PROVE CreditInv
    OBVIOUS
  <2>1. \A r \in Charged : charges[r] \in ChargeRow /\ charges[r].stage = "none"
    <3>1. <<>> \in Seq(Nat) /\ NothingPrepared \in [free : Nat, paid : Nat] /\ 0 \in Nat /\ 0 \in Int
      BY DEF NothingPrepared
    <3> QED
      BY <3>1 DEF CreditInit, ChargeRow
  <2>2. CreditTypes
    <3>1. charges = [r \in Charged |-> charges[r]]
      BY DEF CreditInit
    <3>2. charges \in [Charged -> ChargeRow]
      BY <2>1, <3>1
    <3>3. ledger \in [free : Int, paid : Int] /\ owed \in Int
      BY DEF CreditInit
    <3>4. crossed \in BOOLEAN
      BY DEF CreditInit
    <3> QED
      BY <3>2, <3>3, <3>4 DEF CreditTypes
  <2>3. ledger.free = 0 /\ ledger.paid = 0 /\ owed = 0
    BY DEF CreditInit
  <2>4. ChargesSplit /\ LedgerAddsUp /\ FreeIsCovered
    <3>1. ledger.free + ledger.paid = - owed
      <4>1. \A x \in Int : 0 - x = - x
        OBVIOUS
      <4>2. owed \in Int /\ 0 - owed = 0 /\ ledger.free + ledger.paid = 0
        BY <2>3
      <4> QED
        BY <4>1, <4>2, Zenon
    <3>2. ledger.free >= 0
      BY <2>3
    <3> QED
      BY <2>1, <3>1, <3>2 DEF ChargesSplit, Splits, LedgerAddsUp, FreeIsCovered, Answered
  <2> QED
    BY <2>2, <2>4 DEF CreditInv
<1>2. CreditInv /\ [CreditNext]_creditVars => CreditInv'
  <2> SUFFICES ASSUME CreditInv, [CreditNext]_creditVars PROVE CreditInv'
    OBVIOUS
  <2>1. CASE UNCHANGED creditVars
    BY <2>1 DEF creditVars, CreditInv, CreditTypes, ChargesSplit, LedgerAddsUp, FreeIsCovered, Answered
  <2> QED
    BY <2>1, AnswerKeepsCredit, ChargeKeepsCredit, EndKeepsCredit, GrantKeepsCredit DEF CreditNext
<1> QED
  BY <1>1, <1>2, PTL DEF CreditSpec

(* However a request's charges are split, the ledger loses exactly their    *)
(* price, and free credits are overdrawn only by requests that crossed.     *)
THEOREM FreeCreditsHold == CreditSpec => []FreeCreditsNotOverdrawn
<1>1. CreditInv => FreeCreditsNotOverdrawn
  BY DEF CreditInv, CreditTypes, LedgerAddsUp, FreeIsCovered, FreeCreditsNotOverdrawn
<1> QED
  BY <1>1, CreditInvariant, PTL

GrantsCounted == grants \in 0 .. MaxGrants

(* Ledger and charges stay in their types: no row has a negative amount     *)
(* (ServicesTypeOK's conjunct).                                             *)
THEOREM CreditsTyped == CreditSpec => []CreditTypeOK
<1>1. CreditInit => GrantsCounted
  BY CreditAssumption DEF CreditInit, GrantsCounted
<1>2. GrantsCounted /\ [CreditNext]_creditVars => GrantsCounted'
  <2> SUFFICES ASSUME GrantsCounted, [CreditNext]_creditVars PROVE GrantsCounted'
    OBVIOUS
  <2>1. CASE UNCHANGED grants
    BY <2>1 DEF GrantsCounted
  <2>2. ASSUME NEW n \in Grants, NEW kind \in {"free", "paid"}, GrantCredits(n, kind)
        PROVE  GrantsCounted'
    <3>1. MaxGrants \in Nat /\ grants < MaxGrants /\ grants' = grants + 1
      BY <2>2, CreditAssumption DEF GrantCredits
    <3> QED
      BY <3>1 DEF GrantsCounted
  <2>3. ASSUME NEW r \in Charged,
               (\E prices \in Prices : Answer(r, prices)) \/ Charge(r) \/ StoreCharges(r) \/ DropCharges(r)
        PROVE  UNCHANGED grants
    BY <2>3 DEF Answer, Charge, StoreCharges, DropCharges
  <2> QED
    BY <2>1, <2>2, <2>3 DEF CreditNext, creditVars
<1>3. CreditInv /\ GrantsCounted => CreditTypeOK
  <2> SUFFICES ASSUME CreditInv, GrantsCounted PROVE CreditTypeOK
    OBVIOUS
  <2>1. \A r \in Charged : /\ charges[r].stage \in {"none", "charging", "stored", "dropped"}
                           /\ charges[r].rows \in [free : Nat, paid : Nat]
    BY DEF CreditInv, CreditTypes, ChargeRow
  <2>2. ledger \in [free : Int, paid : Int] /\ owed \in Int /\ crossed \in BOOLEAN
    BY DEF CreditInv, CreditTypes
  <2>3. \A S : [free : S, paid : S] = [{"free", "paid"} -> S]
    OBVIOUS
  <2> QED
    BY <2>1, <2>2, <2>3 DEF GrantsCounted, CreditTypeOK
<1> QED
  BY <1>1, <1>2, <1>3, CreditInvariant, PTL DEF CreditSpec

---------------------------------------------------------------------------
(* The egress to Telegram.                                                  *)

Attempts == 1 .. MAX_RETRIES
CallRow ==
    [stage : {"new", "acquire", "wait", "send", "stamp", "failed", "done", "dead"},
     chat : Chats, attempt : Attempts, until : Nat]
LogRow == [sent : BOOLEAN, retries : Nat, exists : BOOLEAN]
PassRow == [call : Calls, attempt : Attempts, chat : Chats, at : Nat, waited : BOOLEAN]
SlotRow == [call : Calls, attempt : Attempts, at : Nat]

EgressTypes ==
    /\ ticks \in 0 .. MaxTicks
    /\ calls \in [Calls -> CallRow] /\ logs \in [Calls -> LogRow]
    /\ arrived \in [Calls -> Nat]
    /\ _timestamps \in [Chats -> SUBSET SlotRow]
    /\ passes \subseteq PassRow /\ IsFiniteSet(passes)
    /\ \A p \in passes : p.at <= ticks

(* The messages of a chat that the limiter let pass at once.                *)
AtOnce(chat) == {p \in passes : p.chat = chat /\ ~ p.waited}
PassOf(slot, chat) ==
    [call |-> slot.call, attempt |-> slot.attempt, chat |-> chat, at |-> slot.at, waited |-> FALSE]
SlotOf(p) == [call |-> p.call, attempt |-> p.attempt, at |-> p.at]

(* The limiter's list holds such messages only, and every one of the last   *)
(* window.                                                                  *)
SlotsArePasses ==
    \A chat \in Chats :
        /\ \A slot \in _timestamps[chat] : PassOf(slot, chat) \in passes
        /\ \A p \in AtOnce(chat) : p.at > ticks - window_ticks => SlotOf(p) \in _timestamps[chat]

Within(chat, from) == {p \in AtOnce(chat) : p.at \in from .. from + window_ticks - 1}

WindowsHold ==
    \A chat \in Chats, from \in Nat : Cardinality(Within(chat, from)) <= max_per_window

(* A call sleeps until a window after some message that passed at once.     *)
PassedBefore(chat, t) == \E q \in AtOnce(chat) : q.at <= t - window_ticks

WaitersFollow ==
    /\ \A c \in Calls : calls[c].stage = "wait" => PassedBefore(calls[c].chat, calls[c].until)
    /\ \A p \in passes : p.waited => PassedBefore(p.chat, p.at)

(* The audit row of a call, stage by stage.                                 *)
Audited(call, log, n) ==
    /\ call.stage = "new" => n = 0
    /\ call.stage # "new" => log.exists
    /\ call.stage = "stamp" => n > 0
    /\ log.sent => call.stage = "done" /\ n > 0 /\ log.retries = call.attempt - 1
    /\ call.stage = "done" /\ ~ log.sent => log.retries = MAX_RETRIES

AuditFits == \A c \in Calls : Audited(calls[c], logs[c], arrived[c])

EgressInv == EgressTypes /\ SlotsArePasses /\ WindowsHold /\ WaitersFollow /\ AuditFits

(* Windows, waits and slots as long as the limiter is not asked.            *)
LEMMA LimiterAtRest ==
    ASSUME EgressInv, UNCHANGED <<ticks, _timestamps, passes>>,
           calls' \in [Calls -> CallRow], logs' \in [Calls -> LogRow], arrived' \in [Calls -> Nat],
           \A c \in Calls : calls'[c].stage = "wait" => calls'[c] = calls[c]
    PROVE  EgressTypes' /\ SlotsArePasses' /\ WindowsHold' /\ WaitersFollow'
<1>1. EgressTypes'
  BY DEF EgressInv, EgressTypes
<1>2. /\ \A chat : AtOnce(chat)' = AtOnce(chat)
      /\ \A chat, from : Within(chat, from)' = Within(chat, from)
      /\ \A chat, t : PassedBefore(chat, t)' <=> PassedBefore(chat, t)
  BY DEF AtOnce, Within, PassedBefore
<1>3. SlotsArePasses'
  BY <1>2 DEF EgressInv, SlotsArePasses
<1>4. WindowsHold'
  BY <1>2 DEF EgressInv, WindowsHold
<1>5. \A c \in Calls : calls'[c].stage = "wait" => PassedBefore(calls'[c].chat, calls'[c].until)
  BY DEF EgressInv, WaitersFollow
<1>6. WaitersFollow'
  BY <1>2, <1>5 DEF EgressInv, WaitersFollow, PassedBefore
<1> QED
  BY <1>1, <1>3, <1>4, <1>6

(* One call changes its row and its audit; the others keep theirs.          *)
LEMMA CallReplaced ==
    ASSUME EgressInv, NEW c \in Calls, NEW call \in CallRow, NEW log \in LogRow, NEW n \in Nat,
           calls' = [calls EXCEPT ![c] = call], logs' = [logs EXCEPT ![c] = log],
           arrived' = [arrived EXCEPT ![c] = n], Audited(call, log, n)
    PROVE  /\ calls' \in [Calls -> CallRow] /\ logs' \in [Calls -> LogRow]
           /\ arrived' \in [Calls -> Nat] /\ AuditFits'
           /\ \A b \in Calls : calls'[b] = IF b = c THEN call ELSE calls[b]
<1>1. /\ calls' \in [Calls -> CallRow] /\ logs' \in [Calls -> LogRow]
      /\ arrived' \in [Calls -> Nat]
      /\ \A b \in Calls : /\ calls'[b] = IF b = c THEN call ELSE calls[b]
                          /\ logs'[b] = IF b = c THEN log ELSE logs[b]
                          /\ arrived'[b] = IF b = c THEN n ELSE arrived[b]
  BY DEF EgressInv, EgressTypes
<1>2. AuditFits'
  BY <1>1 DEF EgressInv, AuditFits
<1> QED
  BY <1>1, <1>2

(* A call that leaves the limiter alone.                                    *)
LEMMA QuietCall ==
    ASSUME EgressInv, NEW c \in Calls, NEW call \in CallRow, NEW log \in LogRow, NEW n \in Nat,
           calls' = [calls EXCEPT ![c] = call], logs' = [logs EXCEPT ![c] = log],
           arrived' = [arrived EXCEPT ![c] = n], Audited(call, log, n),
           call.stage # "wait", UNCHANGED <<ticks, _timestamps, passes>>
    PROVE  EgressInv'
<1>1. /\ calls' \in [Calls -> CallRow] /\ logs' \in [Calls -> LogRow]
      /\ arrived' \in [Calls -> Nat] /\ AuditFits'
      /\ \A b \in Calls : calls'[b] = IF b = c THEN call ELSE calls[b]
  BY CallReplaced
<1>2. \A b \in Calls : calls'[b].stage = "wait" => calls'[b] = calls[b]
  BY <1>1
<1> QED
  BY <1>1, <1>2, LimiterAtRest DEF EgressInv

(* The row of a call, its audit and its count before a step.                *)
LEMMA CallBefore ==
    ASSUME EgressInv, NEW c \in Calls
    PROVE  /\ calls[c] \in CallRow /\ logs[c] \in LogRow /\ arrived[c] \in Nat
           /\ Audited(calls[c], logs[c], arrived[c])
           /\ logs = [logs EXCEPT ![c] = logs[c]]
           /\ arrived = [arrived EXCEPT ![c] = arrived[c]]
BY DEF EgressInv, EgressTypes, AuditFits

(* Sending, answering, stamping and giving up keep the invariant.           *)
LEMMA QuietSteps ==
    ASSUME EgressInv, NEW c \in Calls,
           \/ \E chat \in Chats : SendMessage(c, chat)
           \/ Transmit(c) \/ Stamp(c) \/ Retry(c) \/ Die(c)
    PROVE  EgressInv'
<1>1. /\ calls[c] \in CallRow /\ logs[c] \in LogRow /\ arrived[c] \in Nat
      /\ Audited(calls[c], logs[c], arrived[c])
      /\ logs = [logs EXCEPT ![c] = logs[c]]
      /\ arrived = [arrived EXCEPT ![c] = arrived[c]]
  BY CallBefore
<1>2. UNCHANGED <<ticks, _timestamps, passes>>
  BY DEF SendMessage, Transmit, Stamp, Retry, Die
<1>3. /\ calls[c].attempt \in Attempts /\ calls[c].until \in Nat /\ ticks \in Nat
      /\ logs[c].retries \in Nat
  BY <1>1 DEF CallRow, LogRow, EgressInv, EgressTypes
<1>4. ASSUME NEW chat \in Chats, SendMessage(c, chat)
      PROVE  EgressInv'
  <2> DEFINE call == [calls[c] EXCEPT !.stage = "acquire", !.chat = chat]
             log == [logs[c] EXCEPT !.exists = TRUE]
  <2>1. calls' = [calls EXCEPT ![c] = call] /\ logs' = [logs EXCEPT ![c] = log]
    BY <1>4 DEF SendMessage, EgressInv, EgressTypes
  <2>2. arrived' = [arrived EXCEPT ![c] = arrived[c]]
    BY <1>1, <1>4 DEF SendMessage
  <2>3. call \in CallRow /\ log \in LogRow /\ call.stage = "acquire"
    BY <1>1 DEF CallRow, LogRow
  <2>4. Audited(call, log, arrived[c])
    BY <1>1, <1>4 DEF Audited, SendMessage, CallRow, LogRow
  <2> HIDE DEF call, log
  <2> QED
    BY <2>1, <2>2, <2>3, <2>4, <1>1, <1>2, QuietCall
<1>5. CASE Transmit(c)
  <2>1. calls[c].stage = "send"
    BY <1>5 DEF Transmit
  <2>2. PICK next \in {"stamp", "failed"}, reached \in 0 .. 1 :
          /\ calls' = [calls EXCEPT ![c].stage = next]
          /\ arrived' = [arrived EXCEPT ![c] = @ + reached]
          /\ next = "stamp" => reached = 1
    BY <1>5 DEF Transmit
  <2> DEFINE call == [calls[c] EXCEPT !.stage = next]
             n == arrived[c] + reached
  <2>3. calls' = [calls EXCEPT ![c] = call] /\ arrived' = [arrived EXCEPT ![c] = n]
    BY <2>2 DEF EgressInv, EgressTypes
  <2>4. logs' = [logs EXCEPT ![c] = logs[c]]
    BY <1>1, <1>5 DEF Transmit
  <2>5. call \in CallRow /\ n \in Nat /\ call.stage = next
    BY <1>1 DEF CallRow
  <2>6. Audited(call, logs[c], n)
    BY <1>1, <2>1, <2>2, <2>5 DEF Audited
  <2> HIDE DEF call, n
  <2> QED
    BY <2>3, <2>4, <2>5, <2>6, <1>1, <1>2, QuietCall
<1>6. CASE Stamp(c)
  <2> DEFINE call == [calls[c] EXCEPT !.stage = "done"]
             log == [[logs[c] EXCEPT !.sent = TRUE] EXCEPT !.retries = calls[c].attempt - 1]
  <2>1. calls' = [calls EXCEPT ![c] = call] /\ logs' = [logs EXCEPT ![c] = log]
    BY <1>6 DEF Stamp, EgressInv, EgressTypes, LogRow
  <2>2. arrived' = [arrived EXCEPT ![c] = arrived[c]]
    BY <1>1, <1>6 DEF Stamp
  <2>3. calls[c].attempt - 1 \in Nat
    BY <1>3, EgressAssumption DEF Attempts
  <2>4. /\ call \in CallRow /\ log \in LogRow /\ call.stage = "done" /\ log.sent
        /\ log.retries = call.attempt - 1 /\ log.exists = logs[c].exists
    BY <1>1, <2>3 DEF CallRow, LogRow
  <2>5. Audited(call, log, arrived[c])
    BY <1>1, <1>6, <2>4 DEF Audited, Stamp
  <2> HIDE DEF call, log
  <2> QED
    BY <2>1, <2>2, <2>4, <2>5, <1>1, <1>2, QuietCall
<1>7. CASE Retry(c)
  <2> DEFINE log == [logs[c] EXCEPT !.retries = calls[c].attempt]
  <2>1. calls[c].stage = "failed" /\ logs' = [logs EXCEPT ![c] = log]
    BY <1>7 DEF Retry, EgressInv, EgressTypes
  <2>2. arrived' = [arrived EXCEPT ![c] = arrived[c]]
    BY <1>1, <1>7 DEF Retry
  <2>3. calls[c].attempt \in Nat
    BY <1>3, EgressAssumption DEF Attempts
  <2>4. /\ log \in LogRow /\ log.sent = logs[c].sent /\ log.retries = calls[c].attempt
        /\ log.exists = logs[c].exists
    BY <1>1, <2>3 DEF LogRow
  <2>5. ~ logs[c].sent /\ logs[c].exists
    BY <1>1, <2>1 DEF Audited
  <2>6. CASE calls[c].attempt = MAX_RETRIES
    <3> DEFINE call == [calls[c] EXCEPT !.stage = "done"]
    <3>1. calls' = [calls EXCEPT ![c] = call]
      BY <1>7, <2>6 DEF Retry, EgressInv, EgressTypes
    <3>2. call \in CallRow /\ call.stage = "done"
      BY <1>1 DEF CallRow
    <3>3. Audited(call, log, arrived[c])
      BY <2>4, <2>5, <2>6, <3>2 DEF Audited
    <3> HIDE DEF call, log
    <3> QED
      BY <2>1, <2>2, <2>4, <3>1, <3>2, <3>3, <1>1, <1>2, QuietCall
  <2>7. CASE calls[c].attempt # MAX_RETRIES
    <3>1. PICK backoff \in Backoffs :
            calls' = [calls EXCEPT ![c].stage = "acquire", ![c].attempt = @ + 1,
                                   ![c].until = ticks + backoff]
      BY <1>7, <2>7 DEF Retry
    <3> DEFINE call == [[[calls[c] EXCEPT !.stage = "acquire"] EXCEPT !.attempt = calls[c].attempt + 1]
                           EXCEPT !.until = ticks + backoff]
    <3>2. calls' = [calls EXCEPT ![c] = call]
      BY <3>1, <1>1 DEF EgressInv, EgressTypes, CallRow
    <3>3. calls[c].attempt + 1 \in Attempts /\ ticks + backoff \in Nat
      BY <1>3, <2>7, EgressAssumption DEF Attempts
    <3>4. call \in CallRow /\ call.stage = "acquire"
      BY <1>1, <3>3 DEF CallRow
    <3>5. Audited(call, log, arrived[c])
      BY <2>4, <2>5, <3>4 DEF Audited
    <3> HIDE DEF call, log
    <3> QED
      BY <2>1, <2>2, <2>4, <3>2, <3>4, <3>5, <1>1, <1>2, QuietCall
  <2> QED
    BY <2>6, <2>7
<1>8. CASE Die(c)
  <2> DEFINE call == [calls[c] EXCEPT !.stage = "dead"]
  <2>1. /\ calls' = [calls EXCEPT ![c] = call] /\ logs' = [logs EXCEPT ![c] = logs[c]]
        /\ arrived' = [arrived EXCEPT ![c] = arrived[c]]
    BY <1>1, <1>8 DEF Die, EgressInv, EgressTypes
  <2>2. call \in CallRow /\ call.stage = "dead"
    BY <1>1 DEF CallRow
  <2>3. Audited(call, logs[c], arrived[c])
    BY <1>1, <1>8, <2>2 DEF Audited, Die
  <2> HIDE DEF call
  <2> QED
    BY <2>1, <2>2, <2>3, <1>1, <1>2, QuietCall
<1> QED
  BY <1>4, <1>5, <1>6, <1>7, <1>8

(* Time goes on.                                                            *)
LEMMA TickKeepsEgress ==
    ASSUME EgressInv, Tick
    PROVE  EgressInv'
<1>1. /\ ticks' = ticks + 1 /\ ticks' \in 0 .. MaxTicks /\ ticks \in Nat
      /\ UNCHANGED <<_timestamps, calls, logs, passes, arrived>>
  BY EgressAssumption DEF Tick, EgressInv, EgressTypes
<1>2. \A p \in passes : p.at \in Nat /\ p.at <= ticks
  BY DEF EgressInv, EgressTypes, PassRow
<1>3. EgressTypes'
  BY <1>1, <1>2 DEF EgressInv, EgressTypes
<1>4. /\ \A chat : AtOnce(chat)' = AtOnce(chat)
      /\ \A chat, from : Within(chat, from)' = Within(chat, from)
      /\ \A chat, t : PassedBefore(chat, t)' <=> PassedBefore(chat, t)
  BY <1>1 DEF AtOnce, Within, PassedBefore
<1>5. SlotsArePasses'
  <2>1. \A p \in passes : p.at > ticks' - window_ticks => p.at > ticks - window_ticks
    BY <1>1, <1>2, EgressAssumption
  <2> QED
    BY <1>1, <1>4, <2>1 DEF EgressInv, SlotsArePasses, AtOnce
<1>6. WindowsHold' /\ WaitersFollow' /\ AuditFits'
  BY <1>1, <1>4 DEF EgressInv, WindowsHold, WaitersFollow, AuditFits
<1> QED
  BY <1>3, <1>5, <1>6 DEF EgressInv

(* A message passes: what was known of passes stays, and it is one more.    *)
LEMMA OneMorePass ==
    ASSUME EgressInv, NEW c \in Calls, NEW waited \in BOOLEAN, Pass(c, waited)
    PROVE  LET pass == [call |-> c, attempt |-> calls[c].attempt, chat |-> calls[c].chat,
                        at |-> ticks, waited |-> waited]
           IN  /\ passes' = passes \cup {pass} /\ pass \in PassRow
               /\ IsFiniteSet(passes') /\ passes' \subseteq PassRow
               /\ \A p \in passes' : p.at <= ticks
               /\ \A chat, t : PassedBefore(chat, t) => PassedBefore(chat, t)'
<1> DEFINE pass == [call |-> c, attempt |-> calls[c].attempt, chat |-> calls[c].chat,
                    at |-> ticks, waited |-> waited]
<1>1. passes' = passes \cup {pass}
  BY DEF Pass
<1>2. pass \in PassRow /\ pass.at <= ticks
  BY EgressAssumption DEF PassRow, EgressInv, EgressTypes, CallRow
<1> HIDE DEF pass
<1>3. IsFiniteSet(passes')
  BY <1>1, FS_AddElement DEF EgressInv, EgressTypes
<1>4. \A chat, t : PassedBefore(chat, t) => PassedBefore(chat, t)'
  BY <1>1 DEF PassedBefore, AtOnce
<1>5. passes' \subseteq PassRow /\ \A p \in passes' : p.at <= ticks
  BY <1>1, <1>2 DEF EgressInv, EgressTypes
<1> QED
  BY <1>1, <1>2, <1>3, <1>4, <1>5 DEF pass

(* A sleeper wakes and sends without asking again.                          *)
LEMMA WakeKeepsEgress ==
    ASSUME EgressInv, NEW c \in Calls, Wake(c)
    PROVE  EgressInv'
<1> DEFINE pass == [call |-> c, attempt |-> calls[c].attempt, chat |-> calls[c].chat,
                    at |-> ticks, waited |-> TRUE]
           call == [calls[c] EXCEPT !.stage = "send"]
<1>1. /\ calls[c].stage = "wait" /\ calls[c].until <= ticks /\ ticks \in Nat
      /\ calls[c].until \in Nat
      /\ Pass(c, TRUE) /\ UNCHANGED <<ticks, _timestamps, logs, arrived>>
  <2>1. ticks \in Nat /\ calls[c].until \in Nat
    BY EgressAssumption DEF EgressInv, EgressTypes, CallRow
  <2>2. ~ (calls[c].until > ticks)
    BY DEF Wake, Sleeping
  <2>3. calls[c].until <= ticks
    BY <2>1, <2>2
  <2> QED
    BY <2>1, <2>3 DEF Wake
<1>2. /\ passes' = passes \cup {pass} /\ pass \in PassRow
      /\ IsFiniteSet(passes') /\ passes' \subseteq PassRow
      /\ \A p \in passes' : p.at <= ticks
      /\ \A chat, t : PassedBefore(chat, t) => PassedBefore(chat, t)'
  BY <1>1, OneMorePass
<1>3. pass.waited = TRUE /\ pass.chat = calls[c].chat /\ pass.at = ticks
  OBVIOUS
<1> HIDE DEF pass
<1>4. /\ calls[c] \in CallRow /\ logs[c] \in LogRow /\ arrived[c] \in Nat
      /\ Audited(calls[c], logs[c], arrived[c])
      /\ logs = [logs EXCEPT ![c] = logs[c]]
      /\ arrived = [arrived EXCEPT ![c] = arrived[c]]
  BY CallBefore
<1>5. calls' = [calls EXCEPT ![c] = call]
  BY DEF Wake, EgressInv, EgressTypes
<1>6. call \in CallRow /\ call.stage = "send"
  BY <1>4 DEF CallRow
<1>7. Audited(call, logs[c], arrived[c])
  BY <1>1, <1>4, <1>6 DEF Audited
<1> HIDE DEF call
<1>8. /\ calls' \in [Calls -> CallRow] /\ logs' \in [Calls -> LogRow]
      /\ arrived' \in [Calls -> Nat] /\ AuditFits'
      /\ \A b \in Calls : calls'[b] = IF b = c THEN call ELSE calls[b]
  <2>1. logs' = [logs EXCEPT ![c] = logs[c]] /\ arrived' = [arrived EXCEPT ![c] = arrived[c]]
    BY <1>1, <1>4
  <2> QED
    BY <2>1, <1>4, <1>5, <1>6, <1>7, CallReplaced
<1>9. EgressTypes'
  BY <1>1, <1>2, <1>8 DEF EgressInv, EgressTypes
<1>10. \A chat : AtOnce(chat)' = AtOnce(chat)
  BY <1>2, <1>3 DEF AtOnce
<1>11. SlotsArePasses'
  BY <1>1, <1>2, <1>10 DEF EgressInv, SlotsArePasses
<1>12. WindowsHold'
  BY <1>10 DEF EgressInv, WindowsHold, Within
<1>13. PassedBefore(calls[c].chat, ticks)
  <2>1. PICK q \in AtOnce(calls[c].chat) : q.at <= calls[c].until - window_ticks
    BY <1>1 DEF EgressInv, WaitersFollow, PassedBefore
  <2>2. q.at \in Nat
    BY DEF AtOnce, EgressInv, EgressTypes, PassRow
  <2>3. q.at <= ticks - window_ticks
    BY <2>1, <2>2, <1>1, EgressAssumption
  <2> QED
    BY <2>3 DEF PassedBefore
<1>14. \A b \in Calls : calls'[b].stage = "wait" => calls'[b] = calls[b]
  BY <1>6, <1>8
<1>15. \A p \in passes' : p.waited => PassedBefore(p.chat, p.at)
  BY <1>2, <1>3, <1>13 DEF EgressInv, WaitersFollow
<1>16. WaitersFollow'
  BY <1>10, <1>14, <1>15 DEF EgressInv, WaitersFollow, PassedBefore
<1> QED
  BY <1>8, <1>9, <1>11, <1>12, <1>16 DEF EgressInv

(* The limiter's list is a list of passes, and a finite one.                *)
LEMMA SlotsAreFinite ==
    ASSUME EgressInv, NEW chat \in Chats
    PROVE  IsFiniteSet(_timestamps[chat]) /\ IsFiniteSet(InWindow(chat))
<1> DEFINE S == _timestamps[chat]
           g == [slot \in S |-> PassOf(slot, chat)]
<1>1. g \in [S -> passes]
  BY DEF EgressInv, SlotsArePasses
<1>2. ASSUME NEW s \in S, NEW t \in S, g[s] = g[t]
      PROVE  s = t
  <2>1. s \in SlotRow /\ t \in SlotRow
    BY DEF EgressInv, EgressTypes
  <2>2. s.call = t.call /\ s.attempt = t.attempt /\ s.at = t.at
    BY <1>2 DEF PassOf
  <2> QED
    BY <2>1, <2>2 DEF SlotRow
<1>3. g \in Injection(S, passes)
  BY <1>1, <1>2 DEF Injection, IsInjective
<1>4. IsFiniteSet(S)
  BY <1>3, FS_Injection DEF EgressInv, EgressTypes
<1>5. InWindow(chat) \subseteq S
  BY DEF InWindow
<1> QED
  BY <1>4, <1>5, FS_Subset

(* A chat with room in its window: one more message keeps every window.     *)
LEMMA RoomForOne ==
    ASSUME EgressInv, NEW chat \in Chats, Cardinality(InWindow(chat)) < max_per_window,
           NEW from \in Nat, ticks \in from .. from + window_ticks - 1
    PROVE  Cardinality(Within(chat, from)) < max_per_window
<1> DEFINE W == Within(chat, from)
           f == [p \in W |-> SlotOf(p)]
<1>1. ticks \in Nat /\ window_ticks \in Nat /\ \A p \in passes : p.at \in Nat /\ p \in PassRow
  BY EgressAssumption DEF EgressInv, EgressTypes, PassRow
<1>2. ASSUME NEW p \in W
      PROVE  SlotOf(p) \in InWindow(chat) /\ p \in PassRow /\ p.chat = chat /\ p.waited = FALSE
  <2>1. p \in AtOnce(chat) /\ p \in passes /\ p.at \in from .. from + window_ticks - 1
    BY DEF Within, AtOnce
  <2>2. p.at > ticks - window_ticks
    BY <2>1, <1>1
  <2>3. SlotOf(p) \in _timestamps[chat] /\ SlotOf(p).at = p.at
    BY <2>1, <2>2 DEF EgressInv, SlotsArePasses, SlotOf
  <2>4. p \in PassRow /\ p.chat = chat /\ p.waited = FALSE
    BY <2>1, <1>1 DEF AtOnce, PassRow
  <2> QED
    BY <2>2, <2>3, <2>4 DEF InWindow
<1>3. ASSUME NEW p \in W, NEW q \in W, f[p] = f[q]
      PROVE  p = q
  <2>1. p.call = q.call /\ p.attempt = q.attempt /\ p.at = q.at
    BY <1>3 DEF SlotOf
  <2>2. /\ p \in PassRow /\ p.chat = chat /\ p.waited = FALSE
        /\ q \in PassRow /\ q.chat = chat /\ q.waited = FALSE
    BY <1>2
  <2> QED
    BY <2>1, <2>2 DEF PassRow
<1>4. f \in [W -> InWindow(chat)]
  BY <1>2
<1>5. f \in Injection(W, InWindow(chat))
  BY <1>3, <1>4 DEF Injection, IsInjective
<1>6. IsFiniteSet(InWindow(chat))
  BY SlotsAreFinite
<1>7. IsFiniteSet(W) /\ Cardinality(W) <= Cardinality(InWindow(chat))
  BY <1>5, <1>6, FS_Injection
<1>8. Cardinality(W) \in Nat /\ Cardinality(InWindow(chat)) \in Nat
  BY <1>6, <1>7, FS_CardinalityType
<1> QED
  BY <1>7, <1>8, EgressAssumption

(* A list that is full has an oldest slot, and that is one of its slots.    *)
LEMMA OldestIsASlot ==
    ASSUME EgressInv, NEW chat \in Chats, InWindow(chat) # {}
    PROVE  \E slot \in InWindow(chat) : slot.at = Oldest(InWindow(chat))
<1> DEFINE S == {slot.at : slot \in InWindow(chat)}
<1>1. S \subseteq Nat /\ S # {}
  BY DEF InWindow, EgressInv, EgressTypes, SlotRow
<1>2. PICK t \in S : \A u \in S : t <= u
  BY <1>1, LeastNatural
<1>3. Oldest(InWindow(chat)) \in S
  BY <1>2 DEF Oldest
<1> QED
  BY <1>3

(* A call that finds its window full is put to sleep until the oldest       *)
(* message in it is a window old.                                           *)
LEMMA WaitKeepsEgress ==
    ASSUME EgressInv, NEW c \in Calls, Acquire(c),
           Cardinality(InWindow(calls[c].chat)) >= max_per_window
    PROVE  EgressInv'
<1> DEFINE chat == calls[c].chat
           slots == InWindow(chat)
           until == ticks + (window_ticks - (ticks - Oldest(slots)))
           call == [[calls[c] EXCEPT !.stage = "wait"] EXCEPT !.until = until]
<1>1. /\ calls[c] \in CallRow /\ logs[c] \in LogRow /\ arrived[c] \in Nat
      /\ Audited(calls[c], logs[c], arrived[c])
      /\ logs = [logs EXCEPT ![c] = logs[c]]
      /\ arrived = [arrived EXCEPT ![c] = arrived[c]]
  BY CallBefore
<1>2. chat \in Chats /\ ticks \in Nat /\ window_ticks \in Nat /\ calls[c].stage = "acquire"
  BY <1>1, EgressAssumption DEF EgressInv, EgressTypes, CallRow, Acquire
<1>3. /\ calls' = [calls EXCEPT ![c].stage = "wait", ![c].until = until]
      /\ _timestamps' = [_timestamps EXCEPT ![chat] = slots]
      /\ UNCHANGED <<ticks, logs, passes, arrived>>
  BY DEF Acquire
<1>4. slots # {}
  BY FS_EmptySet, EgressAssumption
<1>5. PICK slot \in slots : slot.at = Oldest(slots)
  BY <1>2, <1>4, OldestIsASlot
<1>6. slot \in SlotRow /\ slot \in _timestamps[chat] /\ slot.at \in Nat
  BY <1>2 DEF InWindow, EgressInv, EgressTypes, SlotRow
<1>7. until = slot.at + window_ticks /\ until \in Nat
  BY <1>2, <1>5, <1>6
<1> HIDE DEF until
<1>8. calls' = [calls EXCEPT ![c] = call]
  BY <1>1, <1>3 DEF EgressInv, EgressTypes, CallRow
<1>9. call \in CallRow /\ call.stage = "wait" /\ call.until = until /\ call.chat = chat
  BY <1>1, <1>7 DEF CallRow
<1>10. Audited(call, logs[c], arrived[c])
  BY <1>1, <1>2, <1>9 DEF Audited
<1> HIDE DEF call
<1>11. /\ calls' \in [Calls -> CallRow] /\ logs' \in [Calls -> LogRow]
       /\ arrived' \in [Calls -> Nat] /\ AuditFits'
       /\ \A b \in Calls : calls'[b] = IF b = c THEN call ELSE calls[b]
  <2>1. logs' = [logs EXCEPT ![c] = logs[c]] /\ arrived' = [arrived EXCEPT ![c] = arrived[c]]
    BY <1>1, <1>3
  <2> QED
    BY <2>1, <1>1, <1>8, <1>9, <1>10, CallReplaced
<1>12. slots \subseteq _timestamps[chat]
  BY DEF InWindow
<1>13. /\ \A room \in Chats : _timestamps'[room] = IF room = chat THEN slots ELSE _timestamps[room]
       /\ _timestamps' \in [Chats -> SUBSET SlotRow]
  BY <1>2, <1>3, <1>12 DEF EgressInv, EgressTypes
<1>14. EgressTypes'
  BY <1>3, <1>11, <1>13 DEF EgressInv, EgressTypes
<1>15. /\ \A room : AtOnce(room)' = AtOnce(room)
       /\ \A room, from : Within(room, from)' = Within(room, from)
       /\ \A room, t : PassedBefore(room, t)' <=> PassedBefore(room, t)
  BY <1>3 DEF AtOnce, Within, PassedBefore
<1>16. SlotsArePasses'
  <2>1. ASSUME NEW room \in Chats, NEW s \in _timestamps'[room]
        PROVE  PassOf(s, room) \in passes
    BY <2>1, <1>12, <1>13 DEF EgressInv, SlotsArePasses
  <2>2. ASSUME NEW room \in Chats, NEW p \in AtOnce(room), p.at > ticks - window_ticks
        PROVE  SlotOf(p) \in _timestamps'[room]
    <3>1. SlotOf(p) \in _timestamps[room] /\ SlotOf(p).at = p.at
      BY <2>2 DEF EgressInv, SlotsArePasses, SlotOf
    <3> QED
      BY <2>2, <3>1, <1>13 DEF InWindow
  <2> QED
    BY <1>3, <1>15, <2>1, <2>2 DEF SlotsArePasses
<1>17. WindowsHold'
  BY <1>15 DEF EgressInv, WindowsHold
<1>18. PassedBefore(chat, until)
  <2>1. PassOf(slot, chat) \in AtOnce(chat) /\ PassOf(slot, chat).at = slot.at
    BY <1>2, <1>6 DEF EgressInv, SlotsArePasses, AtOnce, PassOf
  <2>2. slot.at <= until - window_ticks
    BY <1>2, <1>6, <1>7
  <2> QED
    BY <2>1, <2>2 DEF PassedBefore
<1>19. \A b \in Calls : calls'[b].stage = "wait" => PassedBefore(calls'[b].chat, calls'[b].until)
  BY <1>9, <1>11, <1>18 DEF EgressInv, WaitersFollow
<1>20. WaitersFollow'
  BY <1>3, <1>15, <1>19 DEF EgressInv, WaitersFollow, PassedBefore
<1> QED
  BY <1>11, <1>14, <1>16, <1>17, <1>20 DEF EgressInv

(* A call that finds room passes at once and leaves a slot.                 *)
LEMMA PassKeepsEgress ==
    ASSUME EgressInv, NEW c \in Calls, Acquire(c),
           ~ (Cardinality(InWindow(calls[c].chat)) >= max_per_window)
    PROVE  EgressInv'
<1> DEFINE chat == calls[c].chat
           slots == InWindow(chat)
           pass == [call |-> c, attempt |-> calls[c].attempt, chat |-> chat,
                    at |-> ticks, waited |-> FALSE]
           call == [calls[c] EXCEPT !.stage = "send"]
<1>1. /\ calls[c] \in CallRow /\ logs[c] \in LogRow /\ arrived[c] \in Nat
      /\ Audited(calls[c], logs[c], arrived[c])
      /\ logs = [logs EXCEPT ![c] = logs[c]]
      /\ arrived = [arrived EXCEPT ![c] = arrived[c]]
  BY CallBefore
<1>2. /\ chat \in Chats /\ ticks \in Nat /\ window_ticks \in Nat /\ calls[c].stage = "acquire"
      /\ calls[c].attempt \in Attempts
  BY <1>1, EgressAssumption DEF EgressInv, EgressTypes, CallRow, Acquire
<1>3. /\ calls' = [calls EXCEPT ![c].stage = "send"]
      /\ _timestamps' = [_timestamps EXCEPT ![chat] = slots \cup {Slot(c)}]
      /\ Pass(c, FALSE) /\ UNCHANGED <<ticks, logs, arrived>>
  BY DEF Acquire
<1>4. /\ passes' = passes \cup {pass} /\ pass \in PassRow
      /\ IsFiniteSet(passes') /\ passes' \subseteq PassRow
      /\ \A p \in passes' : p.at <= ticks
      /\ \A room, t : PassedBefore(room, t) => PassedBefore(room, t)'
  BY <1>3, OneMorePass
<1>5. /\ PassOf(Slot(c), chat) = pass /\ SlotOf(pass) = Slot(c) /\ Slot(c) \in SlotRow
      /\ pass.waited = FALSE /\ pass.chat = chat /\ pass.at = ticks
  BY <1>2 DEF PassOf, Slot, SlotOf, SlotRow
<1> HIDE DEF pass
<1>6. calls' = [calls EXCEPT ![c] = call]
  BY <1>3 DEF EgressInv, EgressTypes
<1>7. call \in CallRow /\ call.stage = "send"
  BY <1>1 DEF CallRow
<1>8. Audited(call, logs[c], arrived[c])
  BY <1>1, <1>2, <1>7 DEF Audited
<1> HIDE DEF call
<1>9. /\ calls' \in [Calls -> CallRow] /\ logs' \in [Calls -> LogRow]
      /\ arrived' \in [Calls -> Nat] /\ AuditFits'
      /\ \A b \in Calls : calls'[b] = IF b = c THEN call ELSE calls[b]
  <2>1. logs' = [logs EXCEPT ![c] = logs[c]] /\ arrived' = [arrived EXCEPT ![c] = arrived[c]]
    BY <1>1, <1>3
  <2> QED
    BY <2>1, <1>1, <1>6, <1>7, <1>8, CallReplaced
<1>10. slots \subseteq _timestamps[chat]
  BY DEF InWindow
<1>11. /\ \A room \in Chats :
            _timestamps'[room] = IF room = chat THEN slots \cup {Slot(c)} ELSE _timestamps[room]
       /\ _timestamps' \in [Chats -> SUBSET SlotRow]
  BY <1>2, <1>3, <1>5, <1>10 DEF EgressInv, EgressTypes
<1>12. EgressTypes'
  BY <1>3, <1>4, <1>9, <1>11 DEF EgressInv, EgressTypes
<1>13. \A room : AtOnce(room)' = IF room = chat THEN AtOnce(room) \cup {pass} ELSE AtOnce(room)
  BY <1>4, <1>5 DEF AtOnce
<1>14. SlotsArePasses'
  <2>1. ASSUME NEW room \in Chats, NEW s \in _timestamps'[room]
        PROVE  PassOf(s, room) \in passes'
    BY <2>1, <1>4, <1>5, <1>10, <1>11 DEF EgressInv, SlotsArePasses
  <2>2. ASSUME NEW room \in Chats, NEW p \in AtOnce(room)', p.at > ticks - window_ticks
        PROVE  SlotOf(p) \in _timestamps'[room]
    <3>1. CASE p = pass /\ room = chat
      BY <3>1, <1>2, <1>5, <1>11
    <3>2. CASE p \in AtOnce(room)
      <4>1. SlotOf(p) \in _timestamps[room] /\ SlotOf(p).at = p.at
        BY <2>2, <3>2 DEF EgressInv, SlotsArePasses, SlotOf
      <4> QED
        BY <2>2, <4>1, <1>11 DEF InWindow
    <3> QED
      BY <2>2, <3>1, <3>2, <1>13
  <2> QED
    BY <1>3, <2>1, <2>2 DEF SlotsArePasses
<1>15. ASSUME NEW room \in Chats, NEW from \in Nat
       PROVE  Cardinality(Within(room, from)') <= max_per_window
  <2>1. IsFiniteSet(Within(room, from)) /\ Cardinality(Within(room, from)) <= max_per_window
    BY FS_Subset DEF Within, AtOnce, EgressInv, EgressTypes, WindowsHold
  <2>2. CASE room = chat /\ ticks \in from .. from + window_ticks - 1
    <3>1. Cardinality(InWindow(chat)) < max_per_window
      <4>1. Cardinality(InWindow(chat)) \in Nat
        BY <1>2, SlotsAreFinite, FS_CardinalityType
      <4> QED
        BY <4>1, EgressAssumption
    <3>2. Cardinality(Within(room, from)) < max_per_window
      BY <1>2, <2>2, <3>1, RoomForOne
    <3>3. Within(room, from)' = Within(room, from) \cup {pass}
      BY <1>5, <1>13, <2>2 DEF Within
    <3>4. Cardinality(Within(room, from) \cup {pass}) <= Cardinality(Within(room, from)) + 1
      <4> DEFINE W == Within(room, from)
      <4>1. IsFiniteSet(W) /\ Cardinality(W) \in Nat
        BY <2>1, FS_CardinalityType
      <4> HIDE DEF W
      <4>2. Cardinality(W \cup {pass}) = IF pass \in W THEN Cardinality(W) ELSE Cardinality(W) + 1
        BY <4>1, FS_AddElement
      <4>3. Cardinality(W \cup {pass}) <= Cardinality(W) + 1
        BY <4>1, <4>2
      <4> QED
        BY <4>3 DEF W
    <3>5. Cardinality(Within(room, from)) \in Nat /\ Cardinality(Within(room, from) \cup {pass}) \in Nat
      BY <2>1, FS_AddElement, FS_CardinalityType
    <3> QED
      BY <3>2, <3>3, <3>4, <3>5, EgressAssumption
  <2>3. CASE ~ (room = chat /\ ticks \in from .. from + window_ticks - 1)
    <3>1. Within(room, from)' = Within(room, from)
      BY <1>5, <1>13, <2>3 DEF Within
    <3> QED
      BY <2>1, <3>1
  <2> QED
    BY <2>2, <2>3
<1>16. WindowsHold'
  <2>1. \A room \in Chats, from \in Nat : Cardinality(Within(room, from)') <= max_per_window
    BY <1>15
  <2> QED
    BY <2>1 DEF WindowsHold
<1>17. \A b \in Calls : calls'[b].stage = "wait" => calls'[b] = calls[b]
  BY <1>7, <1>9
<1>18. WaitersFollow'
  <2>1. ASSUME NEW b \in Calls, calls'[b].stage = "wait"
        PROVE  PassedBefore(calls[b].chat, calls[b].until)'
    <3>1. calls'[b] = calls[b] /\ PassedBefore(calls[b].chat, calls[b].until)
      BY <1>17, <2>1 DEF EgressInv, WaitersFollow
    <3>2. PICK q \in passes : /\ q.chat = calls[b].chat /\ ~ q.waited
                              /\ q.at <= calls[b].until - window_ticks
      BY <3>1 DEF PassedBefore, AtOnce
    <3> QED
      BY <1>4, <3>1, <3>2 DEF PassedBefore, AtOnce
  <2>2. ASSUME NEW p \in passes', p.waited
        PROVE  PassedBefore(p.chat, p.at)'
    <3>1. PassedBefore(p.chat, p.at)
      BY <1>4, <1>5, <2>2 DEF EgressInv, WaitersFollow
    <3> QED
      BY <1>4, <3>1
  <2> QED
    BY <2>1, <2>2 DEF WaitersFollow
<1> QED
  BY <1>9, <1>12, <1>14, <1>16, <1>18 DEF EgressInv

(* A message to Telegram, from the start: slots, windows, waits and audit.  *)
THEOREM EgressInvariant == EgressSpec => []EgressInv
<1>1. EgressInit => EgressInv
  <2> SUFFICES ASSUME EgressInit PROVE EgressInv
    OBVIOUS
  <2>1. EgressTypes
    BY EgressAssumption, FS_EmptySet
       DEF EgressInit, EgressTypes, CallRow, LogRow, NoLog, Attempts
  <2>2. \A chat : AtOnce(chat) = {}
    BY DEF EgressInit, AtOnce
  <2>3. WindowsHold
    <3>1. \A chat, from : Within(chat, from) = {}
      BY <2>2 DEF Within
    <3> QED
      BY <3>1, FS_EmptySet, EgressAssumption DEF WindowsHold
  <2>4. SlotsArePasses /\ WaitersFollow
    BY <2>2 DEF EgressInit, SlotsArePasses, WaitersFollow
  <2>5. AuditFits
    BY DEF EgressInit, AuditFits, Audited, NoLog
  <2> QED
    BY <2>1, <2>3, <2>4, <2>5 DEF EgressInv
<1>2. EgressInv /\ [EgressNext]_egressVars => EgressInv'
  <2> SUFFICES ASSUME EgressInv, [EgressNext]_egressVars PROVE EgressInv'
    OBVIOUS
  <2>1. CASE Tick
    BY <2>1, TickKeepsEgress
  <2>2. ASSUME NEW c \in Calls, Acquire(c)
        PROVE  EgressInv'
    BY <2>2, WaitKeepsEgress, PassKeepsEgress
  <2>3. ASSUME NEW c \in Calls, Wake(c)
        PROVE  EgressInv'
    BY <2>3, WakeKeepsEgress
  <2>4. ASSUME NEW c \in Calls,
               \/ \E chat \in Chats : SendMessage(c, chat)
               \/ Transmit(c) \/ Stamp(c) \/ Retry(c) \/ Die(c)
        PROVE  EgressInv'
    BY <2>4, QuietSteps
  <2>5. CASE UNCHANGED egressVars
    <3>1. EgressTypes' /\ SlotsArePasses' /\ WindowsHold' /\ WaitersFollow'
      BY <2>5, LimiterAtRest DEF egressVars, EgressInv, EgressTypes
    <3>2. AuditFits'
      BY <2>5 DEF egressVars, EgressInv, AuditFits
    <3> QED
      BY <3>1, <3>2 DEF EgressInv
  <2> QED
    BY <2>1, <2>2, <2>3, <2>4, <2>5 DEF EgressNext
<1> QED
  BY <1>1, <1>2, PTL DEF EgressSpec

(* A sliding window of a chat holds max_per_window messages that passed at  *)
(* once, whatever exceeds it had been told to wait, and the audit tells     *)
(* what happened to every call: send_message and its limiter.               *)
THEOREM EgressStaysGoverned == EgressSpec => []EgressIsGoverned
<1>1. EgressInv => EgressIsGoverned
  <2> SUFFICES ASSUME EgressInv PROVE RateHeld /\ AuditTellsTheTruth
    BY DEF EgressIsGoverned
  <2>1. ASSUME NEW chat \in Chats, NEW from \in 0 .. ticks
        PROVE  LET passed == {p \in passes : p.chat = chat /\ p.at \in from .. from + window_ticks - 1}
                   excess == {p \in passed : p.waited}
               IN  /\ Cardinality(passed \ excess) <= max_per_window
                   /\ \A p \in excess : \E q \in passes :
                         q.chat = chat /\ ~ q.waited /\ q.at \in p.at - MaxTicks .. p.at - window_ticks
    <3> DEFINE passed == {p \in passes : p.chat = chat /\ p.at \in from .. from + window_ticks - 1}
               excess == {p \in passed : p.waited}
    <3>1. passed \ excess = Within(chat, from)
      BY DEF Within, AtOnce
    <3>2. from \in Nat
      BY EgressAssumption DEF EgressInv, EgressTypes
    <3>3. Cardinality(passed \ excess) <= max_per_window
      BY <3>1, <3>2 DEF EgressInv, WindowsHold
    <3>4. ASSUME NEW p \in excess
          PROVE  \E q \in passes :
                    q.chat = chat /\ ~ q.waited /\ q.at \in p.at - MaxTicks .. p.at - window_ticks
      <4>1. p \in passes /\ p.waited /\ p.chat = chat
        OBVIOUS
      <4>2. PICK q \in AtOnce(chat) : q.at <= p.at - window_ticks
        BY <4>1 DEF EgressInv, WaitersFollow, PassedBefore
      <4>3. /\ q \in passes /\ q.chat = chat /\ ~ q.waited /\ q.at \in Nat /\ p.at \in Nat
            /\ p.at <= ticks /\ ticks \in 0 .. MaxTicks
        BY <4>1 DEF AtOnce, EgressInv, EgressTypes, PassRow
      <4>4. q.at \in p.at - MaxTicks .. p.at - window_ticks
        BY <4>2, <4>3, EgressAssumption
      <4> QED
        BY <4>3, <4>4
    <3> QED
      BY <3>3, <3>4
  <2>2. RateHeld
    BY <2>1 DEF RateHeld
  <2>3. ASSUME NEW c \in Calls
        PROVE  /\ logs[c].sent => arrived[c] > 0 /\ logs[c].retries = calls[c].attempt - 1
               /\ (calls[c].stage = "done" /\ ~ logs[c].sent) => logs[c].retries = MAX_RETRIES
               /\ arrived[c] > 0 => logs[c].exists
    BY CallBefore DEF Audited
  <2>4. AuditTellsTheTruth
    BY <2>3 DEF AuditTellsTheTruth
  <2> QED
    BY <2>2, <2>4
<1> QED
  BY <1>1, EgressInvariant, PTL

(* An attempt delivers one message at the most, and none before it is made. *)
ArrivalsFit ==
    \A c \in Calls :
        /\ logs[c].retries <= calls[c].attempt
        /\ arrived[c] <= calls[c].attempt
        /\ calls[c].stage \in {"new", "acquire", "wait", "send"} => arrived[c] < calls[c].attempt

LEMMA ArrivalsKept == EgressInv /\ ArrivalsFit /\ [EgressNext]_egressVars => ArrivalsFit'
<1> SUFFICES ASSUME EgressInv, ArrivalsFit, [EgressNext]_egressVars PROVE ArrivalsFit'
  OBVIOUS
<1>1. \A c \in Calls : /\ calls[c] \in CallRow /\ logs[c] \in LogRow /\ arrived[c] \in Nat
                        /\ calls[c].attempt \in Nat /\ logs[c].retries \in Nat
  BY EgressAssumption DEF EgressInv, EgressTypes, CallRow, LogRow, Attempts
<1>2. CASE UNCHANGED <<calls, logs, arrived>>
  BY <1>2 DEF ArrivalsFit
<1>3. ASSUME NEW c \in Calls, NEW call, NEW log, NEW n,
             calls' = [calls EXCEPT ![c] = call], logs' = [logs EXCEPT ![c] = log],
             arrived' = [arrived EXCEPT ![c] = n], log.retries <= call.attempt, n <= call.attempt,
             call.stage \in {"new", "acquire", "wait", "send"} => n < call.attempt
      PROVE  ArrivalsFit'
  <2>1. \A b \in Calls : /\ calls'[b] = IF b = c THEN call ELSE calls[b]
                         /\ logs'[b] = IF b = c THEN log ELSE logs[b]
                         /\ arrived'[b] = IF b = c THEN n ELSE arrived[b]
    BY <1>3 DEF EgressInv, EgressTypes
  <2> QED
    BY <1>3, <2>1 DEF ArrivalsFit
<1>4. ASSUME NEW c \in Calls, NEW call, calls' = [calls EXCEPT ![c] = call], UNCHANGED <<logs, arrived>>,
             call.attempt = calls[c].attempt,
             call.stage \in {"new", "acquire", "wait", "send"}
                => calls[c].stage \in {"new", "acquire", "wait", "send"}
      PROVE  ArrivalsFit'
  <2>1. /\ logs' = [logs EXCEPT ![c] = logs[c]] /\ arrived' = [arrived EXCEPT ![c] = arrived[c]]
    BY <1>4 DEF EgressInv, EgressTypes
  <2>2. /\ logs[c].retries <= call.attempt /\ arrived[c] <= call.attempt
        /\ call.stage \in {"new", "acquire", "wait", "send"} => arrived[c] < call.attempt
    BY <1>4 DEF ArrivalsFit
  <2> QED
    BY <1>3, <1>4, <2>1, <2>2
<1>5. ASSUME NEW c \in Calls, Wake(c) \/ Die(c) \/ Acquire(c)
      PROVE  ArrivalsFit'
  <2>1. PICK call : /\ calls' = [calls EXCEPT ![c] = call] /\ call.attempt = calls[c].attempt
                    /\ call.stage \in {"wait", "send", "dead"}
                    /\ call.stage # "dead" => calls[c].stage \in {"acquire", "wait"}
    <3>1. CASE Die(c)
      <4> DEFINE dead == [calls[c] EXCEPT !.stage = "dead"]
      <4>1. calls' = [calls EXCEPT ![c] = dead]
        BY <3>1 DEF Die, EgressInv, EgressTypes
      <4>2. dead.stage = "dead" /\ dead.attempt = calls[c].attempt
        BY <1>1 DEF CallRow
      <4> HIDE DEF dead
      <4> QED
        BY <4>1, <4>2
    <3>2. CASE Wake(c)
      BY <1>1, <1>5, <3>2 DEF Wake, EgressInv, EgressTypes, CallRow
    <3>3. CASE Acquire(c)
      <4>1. PICK till : \/ calls' = [calls EXCEPT ![c].stage = "wait", ![c].until = till]
                        \/ calls' = [calls EXCEPT ![c].stage = "send"]
        BY <3>3 DEF Acquire
      <4>2. calls[c].stage = "acquire"
        BY <3>3 DEF Acquire
      <4> DEFINE waiting == [[calls[c] EXCEPT !.stage = "wait"] EXCEPT !.until = till]
                 trying == [calls[c] EXCEPT !.stage = "send"]
      <4>3. calls' = [calls EXCEPT ![c] = waiting] \/ calls' = [calls EXCEPT ![c] = trying]
        BY <1>1, <4>1 DEF EgressInv, EgressTypes
      <4>4. /\ waiting.stage = "wait" /\ waiting.attempt = calls[c].attempt
            /\ trying.stage = "send" /\ trying.attempt = calls[c].attempt
        BY <1>1 DEF CallRow
      <4> HIDE DEF waiting, trying
      <4> QED
        BY <4>2, <4>3, <4>4
    <3> QED
      BY <1>5, <3>1, <3>2, <3>3
  <2>2. UNCHANGED <<logs, arrived>>
    BY <1>5 DEF Wake, Die, Acquire
  <2> QED
    BY <1>4, <2>1, <2>2
<1>6. ASSUME NEW c \in Calls, NEW chat \in Chats, SendMessage(c, chat)
      PROVE  ArrivalsFit'
  <2> DEFINE call == [[calls[c] EXCEPT !.stage = "acquire"] EXCEPT !.chat = chat]
             log == [logs[c] EXCEPT !.exists = TRUE]
  <2>1. /\ calls' = [calls EXCEPT ![c] = call] /\ logs' = [logs EXCEPT ![c] = log]
        /\ arrived' = [arrived EXCEPT ![c] = arrived[c]] /\ calls[c].stage = "new"
    BY <1>6 DEF SendMessage, EgressInv, EgressTypes
  <2>2. call.attempt = calls[c].attempt /\ log.retries = logs[c].retries
    BY <1>1 DEF CallRow, LogRow
  <2> HIDE DEF call, log
  <2> QED
    BY <1>3, <2>1, <2>2 DEF ArrivalsFit
<1>7. ASSUME NEW c \in Calls, Transmit(c)
      PROVE  ArrivalsFit'
  <2>1. PICK next \in {"stamp", "failed"}, reached \in 0 .. 1 :
          /\ calls' = [calls EXCEPT ![c].stage = next]
          /\ arrived' = [arrived EXCEPT ![c] = @ + reached]
    BY <1>7 DEF Transmit
  <2> DEFINE call == [calls[c] EXCEPT !.stage = next]
  <2>2. /\ calls' = [calls EXCEPT ![c] = call] /\ logs' = [logs EXCEPT ![c] = logs[c]]
        /\ arrived' = [arrived EXCEPT ![c] = arrived[c] + reached] /\ calls[c].stage = "send"
    BY <1>7, <2>1 DEF Transmit, EgressInv, EgressTypes
  <2>3. call.attempt = calls[c].attempt /\ call.stage = next
    BY <1>1 DEF CallRow
  <2>4. arrived[c] + reached <= calls[c].attempt /\ logs[c].retries <= calls[c].attempt
    BY <1>1, <2>2 DEF ArrivalsFit
  <2> HIDE DEF call
  <2> QED
    BY <1>3, <2>2, <2>3, <2>4
<1>8. ASSUME NEW c \in Calls, Stamp(c)
      PROVE  ArrivalsFit'
  <2> DEFINE call == [calls[c] EXCEPT !.stage = "done"]
             log == [[logs[c] EXCEPT !.sent = TRUE] EXCEPT !.retries = calls[c].attempt - 1]
  <2>1. /\ calls' = [calls EXCEPT ![c] = call] /\ logs' = [logs EXCEPT ![c] = log]
        /\ arrived' = [arrived EXCEPT ![c] = arrived[c]]
    BY <1>8 DEF Stamp, EgressInv, EgressTypes, LogRow
  <2>2. call.attempt = calls[c].attempt /\ call.stage = "done" /\ log.retries = calls[c].attempt - 1
    BY <1>1 DEF CallRow, LogRow
  <2>3. log.retries <= call.attempt /\ arrived[c] <= call.attempt
    BY <1>1, <2>2 DEF ArrivalsFit
  <2> HIDE DEF call, log
  <2> QED
    BY <1>3, <2>1, <2>2, <2>3
<1>9. ASSUME NEW c \in Calls, Retry(c)
      PROVE  ArrivalsFit'
  <2> DEFINE log == [logs[c] EXCEPT !.retries = calls[c].attempt]
  <2>1. /\ calls[c].stage = "failed" /\ logs' = [logs EXCEPT ![c] = log]
        /\ arrived' = [arrived EXCEPT ![c] = arrived[c]]
    BY <1>9 DEF Retry, EgressInv, EgressTypes
  <2>2. log.retries = calls[c].attempt
    BY <1>1 DEF LogRow
  <2>3. PICK till :
          \/ calls' = [calls EXCEPT ![c].stage = "done"]
          \/ calls' = [calls EXCEPT ![c].stage = "acquire", ![c].attempt = @ + 1, ![c].until = till]
    BY <1>9 DEF Retry
  <2> DEFINE ended == [calls[c] EXCEPT !.stage = "done"]
             again == [[[calls[c] EXCEPT !.stage = "acquire"] EXCEPT !.attempt = calls[c].attempt + 1]
                          EXCEPT !.until = till]
  <2>4. calls' = [calls EXCEPT ![c] = ended] \/ calls' = [calls EXCEPT ![c] = again]
    BY <1>1, <2>3 DEF EgressInv, EgressTypes, CallRow
  <2>5. /\ ended.stage = "done" /\ ended.attempt = calls[c].attempt
        /\ again.attempt = calls[c].attempt + 1
    BY <1>1 DEF CallRow
  <2> HIDE DEF ended, again, log
  <2>6. /\ calls[c].attempt \in Nat /\ arrived[c] \in Nat /\ arrived[c] <= calls[c].attempt
    BY <1>1 DEF ArrivalsFit
  <2>7. CASE calls' = [calls EXCEPT ![c] = ended]
    <3>1. log.retries <= ended.attempt /\ arrived[c] <= ended.attempt
      BY <2>2, <2>5, <2>6
    <3> QED
      BY <1>3, <2>1, <2>5, <2>7, <3>1
  <2>8. CASE calls' = [calls EXCEPT ![c] = again]
    <3>1. log.retries <= again.attempt /\ arrived[c] <= again.attempt /\ arrived[c] < again.attempt
      BY <2>2, <2>5, <2>6
    <3> QED
      BY <1>3, <2>1, <2>8, <3>1
  <2> QED
    BY <2>4, <2>7, <2>8
<1>10. CASE Tick \/ UNCHANGED egressVars
  BY <1>2, <1>10 DEF Tick, egressVars
<1> QED
  BY <1>5, <1>6, <1>7, <1>8, <1>9, <1>10 DEF EgressNext

(* Slots, calls and counts stay in their types; a call makes MAX_RETRIES    *)
(* attempts and delivers as often at the most (ServicesTypeOK's conjunct).  *)
THEOREM EgressTyped == EgressSpec => []EgressTypeOK
<1>1. EgressInit => ArrivalsFit
  BY DEF EgressInit, ArrivalsFit, NoLog
<1>2. EgressInv /\ ArrivalsFit => EgressTypeOK
  <2> SUFFICES ASSUME EgressInv, ArrivalsFit PROVE EgressTypeOK
    OBVIOUS
  <2>1. ASSUME NEW chat \in Chats, NEW slot \in _timestamps[chat]
        PROVE  slot \in [call : Calls, attempt : 1 .. MAX_RETRIES, at : 0 .. MaxTicks]
    <3>1. slot \in SlotRow /\ PassOf(slot, chat) \in passes
      BY DEF EgressInv, EgressTypes, SlotsArePasses
    <3>2. slot.at <= ticks /\ ticks \in 0 .. MaxTicks
      BY <3>1 DEF EgressInv, EgressTypes, PassOf
    <3>3. slot.at \in 0 .. MaxTicks
      BY <3>1, <3>2, EgressAssumption DEF SlotRow
    <3> QED
      BY <3>1, <3>3 DEF SlotRow, Attempts
  <2>2. ASSUME NEW c \in Calls
        PROVE  /\ calls[c].stage \in {"new", "acquire", "wait", "send", "stamp", "failed", "done", "dead"}
               /\ calls[c].chat \in Chats /\ calls[c].attempt \in 1 .. MAX_RETRIES
               /\ arrived[c] \in 0 .. MAX_RETRIES /\ logs[c].retries \in 0 .. MAX_RETRIES
    <3>1. /\ calls[c] \in CallRow /\ logs[c].retries \in Nat /\ arrived[c] \in Nat
          /\ logs[c].retries <= calls[c].attempt /\ arrived[c] <= calls[c].attempt
      BY DEF EgressInv, EgressTypes, LogRow, ArrivalsFit
    <3>2. calls[c].attempt \in 1 .. MAX_RETRIES /\ MAX_RETRIES \in Nat
      BY <3>1, EgressAssumption DEF CallRow, Attempts
    <3> QED
      BY <3>1, <3>2 DEF CallRow
  <2>3. ticks \in 0 .. MaxTicks
    BY DEF EgressInv, EgressTypes
  <2> QED
    BY <2>1, <2>2, <2>3 DEF EgressTypeOK
<1> QED
  BY <1>1, <1>2, ArrivalsKept, EgressInvariant, PTL DEF EgressSpec

---------------------------------------------------------------------------
(* The digest of spottings.                                                 *)

(* The task of a day is queued when 03:01 comes, not before.                *)
RunsFit ==
    /\ instant \in Nat /\ DOMAIN runs = Days
    /\ \A day \in Days :
          /\ runs[day].stage \in {"none", "queued", "sending", "done"}
          /\ runs[day].stage = "none" <=> instant < 3 * day + DIGEST_DAY_START
          /\ runs[day].stage = "sending"
                => runs[day] \in [stage : {"sending"}, todo : SUBSET Channels, date : Int]

(* Both values that a worker's clock may show give the same date.           *)
DatesFit ==
    aborted = {} => \A day \in Days : runs[day].stage = "sending" => runs[day].date = day - 1

EventsFit == events \in [Spottings -> {NotYet, Deleted} \cup Nat]

(* The channel has had its turn in the digest of the day.                   *)
Served(day, channel) ==
    \/ runs[day].stage = "done"
    \/ runs[day].stage = "sending" /\ channel \notin runs[day].todo

(* A message is one of a channel whose turn was, lists what had been        *)
(* reported, and only events of its day.                                    *)
DigestsFit ==
    \A d \in digests :
        /\ d.channel \in Channels /\ d.day \in Days /\ d.listed \subseteq Spottings
        /\ Served(d.day, d.channel)
        /\ \A e \in d.listed :
              /\ events[e] # NotYet
              /\ aborted = {} /\ e \in Kept => ClosingDay(e) = d.day

OneDigestADay ==
    \A c, d \in digests : c.channel = d.channel /\ c.day = d.day => c = d

(* An event whose day is closed is in the digest of every channel that had  *)
(* its turn, but where the message was given up.                            *)
ServedIsListed ==
    aborted = {} =>
        \A e \in Kept, channel \in Channels :
            (ClosingDay(e) \in Days /\ Served(ClosingDay(e), channel)) =>
                \/ <<ClosingDay(e), channel>> \in undelivered
                \/ \E d \in digests :
                      d.channel = channel /\ d.day = ClosingDay(e) /\ e \in d.listed

DigestInv == RunsFit /\ DatesFit /\ EventsFit /\ DigestsFit /\ OneDigestADay /\ ServedIsListed

(* The day an instant is closed by is the one whose digest interval it is   *)
(* in.                                                                      *)
LEMMA ClosingDayInterval ==
    ASSUME NEW t \in Nat, NEW day \in Int
    PROVE  (IF t % 3 < 2 THEN t \div 3 ELSE t \div 3 + 1) = day
              <=> 3 * (day - 1) + 2 <= t /\ t < 3 * (day - 1) + 2 + 3
OBVIOUS

(* The same for the instant an event is kept for.                           *)
LEMMA ClosesOn ==
    ASSUME EventsFit, NEW e \in Kept, NEW day \in Int
    PROVE  ClosingDay(e) = day <=> 3 * (day - 1) + DIGEST_DAY_START <= events[e]
                                   /\ events[e] < 3 * (day - 1) + DIGEST_DAY_START + 3
<1>1. events[e] \in Nat
  BY DEF EventsFit, Kept, NotYet, Deleted
<1> QED
  BY <1>1, ClosingDayInterval DEF ClosingDay, DayOf, DIGEST_DAY_START

(* The clock moves on: the task of a day is queued at its 03:01.            *)
LEMMA ClockKeepsDigests ==
    ASSUME DigestInv, AdvanceClock
    PROVE  DigestInv'
<1>1. /\ instant' = instant + 1 /\ instant \in Nat /\ instant' \in Nat
      /\ UNCHANGED <<events, digests, aborted, undelivered>> /\ DOMAIN runs' = Days
  BY DEF DigestInv, RunsFit, AdvanceClock
<1>2. \A day \in Days : day \in Nat
  BY SpottingAssumption DEF Days, DayOf
<1>3. ASSUME NEW day \in Days
      PROVE  runs'[day] = IF instant' = 3 * day + 2 THEN [stage |-> "queued"] ELSE runs[day]
  <2>1. instant' % 3 = 2 /\ day = instant' \div 3 <=> instant' = 3 * day + 2
    BY <1>1, <1>2
  <2> QED
    BY <2>1, <1>1, <1>2 DEF AdvanceClock, DayOf, DIGEST_DAY_START, DigestInv, RunsFit
<1>4. \A day \in Days : runs'[day].stage = runs[day].stage \/ runs[day].stage = "none"
  BY <1>1, <1>2, <1>3 DEF DigestInv, RunsFit, DIGEST_DAY_START
<1>5. RunsFit'
  <2> SUFFICES ASSUME NEW day \in Days
               PROVE  /\ runs'[day].stage \in {"none", "queued", "sending", "done"}
                      /\ runs'[day].stage = "none" <=> instant' < 3 * day + 2
                      /\ runs'[day].stage = "sending"
                           => runs'[day] \in [stage : {"sending"}, todo : SUBSET Channels, date : Int]
    BY <1>1 DEF RunsFit, DIGEST_DAY_START, Days
  <2>1. CASE instant' = 3 * day + 2
    BY <2>1, <1>1, <1>2, <1>3
  <2>2. CASE instant' # 3 * day + 2
    <3>1. instant' < 3 * day + 2 <=> instant < 3 * day + 2
      BY <2>2, <1>1, <1>2
    <3> QED
      BY <2>2, <3>1, <1>3 DEF DigestInv, RunsFit, DIGEST_DAY_START
  <2> QED
    BY <2>1, <2>2
<1>6. \A day \in Days : \/ runs'[day] = runs[day]
                        \/ runs'[day].stage = "queued" /\ runs[day].stage = "none"
  BY <1>1, <1>2, <1>3 DEF DigestInv, RunsFit, DIGEST_DAY_START
<1>7. DatesFit'
  BY <1>1, <1>6 DEF DigestInv, DatesFit, Days
<1>8. \A day \in Days : \A channel : Served(day, channel)' <=> Served(day, channel)
  BY <1>6 DEF Served
<1>9. Kept' = Kept /\ \A e \in Kept : ClosingDay(e)' = ClosingDay(e)
  BY <1>1 DEF Kept, ClosingDay
<1>10. EventsFit' /\ OneDigestADay'
  BY <1>1 DEF DigestInv, EventsFit, OneDigestADay
<1>11. DigestsFit'
  BY <1>1, <1>8, <1>9 DEF DigestInv, DigestsFit, Days
<1>12. ServedIsListed'
  BY <1>1, <1>8, <1>9 DEF DigestInv, ServedIsListed, Days
<1> QED
  BY <1>5, <1>7, <1>10, <1>11, <1>12 DEF DigestInv

(* A report belongs to a day whose digest is still to come.                 *)
LEMMA EventsKeepDigests ==
    ASSUME DigestInv, NEW e \in Spottings, AddEvent(e) \/ DeleteEvent(e)
    PROVE  DigestInv'
<1>1. UNCHANGED <<instant, runs, digests, aborted, undelivered>>
  BY DEF AddEvent, DeleteEvent
<1>2. EventsFit'
  BY DEF DigestInv, RunsFit, EventsFit, AddEvent, DeleteEvent, NotYet, Deleted
<1>3. RunsFit' /\ DatesFit' /\ OneDigestADay'
  BY <1>1 DEF DigestInv, RunsFit, DatesFit, OneDigestADay, Days
<1>4. \A day, channel : Served(day, channel)' <=> Served(day, channel)
  BY <1>1 DEF Served
<1>5. \A f \in Spottings \ {e} : events'[f] = events[f]
  BY DEF DigestInv, EventsFit, AddEvent, DeleteEvent
<1>6. \A f \in Spottings \ {e} : (f \in Kept' <=> f \in Kept) /\ ClosingDay(f)' = ClosingDay(f)
  BY <1>5 DEF Kept, ClosingDay
<1>7. CASE AddEvent(e)
  <2>1. events[e] = NotYet /\ events'[e] = instant /\ instant \in Nat
    BY <1>7 DEF AddEvent, DigestInv, RunsFit, EventsFit
  <2>2. \A d \in digests : e \notin d.listed
    BY <2>1 DEF DigestInv, DigestsFit
  <2>3. DigestsFit'
    <3> SUFFICES ASSUME NEW d \in digests, NEW f \in d.listed
                 PROVE  /\ events'[f] # NotYet
                        /\ (aborted = {} /\ f \in Kept') => ClosingDay(f)' = d.day
      BY <1>1, <1>4 DEF DigestInv, DigestsFit, Days
    <3>1. f \in Spottings \ {e}
      BY <2>2 DEF DigestInv, DigestsFit
    <3> QED
      BY <3>1, <1>5, <1>6 DEF DigestInv, DigestsFit
  <2>4. e \in Kept' /\ \A day \in Days : \A channel : ClosingDay(e)' = day => ~ Served(day, channel)
    <3>1. e \in Kept'
      BY <2>1 DEF Kept
    <3> SUFFICES ASSUME NEW day \in Days, ClosingDay(e)' = day
                 PROVE  runs[day].stage = "none"
      BY <3>1 DEF Served
    <3>2. day \in Int
      BY SpottingAssumption DEF Days, DayOf
    <3>3. (IF instant % 3 < 2 THEN instant \div 3 ELSE instant \div 3 + 1) = day
      BY <2>1 DEF ClosingDay, DayOf, DIGEST_DAY_START
    <3>4. instant < 3 * (day - 1) + 2 + 3
      BY <3>2, <3>3, <2>1, ClosingDayInterval
    <3>5. instant < 3 * day + 2
      BY <3>2, <3>4, <2>1
    <3> QED
      BY <3>5 DEF DigestInv, RunsFit, DIGEST_DAY_START
  <2>5. ServedIsListed'
    <3> SUFFICES ASSUME aborted = {}, NEW f \in Kept', NEW channel \in Channels,
                        ClosingDay(f)' \in Days, Served(ClosingDay(f)', channel)
                 PROVE  \/ <<ClosingDay(f)', channel>> \in undelivered
                        \/ \E d \in digests :
                              d.channel = channel /\ d.day = ClosingDay(f)' /\ f \in d.listed
      BY <1>1, <1>4 DEF ServedIsListed, Days, Served
    <3>1. f # e
      BY <2>4
    <3>2. f \in Kept /\ ClosingDay(f)' = ClosingDay(f)
      BY <3>1, <1>6 DEF Kept
    <3> QED
      BY <3>2 DEF DigestInv, ServedIsListed
  <2> QED
    BY <1>2, <1>3, <2>3, <2>5 DEF DigestInv
<1>8. CASE DeleteEvent(e)
  <2>1. events'[e] = Deleted
    BY <1>8 DEF DeleteEvent, DigestInv, EventsFit
  <2>2. e \notin Kept'
    BY <2>1 DEF Kept, Deleted
  <2>3. DigestsFit'
    <3> SUFFICES ASSUME NEW d \in digests, NEW f \in d.listed
                 PROVE  /\ events'[f] # NotYet
                        /\ (aborted = {} /\ f \in Kept') => ClosingDay(f)' = d.day
      BY <1>1, <1>4 DEF DigestInv, DigestsFit, Days
    <3>1. CASE f = e
      BY <3>1, <2>1, <2>2 DEF NotYet, Deleted
    <3>2. CASE f # e
      <4>1. f \in Spottings \ {e}
        BY <3>2 DEF DigestInv, DigestsFit
      <4> QED
        BY <4>1, <1>5, <1>6 DEF DigestInv, DigestsFit
    <3> QED
      BY <3>1, <3>2
  <2>4. ServedIsListed'
    <3> SUFFICES ASSUME aborted = {}, NEW f \in Kept', NEW channel \in Channels,
                        ClosingDay(f)' \in Days, Served(ClosingDay(f)', channel)
                 PROVE  \/ <<ClosingDay(f)', channel>> \in undelivered
                        \/ \E d \in digests :
                              d.channel = channel /\ d.day = ClosingDay(f)' /\ f \in d.listed
      BY <1>1, <1>4 DEF ServedIsListed, Days, Served
    <3>1. f \in Kept /\ ClosingDay(f)' = ClosingDay(f)
      BY <2>2, <1>6 DEF Kept
    <3> QED
      BY <3>1 DEF DigestInv, ServedIsListed
  <2> QED
    BY <1>2, <1>3, <2>3, <2>4 DEF DigestInv
<1> QED
  BY <1>7, <1>8

(* What a step of one day's task leaves alone.                              *)
LEMMA OtherDays ==
    ASSUME DigestInv, NEW day \in Days, NEW run, runs' = [runs EXCEPT ![day] = run],
           UNCHANGED <<instant, events>>, runs[day].stage # "none",
           run.stage \in {"sending", "done"},
           run.stage = "sending"
              => run \in [stage : {"sending"}, todo : SUBSET Channels, date : Int]
    PROVE  /\ RunsFit' /\ EventsFit' /\ Kept' = Kept
           /\ \A e : ClosingDay(e)' = ClosingDay(e)
           /\ runs'[day] = run
           /\ \A other \in Days \ {day} : \A channel : Served(other, channel)' <=> Served(other, channel)
           /\ \A other \in Days \ {day} : runs'[other] = runs[other]
<1>1. /\ DOMAIN runs' = Days /\ runs'[day] = run
      /\ \A other \in Days \ {day} : runs'[other] = runs[other]
  BY DEF DigestInv, RunsFit
<1>2. EventsFit' /\ Kept' = Kept /\ \A e : ClosingDay(e)' = ClosingDay(e)
  BY DEF DigestInv, EventsFit, Kept, ClosingDay
<1>3. instant >= 3 * day + DIGEST_DAY_START /\ instant \in Nat
  <2>1. day \in Nat
    BY SpottingAssumption DEF Days, DayOf
  <2> QED
    BY <2>1 DEF DigestInv, RunsFit, DIGEST_DAY_START
<1>4. RunsFit'
  <2> SUFFICES ASSUME NEW other \in Days
               PROVE  /\ runs'[other].stage \in {"none", "queued", "sending", "done"}
                      /\ runs'[other].stage = "none" <=> instant < 3 * other + DIGEST_DAY_START
                      /\ runs'[other].stage = "sending"
                           => runs'[other] \in [stage : {"sending"}, todo : SUBSET Channels, date : Int]
    BY <1>1, <1>3 DEF RunsFit, Days, DIGEST_DAY_START
  <2>1. CASE other = day
    BY <2>1, <1>1 DEF DigestInv, RunsFit
  <2>2. CASE other # day
    BY <2>2, <1>1 DEF DigestInv, RunsFit
  <2> QED
    BY <2>1, <2>2
<1> QED
  BY <1>1, <1>2, <1>4 DEF Served

(* The task starts on its day, or a day late at the most, and finds its     *)
(* date; otherwise the day is recorded as aborted.                          *)
LEMMA StartKeepsDigests ==
    ASSUME DigestInv, NEW day \in Days, StartReport(day)
    PROVE  DigestInv'
<1>1. PICK seen \in WorkerClocks :
         runs' = [runs EXCEPT ![day] = [stage |-> "sending", todo |-> Channels,
                                        date |-> effective_spotting_date(seen) - 1]]
  BY DEF StartReport
<1> DEFINE run == [stage |-> "sending", todo |-> Channels,
                   date |-> effective_spotting_date(seen) - 1]
<1>2. instant \in Nat /\ day \in Nat /\ seen \in Int /\ instant >= 3 * day + 2
  <2>1. instant \in Nat /\ day \in Nat
    BY SpottingAssumption DEF DigestInv, RunsFit, Days, DayOf
  <2>2. seen \in Int
    BY <2>1 DEF WorkerClocks
  <2>3. instant >= 3 * day + 2
    BY <2>1 DEF DigestInv, RunsFit, StartReport, DIGEST_DAY_START
  <2> QED
    BY <2>1, <2>2, <2>3
<1>3. effective_spotting_date(seen) - 1 \in Int
  BY <1>2 DEF effective_spotting_date, DayOf, CUTOFF
<1>4. /\ UNCHANGED <<instant, events, digests, undelivered>> /\ runs[day].stage = "queued"
      /\ aborted' = IF instant >= 3 * (day + 1) + CUTOFF THEN aborted \cup {day} ELSE aborted
  BY DEF StartReport
<1>5. run \in [stage : {"sending"}, todo : SUBSET Channels, date : Int]
  BY <1>3
<1>6. /\ RunsFit' /\ EventsFit' /\ Kept' = Kept /\ \A e : ClosingDay(e)' = ClosingDay(e)
      /\ runs'[day] = run
      /\ \A other \in Days \ {day} : \A channel : Served(other, channel)' <=> Served(other, channel)
      /\ \A other \in Days \ {day} : runs'[other] = runs[other]
  BY <1>1, <1>4, <1>5, OtherDays
<1>7. \A channel \in Channels : ~ Served(day, channel) /\ ~ Served(day, channel)'
  BY <1>4, <1>6 DEF Served
<1>8. aborted' = {} => aborted = {} /\ instant < 3 * (day + 1) + 1
  BY <1>2, <1>4 DEF CUTOFF
<1>9. DatesFit'
  <2> SUFFICES ASSUME aborted' = {}
               PROVE  effective_spotting_date(seen) = day
    BY <1>2, <1>6, <1>8 DEF DigestInv, DatesFit, Days
  <2>1. instant = 3 * day + 2 \/ instant = 3 * day + 3
    BY <1>2, <1>8
  <2>2. instant = 3 * day + 2 => seen \in {3 * day + 2, 3 * day + 1}
    BY <1>2 DEF WorkerClocks, DIGEST_DAY_START
  <2>3. instant = 3 * day + 3 => seen = 3 * day + 3
    BY <1>2 DEF WorkerClocks, DIGEST_DAY_START
  <2>4. seen \in {3 * day + 1, 3 * day + 2, 3 * day + 3}
    BY <2>1, <2>2, <2>3
  <2> QED
    BY <1>2, <2>4 DEF effective_spotting_date, DayOf, CUTOFF
<1>10. DigestsFit'
  <2> SUFFICES ASSUME NEW d \in digests
               PROVE  /\ d.channel \in Channels /\ d.day \in Days /\ d.listed \subseteq Spottings
                      /\ Served(d.day, d.channel)'
                      /\ \A e \in d.listed :
                            /\ events[e] # NotYet
                            /\ aborted' = {} /\ e \in Kept => ClosingDay(e) = d.day
    BY <1>4, <1>6 DEF DigestsFit, Days, Served
  <2>1. d.day # day
    BY <1>7 DEF DigestInv, DigestsFit
  <2> QED
    BY <2>1, <1>6, <1>8 DEF DigestInv, DigestsFit
<1>11. OneDigestADay'
  BY <1>4 DEF DigestInv, OneDigestADay
<1>12. ServedIsListed'
  <2> SUFFICES ASSUME aborted' = {}, NEW e \in Kept, NEW channel \in Channels,
                      ClosingDay(e) \in Days, Served(ClosingDay(e), channel)'
               PROVE  \/ <<ClosingDay(e), channel>> \in undelivered
                      \/ \E d \in digests :
                            d.channel = channel /\ d.day = ClosingDay(e) /\ e \in d.listed
    BY <1>4, <1>6 DEF ServedIsListed, Days, Served
  <2>1. ClosingDay(e) # day
    BY <1>4, <1>6, <1>7 DEF Served
  <2> QED
    BY <2>1, <1>6, <1>8 DEF DigestInv, ServedIsListed
<1> QED
  BY <1>6, <1>9, <1>10, <1>11, <1>12 DEF DigestInv

(* A channel's turn: its message lists what closes on the day, and arrives  *)
(* or has been given up.                                                    *)
LEMMA SendKeepsDigests ==
    ASSUME DigestInv, NEW day \in Days, NEW channel \in Channels,
           SendDigest(day, channel) \/ DeadLetterDigest(day, channel)
    PROVE  DigestInv'
<1> DEFINE sent == [channel |-> channel, day |-> day, listed |-> created_between(runs[day].date)]
           rest == runs[day].todo \ {channel}
           run == [runs[day] EXCEPT !.todo = rest,
                                    !.stage = IF runs[day].todo = {channel} THEN "done" ELSE @]
<1>1. /\ runs[day].stage = "sending" /\ channel \in runs[day].todo
      /\ UNCHANGED <<instant, events, aborted>>
      /\ digests \subseteq digests' /\ digests' \subseteq digests \cup {sent}
      /\ undelivered \subseteq undelivered'
      /\ sent \in digests' \/ <<day, channel>> \in undelivered'
  BY DEF SendDigest, DeadLetterDigest, NextChannel, DigestOf
<1>2. runs[day] \in [stage : {"sending"}, todo : SUBSET Channels, date : Int]
  BY <1>1 DEF DigestInv, RunsFit
<1>3. runs' = [runs EXCEPT ![day] = run]
  BY <1>2 DEF SendDigest, DeadLetterDigest, NextChannel, DigestInv, RunsFit
<1>4. /\ run.todo = rest /\ run.date = runs[day].date
      /\ run.stage = IF runs[day].todo = {channel} THEN "done" ELSE "sending"
      /\ run.stage = "sending"
            => run \in [stage : {"sending"}, todo : SUBSET Channels, date : Int]
  BY <1>1, <1>2
<1>5. /\ RunsFit' /\ EventsFit' /\ Kept' = Kept /\ \A e : ClosingDay(e)' = ClosingDay(e)
      /\ runs'[day] = run
      /\ \A other \in Days \ {day} : \A ch : Served(other, ch)' <=> Served(other, ch)
      /\ \A other \in Days \ {day} : runs'[other] = runs[other]
  <2> HIDE DEF run
  <2> QED
    BY <1>1, <1>3, <1>4, OtherDays
<1>6. \A ch \in Channels : Served(day, ch)' <=> ch = channel \/ Served(day, ch)
  BY <1>1, <1>2, <1>4, <1>5 DEF Served
<1>7. ~ Served(day, channel)
  BY <1>1 DEF Served
<1>8. DatesFit'
  BY <1>1, <1>4, <1>5 DEF DigestInv, DatesFit, Days
<1>9. sent.listed \subseteq Kept /\ day \in Int
  BY SpottingAssumption DEF created_between, Days, DayOf
<1>10. aborted = {} => \A e \in Kept : e \in sent.listed <=> ClosingDay(e) = day
  <2> SUFFICES ASSUME aborted = {}, NEW e \in Kept
               PROVE  e \in sent.listed <=> ClosingDay(e) = day
    OBVIOUS
  <2>1. runs[day].date = day - 1
    BY <1>1 DEF DigestInv, DatesFit
  <2>2. e \in sent.listed <=> 3 * (day - 1) + DIGEST_DAY_START <= events[e]
                              /\ events[e] < 3 * (day - 1) + DIGEST_DAY_START + 3
    BY <2>1, <1>9 DEF created_between, Kept, DigestInv, EventsFit, DIGEST_DAY_START, NotYet, Deleted
  <2> QED
    BY <2>2, <1>9, ClosesOn DEF DigestInv
<1>11. DigestsFit'
  <2> SUFFICES ASSUME NEW d \in digests'
               PROVE  /\ d.channel \in Channels /\ d.day \in Days /\ d.listed \subseteq Spottings
                      /\ Served(d.day, d.channel)'
                      /\ \A e \in d.listed :
                            /\ events[e] # NotYet
                            /\ aborted = {} /\ e \in Kept => ClosingDay(e) = d.day
    BY <1>1, <1>5 DEF DigestsFit, Days, Served
  <2>1. CASE d \in digests
    BY <2>1, <1>5, <1>6 DEF DigestInv, DigestsFit
  <2>2. CASE d = sent
    <3>1. \A e \in d.listed : e \in Spottings /\ events[e] # NotYet
      BY <2>2, <1>9 DEF Kept, NotYet
    <3> QED
      BY <2>2, <3>1, <1>6, <1>10
  <2> QED
    BY <2>1, <2>2, <1>1
<1>12. OneDigestADay'
  <2>1. \A d \in digests : ~ (d.channel = channel /\ d.day = day)
    BY <1>7 DEF DigestInv, DigestsFit
  <2> QED
    BY <2>1, <1>1 DEF DigestInv, OneDigestADay
<1>13. ServedIsListed'
  <2> SUFFICES ASSUME aborted = {}, NEW e \in Kept, NEW ch \in Channels,
                      ClosingDay(e) \in Days, Served(ClosingDay(e), ch)'
               PROVE  \/ <<ClosingDay(e), ch>> \in undelivered'
                      \/ \E d \in digests' :
                            d.channel = ch /\ d.day = ClosingDay(e) /\ e \in d.listed
    BY <1>1, <1>5 DEF ServedIsListed, Days, Served
  <2>1. CASE ClosingDay(e) = day /\ ch = channel
    BY <2>1, <1>1, <1>10
  <2>2. CASE ~ (ClosingDay(e) = day /\ ch = channel)
    <3>1. Served(ClosingDay(e), ch)
      BY <2>2, <1>5, <1>6
    <3> QED
      BY <3>1, <1>1 DEF DigestInv, ServedIsListed
  <2> QED
    BY <2>1, <2>2
<1> QED
  BY <1>5, <1>8, <1>11, <1>12, <1>13 DEF DigestInv

(* A lost task is recorded.                                                 *)
LEMMA LossKeepsDigests ==
    ASSUME DigestInv, NEW day \in Days, LoseReport(day)
    PROVE  DigestInv'
<1>1. /\ runs' = [runs EXCEPT ![day] = [stage |-> "done"]] /\ runs[day].stage # "none"
      /\ aborted' # {} /\ UNCHANGED <<instant, events, digests>>
  BY DEF LoseReport
<1> DEFINE run == [stage |-> "done"]
<1>2. run.stage = "done"
  OBVIOUS
<1>3. /\ RunsFit' /\ EventsFit' /\ Kept' = Kept
      /\ runs'[day] = run
      /\ \A other \in Days \ {day} : \A channel : Served(other, channel)' <=> Served(other, channel)
  BY <1>1, <1>2, OtherDays
<1>4. DatesFit' /\ ServedIsListed'
  BY <1>1 DEF DatesFit, ServedIsListed
<1>5. OneDigestADay'
  BY <1>1 DEF DigestInv, OneDigestADay
<1>6. \A channel : Served(day, channel)'
  BY <1>3 DEF Served
<1>7. DigestsFit'
  <2>1. \A d \in digests : Served(d.day, d.channel)'
    BY <1>3, <1>6 DEF DigestInv, DigestsFit
  <2> QED
    BY <2>1, <1>1 DEF DigestInv, DigestsFit, Days, Served
<1> QED
  BY <1>3, <1>4, <1>5, <1>7 DEF DigestInv

(* The invariant of the digests.                                            *)
THEOREM DigestInvariant == SpottingSpec => []DigestInv
<1>1. SpottingInit => DigestInv
  <2> SUFFICES ASSUME SpottingInit PROVE DigestInv
    OBVIOUS
  <2>1. \A day \in Days : day \in Nat
    BY SpottingAssumption DEF Days, DayOf
  <2>2. RunsFit
    BY <2>1 DEF SpottingInit, RunsFit, NoRun, DIGEST_DAY_START
  <2>3. Kept = {}
    BY DEF SpottingInit, Kept, NotYet
  <2> QED
    BY <2>2, <2>3 DEF DigestInv, SpottingInit, DatesFit, EventsFit, DigestsFit, OneDigestADay,
                      ServedIsListed, NoRun
<1>2. DigestInv /\ [SpottingNext]_spottingVars => DigestInv'
  <2> SUFFICES ASSUME DigestInv, [SpottingNext]_spottingVars PROVE DigestInv'
    OBVIOUS
  <2>1. CASE UNCHANGED spottingVars
    BY <2>1 DEF spottingVars, DigestInv, RunsFit, DatesFit, EventsFit, DigestsFit, OneDigestADay,
                ServedIsListed, Served, Kept, ClosingDay, Days
  <2>2. CASE AdvanceClock
    BY <2>2, ClockKeepsDigests
  <2>3. ASSUME NEW e \in Spottings, AddEvent(e) \/ DeleteEvent(e) PROVE DigestInv'
    BY <2>3, EventsKeepDigests
  <2>4. ASSUME NEW day \in Days, StartReport(day) PROVE DigestInv'
    BY <2>4, StartKeepsDigests
  <2>5. ASSUME NEW day \in Days, LoseReport(day) PROVE DigestInv'
    BY <2>5, LossKeepsDigests
  <2>6. ASSUME NEW day \in Days, NEW channel \in Channels,
               SendDigest(day, channel) \/ DeadLetterDigest(day, channel)
        PROVE  DigestInv'
    BY <2>6, SendKeepsDigests
  <2> QED
    BY <2>1, <2>2, <2>3, <2>4, <2>5, <2>6 DEF SpottingNext
<1> QED
  BY <1>1, <1>2, PTL DEF SpottingSpec

(* A set whose members are all equal has one at the most.                   *)
LEMMA AtMostOne ==
    ASSUME NEW S, \A x, y \in S : x = y
    PROVE  Cardinality(S) <= 1
<1>1. CASE S = {}
  BY <1>1, FS_EmptySet
<1>2. CASE S # {}
  <2>1. PICK x \in S : S = {x}
    BY <1>2
  <2> QED
    BY <2>1, FS_Singleton
<1> QED
  BY <1>1, <1>2

(* Whatever the clocks of the workers show, an event is in the digest of    *)
(* every channel once and in that of its own day, unless a task was lost or *)
(* a day late, or this very message was given up.                           *)
THEOREM EventsAreDigestedOnce == SpottingSpec => []EachEventInOneDigest
<1>1. DigestInv => EachEventInOneDigest
  <2> SUFFICES ASSUME DigestInv, NEW e \in Kept, NEW channel \in Channels, aborted = {}
               PROVE  LET listing == {d \in digests : d.channel = channel /\ e \in d.listed}
                          day == ClosingDay(e)
                      IN  /\ Cardinality(listing) <= 1
                          /\ \A d \in listing : d.day = day
                          /\ (day \in Days /\ runs[day].stage = "done"
                              /\ <<day, channel>> \notin undelivered) => listing # {}
    BY DEF EachEventInOneDigest
  <2> DEFINE listing == {d \in digests : d.channel = channel /\ e \in d.listed}
  <2>1. \A d \in listing : d.day = ClosingDay(e)
    BY DEF DigestInv, DigestsFit
  <2>2. \A c, d \in listing : c = d
    BY <2>1 DEF DigestInv, OneDigestADay
  <2>3. Cardinality(listing) <= 1
    BY <2>2, AtMostOne
  <2>4. ClosingDay(e) \in Days /\ runs[ClosingDay(e)].stage = "done"
        /\ <<ClosingDay(e), channel>> \notin undelivered => listing # {}
    BY DEF DigestInv, ServedIsListed, Served
  <2> QED
    BY <2>1, <2>3, <2>4
<1> QED
  BY <1>1, DigestInvariant, PTL

(* No event is of the future, and only days that exist lose their task or   *)
(* a message.                                                               *)
EventsInTime ==
    /\ instant <= MaxInstant /\ aborted \subseteq Days /\ undelivered \subseteq Days \X Channels
    /\ \A e \in Spottings : events[e] <= instant

LEMMA EventsStayInTime == DigestInv /\ EventsInTime /\ [SpottingNext]_spottingVars => EventsInTime'
<1> SUFFICES ASSUME DigestInv, EventsInTime, [SpottingNext]_spottingVars PROVE EventsInTime'
  OBVIOUS
<1>1. /\ instant \in Nat /\ MaxInstant \in Nat /\ DOMAIN events = Spottings
      /\ \A e \in Spottings : events[e] \in Int
  BY SpottingAssumption DEF DigestInv, RunsFit, EventsFit, NotYet, Deleted
<1>2. CASE AdvanceClock
  BY <1>1, <1>2 DEF AdvanceClock, EventsInTime, Days, DayOf
<1>3. ASSUME NEW e \in Spottings, AddEvent(e) \/ DeleteEvent(e)
      PROVE  EventsInTime'
  <2>1. PICK at : events' = [events EXCEPT ![e] = at] /\ at <= instant
    BY <1>1, <1>3 DEF AddEvent, DeleteEvent, Deleted
  <2> QED
    BY <1>1, <1>3, <2>1 DEF AddEvent, DeleteEvent, EventsInTime, Days
<1>4. ASSUME NEW day \in Days, StartReport(day) \/ LoseReport(day)
      PROVE  EventsInTime'
  BY <1>4 DEF StartReport, LoseReport, EventsInTime, Days
<1>6. ASSUME NEW day \in Days, NEW channel \in Channels,
             SendDigest(day, channel) \/ DeadLetterDigest(day, channel)
      PROVE  EventsInTime'
  BY <1>6 DEF SendDigest, DeadLetterDigest, NextChannel, EventsInTime, Days
<1>5. CASE UNCHANGED spottingVars
  BY <1>5 DEF spottingVars, EventsInTime, Days
<1> QED
  BY <1>2, <1>3, <1>4, <1>5, <1>6 DEF SpottingNext

(* Events, tasks and digests stay in their types, and no event is of the    *)
(* future (ServicesTypeOK's conjunct).                                      *)
THEOREM SpottingsTyped == SpottingSpec => []SpottingTypeOK
<1>1. SpottingInit => EventsInTime
  BY SpottingAssumption DEF SpottingInit, EventsInTime, NotYet
<1>2. DigestInv /\ EventsInTime => SpottingTypeOK
  <2> SUFFICES ASSUME DigestInv, EventsInTime PROVE SpottingTypeOK
    OBVIOUS
  <2>1. instant \in 0 .. MaxInstant
    BY SpottingAssumption DEF DigestInv, RunsFit, EventsInTime
  <2>2. \A e \in Spottings : events[e] \in Deleted .. instant
    BY <2>1 DEF DigestInv, EventsFit, EventsInTime, NotYet, Deleted
  <2>3. events \in [Spottings -> Deleted .. instant]
    BY <2>2 DEF DigestInv, EventsFit
  <2> QED
    BY <2>1, <2>3 DEF DigestInv, RunsFit, DigestsFit, EventsInTime, SpottingTypeOK
<1> QED
  BY <1>1, <1>2, EventsStayInTime, DigestInvariant, PTL DEF SpottingSpec

---------------------------------------------------------------------------
(* Push alerts.                                                             *)

SubRow == [user : Users \cup {Nobody}, lines : SUBSET Lines, modified : Int]
TaskRow ==
    [stage : {"queued", "claiming", "sending", "answered", "refused", "done"},
     wanted : SUBSET Lines, lines : SUBSET Lines,
     todo : SUBSET [token : Tokens, line : Lines], stale : SUBSET Tokens, tries : Nat]

PushTypes ==
    /\ subs \in [Tokens -> SubRow] /\ tasks \in [Incidents -> TaskRow]
    /\ heard \in [Tokens -> [Lines -> Nat]] /\ raised \in [Lines -> Nat]
    /\ cooldown \subseteq Lines

(* A line is held by one task, under its cooldown key.                      *)
LinesHeld ==
    /\ \A i \in Incidents :
          /\ tasks[i].lines \subseteq cooldown
          /\ tasks[i].stage \in {"queued", "done"} => tasks[i].lines = {}
    /\ \A i, j \in Incidents : i # j => tasks[i].lines \cap tasks[j].lines = {}

(* A token is on a task's list once.                                        *)
OnceOnList == \A i \in Incidents : \A r, s \in tasks[i].todo : r.token = s.token => r = s

(* The token may yet hear of the line: nobody has claimed the line, or who  *)
(* did has not sent it the message.                                         *)
MayHear(t, l) ==
    \/ l \notin cooldown
    \/ \E i \in Incidents :
          /\ l \in tasks[i].lines
          /\ tasks[i].stage = "claiming" \/ \E row \in tasks[i].todo : row.token = t

HeardFits ==
    \A t \in Tokens, l \in Lines :
        raised[l] < 2 => /\ heard[t][l] <= raised[l] + 1
                         /\ MayHear(t, l) => heard[t][l] <= raised[l]

PushInv == PushTypes /\ LinesHeld /\ OnceOnList /\ HeardFits

ChangesCount == changes \in Nat

(* The steps of the task of an incident, which registers nothing and        *)
(* deletes the rows of stale tokens only.                                   *)
TaskMoves(i) ==
    \/ Begins(i) \/ ReadTokens(i) \/ SendChunk(i) \/ DropStale(i) \/ Complete(i) \/ PushFails(i)
    \/ \E l \in Lines : ClaimLine(i, l)

LEMMA TasksLeaveUsers ==
    ASSUME NEW i \in Incidents, TaskMoves(i)
    PROVE  UNCHANGED <<browser, changes>> /\ (DropStale(i) \/ UNCHANGED subs)
<1>1. ASSUME NEW l \in Lines, ClaimLine(i, l)
      PROVE  UNCHANGED <<subs, browser, changes>>
  BY <1>1 DEF ClaimLine
<1>2. ASSUME SendChunk(i)
      PROVE  UNCHANGED <<subs, browser, changes>>
  BY <1>2 DEF SendChunk
<1>3. ASSUME DropStale(i)
      PROVE  UNCHANGED <<browser, changes>>
  BY <1>3 DEF DropStale
<1>4. ASSUME Begins(i) \/ ReadTokens(i) \/ Complete(i) \/ PushFails(i)
      PROVE  UNCHANGED <<subs, browser, changes>>
  BY <1>4 DEF Begins, ReadTokens, Complete, PushFails
<1> QED
  BY <1>1, <1>2, <1>3, <1>4 DEF TaskMoves

(* The other steps.                                                         *)
LEMMA StepsElsewhere ==
    ASSUME [PushNext]_pushVars
    PROVE  \/ \E i \in Incidents : TaskMoves(i)
           \/ /\ UNCHANGED <<browser, tasks, pushFaults>>
              /\ \/ /\ changes < MaxChanges /\ changes' = changes + 1 /\ UNCHANGED <<heard, raised>>
                    /\ \/ \E user \in Users, t \in Tokens, lines \in LineChoices : Register(user, t, lines)
                       \/ \E t \in Tokens : Unregister(t)
                 \/ UNCHANGED <<subs, changes, heard, raised>>
                 \/ UNCHANGED <<subs, changes>> /\ \E l \in Lines : Expire(l)
<1>1. CASE \E i \in Incidents : Notify(i) \/ PushFails(i)
  BY <1>1 DEF Notify, TaskMoves
<1>2. CASE \/ \E user \in Users, t \in Tokens, lines \in LineChoices : Register(user, t, lines)
           \/ \E t \in Tokens : Unregister(t)
  BY <1>2 DEF Register, Unregister
<1>3. CASE \/ \E i \in Incidents : Withdraw(i)
           \/ UNCHANGED pushVars
  BY <1>3 DEF Withdraw, pushVars
<1>4. CASE \E l \in Lines : Expire(l)
  BY <1>4 DEF Expire
<1> QED
  BY <1>1, <1>2, <1>3, <1>4 DEF PushNext

(* Registrations are counted.                                               *)
LEMMA ChangesCounted == PushSpec => []ChangesCount
<1>1. PushInit => ChangesCount
  BY DEF PushInit, ChangesCount
<1>2. ChangesCount /\ [PushNext]_pushVars => ChangesCount'
  BY StepsElsewhere, TasksLeaveUsers DEF ChangesCount
<1> QED
  BY <1>1, <1>2, PTL DEF PushSpec

(* A step in which nothing is heard and nothing raised.                     *)
LEMMA SilentStep ==
    ASSUME PushInv, UNCHANGED <<heard, raised>>, PushTypes', LinesHeld', OnceOnList',
           \A t \in Tokens, l \in Lines : MayHear(t, l)' => MayHear(t, l)
    PROVE  PushInv'
BY DEF PushInv, HeardFits

(* One task goes on; the others stay.                                       *)
LEMMA TaskReplaced ==
    ASSUME PushInv, NEW i \in Incidents, NEW task \in TaskRow,
           tasks' = [tasks EXCEPT ![i] = task]
    PROVE  /\ tasks' \in [Incidents -> TaskRow]
           /\ \A j \in Incidents : tasks'[j] = IF j = i THEN task ELSE tasks[j]
BY DEF PushInv, PushTypes

(* Registrations and withdrawals do not touch claims.                       *)
LEMMA RegistrationKeepsPush ==
    ASSUME PushInv, ChangesCount,
           \/ \E user \in Users, t \in Tokens, lines \in LineChoices : Register(user, t, lines)
           \/ \E t \in Tokens : Unregister(t)
           \/ \E i \in Incidents : Withdraw(i)
           \/ UNCHANGED pushVars
    PROVE  PushInv'
<1>1. UNCHANGED <<heard, raised, cooldown, tasks>>
  BY DEF Register, Unregister, Withdraw, pushVars
<1>2. subs' \in [Tokens -> SubRow]
  <2>1. NoSub \in SubRow
    BY DEF NoSub, SubRow
  <2>2. ASSUME NEW user \in Users, NEW t \in Tokens, NEW lines \in LineChoices,
               Register(user, t, lines)
        PROVE  subs' \in [Tokens -> SubRow]
    <3>1. changes' \in Int
      BY <2>2 DEF Register, ChangesCount
    <3>2. [user |-> user, lines |-> lines, modified |-> changes'] \in SubRow
      BY <3>1, PushAssumption DEF SubRow
    <3> QED
      BY <2>1, <2>2, <3>2 DEF Register, PushInv, PushTypes
  <2>3. ASSUME NEW t \in Tokens, Unregister(t)
        PROVE  subs' \in [Tokens -> SubRow]
    BY <2>1, <2>3 DEF Unregister, Drop, PushInv, PushTypes
  <2>4. ASSUME NEW i \in Incidents, Withdraw(i)
        PROVE  subs' \in [Tokens -> SubRow]
    BY <2>4 DEF Withdraw, PushInv, PushTypes
  <2>5. CASE UNCHANGED pushVars
    BY <2>5 DEF pushVars, PushInv, PushTypes
  <2> QED
    BY <2>2, <2>3, <2>4, <2>5
<1>3. PushTypes' /\ LinesHeld' /\ OnceOnList'
  BY <1>1, <1>2 DEF PushInv, PushTypes, LinesHeld, OnceOnList
<1>4. \A t \in Tokens, l \in Lines : MayHear(t, l)' => MayHear(t, l)
  BY <1>1 DEF MayHear
<1> QED
  BY <1>1, <1>3, <1>4, SilentStep

(* A task that waits or is over holds nothing.                              *)
LEMMA EmptyTasks ==
    ASSUME NEW n \in Nat
    PROVE  /\ Queued(n) \in TaskRow /\ Ended \in TaskRow
           /\ Queued(n).stage = "queued" /\ Ended.stage = "done"
           /\ Queued(n).lines = {} /\ Ended.lines = {}
           /\ Queued(n).todo = {} /\ Ended.todo = {}
           /\ Queued(n).stale = {} /\ Ended.stale = {}
           /\ Queued(n).tries = n /\ Ended.tries = 0
BY DEF Queued, Ended, TaskRow

(* A chunk that was answered changes its task's list alone.                 *)
LEMMA AnsweredTask ==
    ASSUME NEW task \in TaskRow, NEW stage_ \in {"answered", "refused"}, NEW sent, NEW stale \in SUBSET Tokens
    PROVE  LET next == Verdicts(task, stage_, sent, stale) IN
           /\ next \in TaskRow /\ next.stage = stage_ /\ next.lines = task.lines
           /\ next.todo = task.todo \ sent /\ next.stale = stale /\ next.tries = task.tries
BY DEF Verdicts, TaskRow

(* A run begins with the lines it wants and none claimed, or is over.       *)
LEMMA BeginKeepsPush ==
    ASSUME PushInv, NEW i \in Incidents, Begins(i)
    PROVE  PushInv'
<1> DEFINE begun == [[tasks[i] EXCEPT !.stage = "claiming"] EXCEPT !.wanted = Followed(i)]
<1>1. /\ tasks[i] \in TaskRow /\ tasks[i].stage = "queued" /\ tasks[i].lines = {}
      /\ UNCHANGED <<subs, heard, raised, cooldown>>
  BY DEF Begins, PushInv, PushTypes, LinesHeld
<1>2. Followed(i) \subseteq Lines
  BY PushAssumption DEF Followed
<1>3. begun \in TaskRow /\ begun.lines = {} /\ begun.todo = tasks[i].todo
  BY <1>1, <1>2 DEF TaskRow
<1>4. \/ tasks' = [tasks EXCEPT ![i] = begun]
      \/ tasks' = [tasks EXCEPT ![i] = Ended]
  BY <1>1 DEF Begins, PushInv, PushTypes, TaskRow
<1> HIDE DEF begun
<1>5. PICK task \in {begun, Ended} : tasks' = [tasks EXCEPT ![i] = task]
  BY <1>4
<1>6. task \in TaskRow /\ task.lines = {} /\ task.todo \in {{}, tasks[i].todo}
  BY <1>3, EmptyTasks
<1>7. /\ tasks' \in [Incidents -> TaskRow]
      /\ \A j \in Incidents : tasks'[j] = IF j = i THEN task ELSE tasks[j]
  BY <1>5, <1>6, TaskReplaced
<1>8. PushTypes' /\ OnceOnList' /\ LinesHeld'
  BY <1>1, <1>6, <1>7 DEF PushInv, PushTypes, OnceOnList, LinesHeld
<1>9. \A t \in Tokens, l \in Lines : MayHear(t, l)' => MayHear(t, l)
  BY <1>1, <1>6, <1>7 DEF MayHear
<1> QED
  BY <1>1, <1>8, <1>9, SilentStep

(* A line is claimed that nobody holds, or is left to who holds it.         *)
LEMMA ClaimKeepsPush ==
    ASSUME PushInv, NEW i \in Incidents, NEW k \in Lines, ClaimLine(i, k)
    PROVE  PushInv'
<1> DEFINE task == [[tasks[i] EXCEPT !.wanted = tasks[i].wanted \ {k}]
                       EXCEPT !.lines = tasks[i].lines \cup ({k} \ cooldown)]
<1>1. /\ tasks[i] \in TaskRow /\ tasks[i].stage = "claiming" /\ UNCHANGED <<subs, heard, raised>>
      /\ cooldown' = cooldown \cup {k}
  BY DEF ClaimLine, PushInv, PushTypes
<1>2. tasks' = [tasks EXCEPT ![i] = task]
  BY <1>1 DEF ClaimLine, PushInv, PushTypes, TaskRow
<1>3. /\ task \in TaskRow /\ task.lines = tasks[i].lines \cup ({k} \ cooldown)
      /\ task.todo = tasks[i].todo /\ task.stage = "claiming"
  BY <1>1 DEF TaskRow
<1> HIDE DEF task
<1>4. /\ tasks' \in [Incidents -> TaskRow]
      /\ \A j \in Incidents : tasks'[j] = IF j = i THEN task ELSE tasks[j]
  BY <1>2, <1>3, TaskReplaced
<1>5. PushTypes' /\ OnceOnList'
  BY <1>1, <1>3, <1>4 DEF PushInv, PushTypes, OnceOnList
<1>6. LinesHeld'
  BY <1>1, <1>3, <1>4 DEF PushInv, LinesHeld
<1>7. \A t \in Tokens, l \in Lines : MayHear(t, l)' => MayHear(t, l)
  BY <1>1, <1>3, <1>4 DEF MayHear
<1> QED
  BY <1>1, <1>5, <1>6, <1>7, SilentStep

(* distinct() leaves one row of each token.                                 *)
LEMMA DistinctRows ==
    ASSUME NEW claimed \in SUBSET Lines
    PROVE  /\ TokensOf(claimed) \subseteq [token : Tokens, line : Lines]
           /\ \A r, s \in TokensOf(claimed) : r.token = s.token => r = s
<1> DEFINE rowOf(t) == [token |-> t, line |-> CHOOSE l \in claimed : l \in subs[t].lines]
<1>1. ASSUME NEW r \in TokensOf(claimed)
      PROVE  r \in [token : Tokens, line : Lines] /\ r = rowOf(r.token)
  <2>1. PICK t \in Tokens : subs[t].lines \cap claimed # {} /\ r = rowOf(t)
    BY DEF TokensOf
  <2>2. (CHOOSE l \in claimed : l \in subs[t].lines) \in claimed
    BY <2>1
  <2>3. r.token = t
    BY <2>1
  <2> QED
    BY <2>1, <2>2, <2>3
<1> QED
  BY <1>1

(* The tokens are read once, after the claims.                              *)
LEMMA ReadKeepsPush ==
    ASSUME PushInv, NEW i \in Incidents, ReadTokens(i)
    PROVE  PushInv'
<1> DEFINE listed == [[tasks[i] EXCEPT !.stage = "sending"] EXCEPT !.todo = TokensOf(tasks[i].lines)]
<1>1. /\ tasks[i] \in TaskRow /\ tasks[i].stage = "claiming"
      /\ UNCHANGED <<subs, heard, raised, cooldown>> /\ tasks[i].lines \in SUBSET Lines
  BY DEF ReadTokens, PushInv, PushTypes, TaskRow
<1>2. \/ tasks' = [tasks EXCEPT ![i] = listed]
      \/ tasks' = [tasks EXCEPT ![i] = Ended] /\ tasks[i].lines = {}
  BY <1>1 DEF ReadTokens, PushInv, PushTypes, TaskRow
<1>3. /\ TokensOf(tasks[i].lines) \subseteq [token : Tokens, line : Lines]
      /\ \A r, s \in TokensOf(tasks[i].lines) : r.token = s.token => r = s
  BY <1>1, DistinctRows
<1>4. /\ listed \in TaskRow /\ listed.lines = tasks[i].lines /\ listed.todo = TokensOf(tasks[i].lines)
      /\ listed.stage = "sending"
  BY <1>1, <1>3 DEF TaskRow
<1> HIDE DEF listed
<1>5. PICK task \in {listed, Ended} :
          tasks' = [tasks EXCEPT ![i] = task] /\ (task = listed \/ tasks[i].lines = {})
  BY <1>2
<1>6. /\ task \in TaskRow /\ task.lines = tasks[i].lines
      /\ task.todo \in {{}, TokensOf(tasks[i].lines)} /\ task.stage \in {"sending", "done"}
      /\ task.stage = "done" => task.lines = {}
  BY <1>4, <1>5, EmptyTasks
<1>7. /\ tasks' \in [Incidents -> TaskRow]
      /\ \A j \in Incidents : tasks'[j] = IF j = i THEN task ELSE tasks[j]
  BY <1>5, <1>6, TaskReplaced
<1>8. PushTypes' /\ LinesHeld'
  BY <1>1, <1>6, <1>7 DEF PushInv, PushTypes, LinesHeld
<1>9. OnceOnList'
  BY <1>3, <1>6, <1>7 DEF PushInv, OnceOnList
<1>10. \A t \in Tokens, l \in Lines : MayHear(t, l)' => MayHear(t, l)
  BY <1>1, <1>6, <1>7 DEF MayHear
<1> QED
  BY <1>1, <1>8, <1>9, <1>10, SilentStep

(* Some tokens may have heard once of the lines of a task.                  *)
HeardMore(i, tokens) ==
    /\ heard' \in [Tokens -> [Lines -> Nat]]
    /\ \A t \in Tokens, l \in Lines :
          \/ heard'[t][l] = heard[t][l]
          \/ /\ t \in tokens /\ l \in tasks[i].lines /\ MayHear(t, l)
             /\ heard'[t][l] <= heard[t][l] + 1

(* A list names a token once, so a chunk of it sends it one message.        *)
LEMMA OneMessageEach ==
    ASSUME PushInv, NEW i \in Incidents, NEW sent \in SUBSET tasks[i].todo, NEW t
    PROVE  Cardinality({row \in sent : row.token = t}) \in {0, 1}
<1> DEFINE entries == {row \in sent : row.token = t}
<1>1. CASE entries = {}
  BY <1>1, FS_EmptySet
<1>2. ASSUME NEW row \in entries
      PROVE  Cardinality(entries) = 1
  <2>1. entries = {row}
    BY DEF PushInv, OnceOnList
  <2> QED
    BY <2>1, FS_Singleton
<1> QED
  BY <1>1, <1>2

(* A message more at most for a token of the chunk and a line of the task,  *)
(* which it had still to hear of.                                           *)
LEMMA HearOnce ==
    ASSUME PushInv, NEW i \in Incidents,
           NEW sent \in SUBSET tasks[i].todo, NEW delivered,
           delivered \subseteq {row.token : row \in sent}, Hear(i, sent, delivered)
    PROVE  HeardMore(i, delivered)
<1>1. ASSUME NEW t \in Tokens, NEW l \in Lines
      PROVE  /\ heard'[t][l] \in Nat
             /\ \/ heard'[t][l] = heard[t][l]
                \/ /\ t \in delivered /\ l \in tasks[i].lines /\ MayHear(t, l)
                   /\ heard'[t][l] <= heard[t][l] + 1
  <2>1. Cardinality({row \in sent : row.token = t}) \in {0, 1}
    BY OneMessageEach
  <2>2. heard[t][l] \in Nat
    BY DEF PushInv, PushTypes
  <2>3. heard'[t][l] = IF t \in delivered /\ l \in tasks[i].lines
                       THEN Upto(heard[t][l] + Cardinality({row \in sent : row.token = t}), 4)
                       ELSE heard[t][l]
    BY DEF Hear
  <2>4. (t \in delivered /\ l \in tasks[i].lines) => MayHear(t, l)
    BY DEF MayHear
  <2> QED
    BY <2>1, <2>2, <2>3, <2>4 DEF Upto
<1>2. heard' = [t \in Tokens |-> [l \in Lines |-> heard'[t][l]]]
  BY DEF Hear
<1>3. heard' \in [Tokens -> [Lines -> Nat]]
  BY <1>1, <1>2
<1> QED
  BY <1>1, <1>3 DEF HeardMore

(* A run that raises gives its lines back, and counts for what it may have  *)
(* sent.                                                                    *)
LEMMA RaiseKeepsPush ==
    ASSUME PushInv, NEW i \in Incidents, NEW again \in BOOLEAN, Raise(i, again),
           subs' \in [Tokens -> SubRow], NEW tokens, HeardMore(i, tokens)
    PROVE  PushInv'
<1> DEFINE task == IF again /\ tasks[i].tries < MAX_RETRIES_PUSH THEN Queued(tasks[i].tries + 1) ELSE Ended
<1>1. /\ tasks[i] \in TaskRow /\ tasks[i].lines \in SUBSET Lines /\ tasks[i].tries \in Nat
      /\ cooldown' = cooldown \ tasks[i].lines
  BY DEF Raise, PushInv, PushTypes, TaskRow
<1>2. tasks' = [tasks EXCEPT ![i] = task]
  BY DEF Raise, PushInv, PushTypes
<1>3. task \in TaskRow /\ task.lines = {} /\ task.todo = {} /\ task.stage \in {"queued", "done"}
  <2>1. tasks[i].tries + 1 \in Nat
    BY <1>1
  <2> QED
    BY <2>1, EmptyTasks
<1> HIDE DEF task
<1>4. /\ tasks' \in [Incidents -> TaskRow]
      /\ \A j \in Incidents : tasks'[j] = IF j = i THEN task ELSE tasks[j]
  BY <1>2, <1>3, TaskReplaced
<1>5. /\ raised' \in [Lines -> Nat]
      /\ \A l \in Lines : raised'[l] = IF l \in tasks[i].lines THEN Upto(raised[l] + 1, 2) ELSE raised[l]
  BY DEF Raise, PushInv, PushTypes, Upto
<1>6. PushTypes'
  BY <1>1, <1>4, <1>5 DEF PushInv, PushTypes, HeardMore
<1>7. LinesHeld'
  BY <1>1, <1>3, <1>4 DEF PushInv, LinesHeld
<1>8. OnceOnList'
  BY <1>3, <1>4 DEF PushInv, OnceOnList
<1>9. ASSUME NEW t \in Tokens, NEW l \in Lines, raised'[l] < 2
      PROVE  heard'[t][l] <= raised'[l] + 1 /\ (MayHear(t, l)' => heard'[t][l] <= raised'[l])
  <2>1. /\ heard[t][l] \in Nat /\ heard'[t][l] \in Nat /\ raised[l] \in Nat
        /\ \/ heard'[t][l] = heard[t][l]
           \/ l \in tasks[i].lines /\ MayHear(t, l) /\ heard'[t][l] <= heard[t][l] + 1
    BY DEF PushInv, PushTypes, HeardMore
  <2>2. CASE l \in tasks[i].lines
    <3>1. raised'[l] = raised[l] + 1 /\ raised[l] < 2
      BY <1>5, <1>9, <2>1, <2>2 DEF Upto
    <3>2. heard[t][l] <= raised[l] + 1 /\ (MayHear(t, l) => heard[t][l] <= raised[l])
      BY <3>1 DEF PushInv, HeardFits
    <3>3. heard'[t][l] <= raised[l] + 1
      BY <2>1, <3>2
    <3> QED
      BY <2>1, <3>1, <3>3
  <2>3. CASE l \notin tasks[i].lines
    <3>1. raised'[l] = raised[l] /\ heard'[t][l] = heard[t][l]
      BY <1>5, <2>1, <2>3
    <3>2. MayHear(t, l)' => MayHear(t, l)
      BY <1>1, <1>3, <1>4, <2>3 DEF MayHear
    <3> QED
      BY <1>9, <3>1, <3>2 DEF PushInv, HeardFits
  <2> QED
    BY <2>2, <2>3
<1>10. HeardFits'
  BY <1>9 DEF HeardFits
<1> QED
  BY <1>6, <1>7, <1>8, <1>10 DEF PushInv

(* A chunk: its tokens hear of the lines, and the list is shorter.          *)
LEMMA SendKeepsPush ==
    ASSUME PushInv, NEW i \in Incidents, SendChunk(i)
    PROVE  PushInv'
<1>1. PICK sent \in Chunks(tasks[i].todo), down \in SUBSET Tokens :
          LET chunk == {row.token : row \in sent}
              delivered == {t \in chunk : Verdict(i, t, down) = "delivered"}
          IN
          /\ down \subseteq chunk /\ (pushFaults < MaxPushFaults \/ down = {})
          /\ Hear(i, sent, delivered)
          /\ pushFaults' = IF down = {} THEN pushFaults ELSE pushFaults + 1
          /\ tasks' = [tasks EXCEPT ![i] =
                Verdicts(@, IF delivered = {} /\ down # {} THEN "refused" ELSE "answered",
                         sent, Stale(i, chunk, down))]
  BY DEF SendChunk
<1> DEFINE chunk == {row.token : row \in sent}
           delivered == {t \in chunk : Verdict(i, t, down) = "delivered"}
           verdict == IF delivered = {} /\ down # {} THEN "refused" ELSE "answered"
           stale == Stale(i, chunk, down)
           task == Verdicts(tasks[i], verdict, sent, stale)
<1>2. HeardMore(i, delivered) /\ delivered \subseteq chunk
  <2>1. /\ sent \in SUBSET tasks[i].todo
        /\ Hear(i, sent, delivered) /\ delivered \subseteq {row.token : row \in sent}
    BY <1>1 DEF Chunks
  <2> HIDE DEF delivered
  <2> QED
    BY <2>1, HearOnce DEF chunk
<1>3. /\ tasks[i] \in TaskRow /\ sent \in SUBSET tasks[i].todo /\ tasks[i].stage = "sending"
      /\ UNCHANGED <<subs, cooldown, raised>>
  BY DEF SendChunk, Chunks, PushInv, PushTypes
<1>4. stale \subseteq Tokens
  <2>1. chunk \subseteq Tokens
    BY <1>3 DEF TaskRow
  <2> QED
    BY <2>1 DEF Stale
<1>5. tasks' = [tasks EXCEPT ![i] = task]
  BY <1>1, <1>3 DEF PushInv, PushTypes, TaskRow
<1> HIDE DEF stale
<1>6. verdict \in {"refused", "answered"}
  OBVIOUS
<1> HIDE DEF verdict
<1>7. task \in TaskRow /\ task.lines = tasks[i].lines /\ task.todo = tasks[i].todo \ sent
      /\ task.stage = verdict
  BY <1>3, <1>4, <1>6, AnsweredTask
<1> HIDE DEF task
<1>8. /\ tasks' \in [Incidents -> TaskRow]
      /\ \A j \in Incidents : tasks'[j] = IF j = i THEN task ELSE tasks[j]
  BY <1>5, <1>7, TaskReplaced
<1>9. LinesHeld' /\ OnceOnList'
  BY <1>3, <1>6, <1>7, <1>8 DEF PushInv, LinesHeld, OnceOnList
<1>10. /\ heard' \in [Tokens -> [Lines -> Nat]]
       /\ \A t \in Tokens, l \in Lines :
             \/ heard'[t][l] = heard[t][l]
             \/ /\ t \in chunk /\ l \in tasks[i].lines /\ MayHear(t, l)
                /\ heard'[t][l] <= heard[t][l] + 1
  BY <1>2 DEF HeardMore
<1>11. PushTypes'
  BY <1>3, <1>8, <1>10 DEF PushInv, PushTypes
<1>12. ASSUME NEW t \in Tokens, NEW l \in Lines, raised[l] < 2
       PROVE  heard'[t][l] <= raised[l] + 1 /\ (MayHear(t, l)' => heard'[t][l] <= raised[l])
  <2>1. heard[t][l] \in Nat /\ raised[l] \in Nat /\ heard'[t][l] \in Nat
    BY <1>10 DEF PushInv, PushTypes
  <2>2. CASE t \in chunk /\ l \in tasks[i].lines
    <3>1. MayHear(t, l)
      BY <1>3, <2>2 DEF MayHear
    <3>2. heard'[t][l] <= raised[l] + 1
      BY <3>1, <1>10, <1>12, <2>1 DEF PushInv, HeardFits
    <3>3. ~ MayHear(t, l)'
      <4>1. l \in cooldown'
        BY <1>3, <2>2 DEF PushInv, LinesHeld
      <4>2. \A j \in Incidents : l \in tasks'[j].lines => j = i
        BY <1>7, <1>8, <2>2 DEF PushInv, LinesHeld
      <4>3. \A row \in tasks[i].todo \ sent : row.token # t
        BY <1>3, <2>2 DEF PushInv, OnceOnList
      <4> QED
        BY <4>1, <4>2, <4>3, <1>6, <1>7, <1>8 DEF MayHear
    <3> QED
      BY <3>2, <3>3
  <2>3. CASE ~ (t \in chunk /\ l \in tasks[i].lines)
    <3>1. heard'[t][l] = heard[t][l]
      BY <1>10, <2>3
    <3>2. MayHear(t, l)' => MayHear(t, l)
      BY <1>3, <1>6, <1>7, <1>8 DEF MayHear
    <3> QED
      BY <3>1, <3>2, <1>12 DEF PushInv, HeardFits
  <2> QED
    BY <2>2, <2>3
<1>13. HeardFits'
  BY <1>3, <1>12 DEF HeardFits
<1> QED
  BY <1>9, <1>11, <1>13 DEF PushInv

(* Rows are deleted, and the run goes on or raises.                         *)
LEMMA DropKeepsPush ==
    ASSUME PushInv, NEW i \in Incidents, DropStale(i)
    PROVE  PushInv'
<1> DEFINE task == [[tasks[i] EXCEPT !.stage = "sending"] EXCEPT !.stale = {}]
<1>1. tasks[i] \in TaskRow /\ tasks[i].stage \in {"answered", "refused"} /\ UNCHANGED heard
  BY DEF DropStale, PushInv, PushTypes
<1>2. subs' \in [Tokens -> SubRow]
  <2>1. NoSub \in SubRow
    BY DEF NoSub, SubRow
  <2> QED
    BY <2>1 DEF DropStale, Drop, PushInv, PushTypes
<1>3. HeardMore(i, {})
  BY <1>1 DEF HeardMore, PushInv, PushTypes
<1>4. CASE tasks[i].stage = "refused"
  BY <1>2, <1>3, <1>4, RaiseKeepsPush DEF DropStale
<1>5. CASE tasks[i].stage # "refused"
  <2>1. tasks' = [tasks EXCEPT ![i] = task] /\ UNCHANGED <<cooldown, raised>>
    BY <1>1, <1>5 DEF DropStale, PushInv, PushTypes, TaskRow
  <2>2. task \in TaskRow /\ task.lines = tasks[i].lines /\ task.todo = tasks[i].todo /\ task.stage = "sending"
    BY <1>1 DEF TaskRow
  <2> HIDE DEF task
  <2>3. /\ tasks' \in [Incidents -> TaskRow]
        /\ \A j \in Incidents : tasks'[j] = IF j = i THEN task ELSE tasks[j]
    BY <2>1, <2>2, TaskReplaced
  <2>4. PushTypes' /\ LinesHeld' /\ OnceOnList'
    BY <1>1, <1>2, <2>1, <2>2, <2>3 DEF PushInv, PushTypes, LinesHeld, OnceOnList
  <2>5. \A t \in Tokens, l \in Lines : MayHear(t, l)' => MayHear(t, l)
    BY <2>1, <2>2, <2>3 DEF MayHear
  <2> QED
    BY <1>1, <2>1, <2>4, <2>5, SilentStep
<1> QED
  BY <1>4, <1>5

(* A run that is done, or killed, leaves the keys behind.                   *)
LEMMA EndKeepsPush ==
    ASSUME PushInv, NEW i \in Incidents, NEW task \in TaskRow,
           tasks' = [tasks EXCEPT ![i] = task], task.stage = "done", task.lines = {}, task.todo = {},
           UNCHANGED <<subs, cooldown, raised>>, NEW tokens, HeardMore(i, tokens)
    PROVE  PushInv'
<1>1. /\ tasks' \in [Incidents -> TaskRow]
      /\ \A j \in Incidents : tasks'[j] = IF j = i THEN task ELSE tasks[j]
  BY TaskReplaced
<1>2. PushTypes' /\ LinesHeld' /\ OnceOnList'
  BY <1>1 DEF PushInv, PushTypes, LinesHeld, OnceOnList, HeardMore
<1>3. ASSUME NEW t \in Tokens, NEW l \in Lines, raised[l] < 2
      PROVE  heard'[t][l] <= raised[l] + 1 /\ (MayHear(t, l)' => heard'[t][l] <= raised[l])
  <2>1. /\ heard[t][l] \in Nat /\ heard'[t][l] \in Nat /\ raised[l] \in Nat
        /\ \/ heard'[t][l] = heard[t][l]
           \/ l \in tasks[i].lines /\ MayHear(t, l) /\ heard'[t][l] <= heard[t][l] + 1
    BY DEF PushInv, PushTypes, HeardMore
  <2>2. heard[t][l] <= raised[l] + 1 /\ (MayHear(t, l) => heard[t][l] <= raised[l])
    BY <1>3 DEF PushInv, HeardFits
  <2>3. heard'[t][l] <= raised[l] + 1
    BY <2>1, <2>2
  <2>4. CASE l \in tasks[i].lines
    <3>1. l \in cooldown' /\ \A j \in Incidents : l \notin tasks'[j].lines
      BY <1>1, <2>4 DEF PushInv, LinesHeld
    <3> QED
      BY <2>3, <3>1 DEF MayHear
  <2>5. CASE l \notin tasks[i].lines
    <3>1. MayHear(t, l)' => MayHear(t, l)
      BY <1>1, <2>5 DEF MayHear
    <3> QED
      BY <2>1, <2>2, <2>3, <2>5, <3>1
  <2> QED
    BY <2>4, <2>5
<1>4. HeardFits'
  BY <1>3 DEF HeardFits
<1> QED
  BY <1>2, <1>4 DEF PushInv

(* A run ends well, fails, or is killed.                                    *)
LEMMA StopKeepsPush ==
    ASSUME PushInv, NEW i \in Incidents, Complete(i) \/ PushFails(i)
    PROVE  PushInv'
<1>1. Ended \in TaskRow /\ Ended.stage = "done" /\ Ended.lines = {} /\ Ended.todo = {}
  BY EmptyTasks
<1>2. CASE Complete(i)
  <2>1. UNCHANGED <<subs, cooldown, heard, raised>> /\ tasks' = [tasks EXCEPT ![i] = Ended]
    BY <1>2 DEF Complete
  <2>2. HeardMore(i, {})
    BY <2>1 DEF HeardMore, PushInv, PushTypes
  <2> QED
    BY <1>1, <2>1, <2>2, EndKeepsPush
<1>3. CASE PushFails(i)
  <2>1. PICK sent \in {{}} \cup Chunks(tasks[i].todo) : Hear(i, sent, {row.token : row \in sent})
    BY <1>3 DEF PushFails
  <2> DEFINE tokens == {row.token : row \in sent}
  <2>2. HeardMore(i, tokens)
    <3>1. sent \in SUBSET tasks[i].todo
      BY DEF Chunks
    <3> QED
      BY <2>1, <3>1, HearOnce
  <2>3. UNCHANGED subs /\ subs' \in [Tokens -> SubRow]
    BY <1>3 DEF PushFails, PushInv, PushTypes
  <2> HIDE DEF tokens
  <2>4. ASSUME NEW again \in BOOLEAN, Raise(i, again)
        PROVE  PushInv'
    BY <2>2, <2>3, <2>4, RaiseKeepsPush
  <2>5. CASE tasks' = [tasks EXCEPT ![i] = Ended] /\ UNCHANGED <<cooldown, raised>>
    BY <1>1, <2>2, <2>3, <2>5, EndKeepsPush
  <2> QED
    BY <1>3, <2>4, <2>5 DEF PushFails
<1> QED
  BY <1>2, <1>3

(* The cooldown of a line nobody holds is over.                             *)
LEMMA ExpireKeepsPush ==
    ASSUME PushInv, NEW k \in Lines, Expire(k)
    PROVE  PushInv'
<1>1. /\ cooldown' = cooldown \ {k} /\ UNCHANGED <<subs, tasks>>
      /\ \A i \in Incidents : k \notin tasks[i].lines
  BY DEF Expire
<1>2. ASSUME NEW t \in Tokens, NEW l \in Lines
      PROVE  heard'[t][l] = IF l = k THEN 0 ELSE heard[t][l]
  BY DEF Expire, PushInv, PushTypes
<1>3. \A l \in Lines : raised'[l] = IF l = k THEN 0 ELSE raised[l]
  BY DEF Expire, PushInv, PushTypes
<1>4. PushTypes'
  BY <1>1 DEF Expire, PushInv, PushTypes
<1>5. LinesHeld' /\ OnceOnList'
  BY <1>1 DEF PushInv, LinesHeld, OnceOnList
<1>6. ASSUME NEW t \in Tokens, NEW l \in Lines, raised'[l] < 2
      PROVE  heard'[t][l] <= raised'[l] + 1 /\ (MayHear(t, l)' => heard'[t][l] <= raised'[l])
  <2>1. CASE l = k
    BY <1>2, <1>3, <2>1
  <2>2. CASE l # k
    <3>1. MayHear(t, l)' => MayHear(t, l)
      BY <1>1, <2>2 DEF MayHear
    <3> QED
      BY <1>2, <1>3, <1>6, <2>2, <3>1 DEF PushInv, HeardFits
  <2> QED
    BY <2>1, <2>2
<1>7. HeardFits'
  BY <1>6 DEF HeardFits
<1> QED
  BY <1>4, <1>5, <1>7 DEF PushInv

(* Who holds a line, who is still to be told, and what was heard.           *)
THEOREM PushInvariant == PushSpec => []PushInv
<1>1. PushInit => PushInv
  <2> SUFFICES ASSUME PushInit PROVE PushInv
    OBVIOUS
  <2>1. subs \in [Tokens -> SubRow]
    BY PushAssumption DEF PushInit, SubRow
  <2>2. PushTypes
    BY <2>1, EmptyTasks DEF PushInit, PushTypes
  <2>3. LinesHeld /\ OnceOnList /\ HeardFits
    BY EmptyTasks DEF PushInit, LinesHeld, OnceOnList, HeardFits
  <2> QED
    BY <2>2, <2>3 DEF PushInv
<1>2. PushInv /\ ChangesCount /\ [PushNext]_pushVars => PushInv'
  <2> SUFFICES ASSUME PushInv, ChangesCount, [PushNext]_pushVars PROVE PushInv'
    OBVIOUS
  <2>1. ASSUME NEW i \in Incidents, Notify(i) \/ PushFails(i)
        PROVE  PushInv'
    BY <2>1, BeginKeepsPush, ClaimKeepsPush, ReadKeepsPush, SendKeepsPush, DropKeepsPush,
       StopKeepsPush DEF Notify
  <2>2. ASSUME NEW l \in Lines, Expire(l)
        PROVE  PushInv'
    BY <2>2, ExpireKeepsPush
  <2>3. CASE \/ \E user \in Users, t \in Tokens, lines \in LineChoices : Register(user, t, lines)
             \/ \E t \in Tokens : Unregister(t)
             \/ \E i \in Incidents : Withdraw(i)
             \/ UNCHANGED pushVars
    BY <2>3, RegistrationKeepsPush
  <2> QED
    BY <2>1, <2>2, <2>3 DEF PushNext
<1> QED
  BY <1>1, <1>2, ChangesCounted, PTL DEF PushSpec

(* A browser hears of a line once in its cooldown, whatever tasks overlap,  *)
(* and once more for a run that failed: notify_major_incident.              *)
THEOREM AlertsAreRationed == PushSpec => []OneAlertPerCooldown
<1>1. PushInv => OneAlertPerCooldown
  <2> SUFFICES ASSUME PushInv, NEW t \in Tokens, NEW l \in Lines, raised[l] < 2
               PROVE  heard[t][l] <= 1 + raised[l]
    BY DEF OneAlertPerCooldown
  <2>1. heard[t][l] <= raised[l] + 1 /\ heard[t][l] \in Nat /\ raised[l] \in Nat
    BY DEF PushInv, PushTypes, HeardFits
  <2> QED
    BY <2>1
<1> QED
  BY <1>1, PushInvariant, PTL

(* A step of one task leaves the tasks of all other incidents alone.        *)
LEMMA TasksMoveAlone ==
    ASSUME PushInv, NEW i \in Incidents, TaskMoves(i)
    PROVE  \A j \in Incidents \ {i} : tasks'[j] = tasks[j]
<1>1. DOMAIN tasks = Incidents
  BY DEF PushInv, PushTypes
<1>2. ASSUME NEW task, tasks' = [tasks EXCEPT ![i] = task]
      PROVE  \A j \in Incidents \ {i} : tasks'[j] = tasks[j]
  BY <1>1, <1>2
<1>3. CASE SendChunk(i)
  <2>1. \E task : tasks' = [tasks EXCEPT ![i] = task]
    BY <1>3 DEF SendChunk
  <2> QED
    BY <1>2, <2>1
<1>4. CASE \E again : Raise(i, again)
  BY <1>1, <1>4 DEF Raise
<1>5. CASE Begins(i) \/ ReadTokens(i) \/ Complete(i) \/ \E l \in Lines : ClaimLine(i, l)
  BY <1>1, <1>5 DEF Begins, ReadTokens, Complete, ClaimLine
<1>6. CASE DropStale(i) \/ PushFails(i)
  BY <1>1, <1>4, <1>6 DEF DropStale, PushFails
<1> QED
  BY <1>3, <1>5, <1>6 DEF TaskMoves

(* The stale tokens of a task are those of its last chunk, and only a run   *)
(* that raises counts a try.                                                *)
LEMMA TaskAfter ==
    ASSUME PushInv, NEW i \in Incidents, TaskMoves(i)
    PROVE  /\ \/ tasks'[i].stale \in {{}, tasks[i].stale}
              \/ \E chunk, down : tasks'[i].stale = Stale(i, chunk, down)
           /\ \/ \E again : Raise(i, again)
              \/ UNCHANGED raised /\ tasks'[i].tries \in {0, tasks[i].tries}
<1>1. /\ tasks[i] \in TaskRow /\ tasks[i].tries + 1 \in Nat /\ DOMAIN tasks = Incidents
      /\ Ended.tries = 0 /\ Ended.stale = {}
  BY EmptyTasks DEF PushInv, PushTypes, TaskRow
<1>2. ASSUME NEW again, Raise(i, again)
      PROVE  tasks'[i].stale = {}
  BY <1>1, <1>2, EmptyTasks DEF Raise
<1>3. ASSUME SendChunk(i)
      PROVE  /\ UNCHANGED raised /\ tasks'[i].tries = tasks[i].tries
             /\ \E chunk, down : tasks'[i].stale = Stale(i, chunk, down)
  <2>1. PICK next, sent, chunk, down :
            tasks' = [tasks EXCEPT ![i] = Verdicts(@, next, sent, Stale(i, chunk, down))]
    BY <1>3 DEF SendChunk
  <2>2. tasks'[i] = Verdicts(tasks[i], next, sent, Stale(i, chunk, down))
    BY <1>1, <2>1
  <2>3. tasks'[i].stale = Stale(i, chunk, down) /\ tasks'[i].tries = tasks[i].tries
    BY <1>1, <2>2 DEF Verdicts, TaskRow
  <2> QED
    BY <1>3, <2>3 DEF SendChunk
<1>4. ASSUME NEW l \in Lines, ClaimLine(i, l)
      PROVE  UNCHANGED raised /\ tasks'[i].stale = tasks[i].stale /\ tasks'[i].tries = tasks[i].tries
  BY <1>1, <1>4 DEF ClaimLine, TaskRow
<1>5. ASSUME Begins(i)
      PROVE  UNCHANGED raised /\ tasks'[i].stale \in {{}, tasks[i].stale} /\ tasks'[i].tries \in {0, tasks[i].tries}
  BY <1>1, <1>5 DEF Begins, TaskRow
<1>6. ASSUME ReadTokens(i)
      PROVE  UNCHANGED raised /\ tasks'[i].stale \in {{}, tasks[i].stale} /\ tasks'[i].tries \in {0, tasks[i].tries}
  BY <1>1, <1>6 DEF ReadTokens, TaskRow
<1>7. ASSUME Complete(i)
      PROVE  UNCHANGED raised /\ tasks'[i].stale = {} /\ tasks'[i].tries = 0
  BY <1>1, <1>7 DEF Complete
<1>8. ASSUME DropStale(i)
      PROVE  \/ \E again : Raise(i, again)
             \/ UNCHANGED raised /\ tasks'[i].stale = {} /\ tasks'[i].tries = tasks[i].tries
  <2>1. CASE tasks[i].stage = "refused"
    BY <1>8, <2>1 DEF DropStale
  <2>2. CASE tasks[i].stage # "refused"
    BY <1>1, <1>8, <2>2 DEF DropStale, TaskRow
  <2> QED
    BY <2>1, <2>2
<1>9. ASSUME PushFails(i)
      PROVE  \/ \E again : Raise(i, again)
             \/ UNCHANGED raised /\ tasks'[i].stale = {} /\ tasks'[i].tries = 0
  BY <1>1, <1>9 DEF PushFails
<1> QED
  BY <1>2, <1>3, <1>4, <1>5, <1>6, <1>7, <1>8, <1>9 DEF TaskMoves

(* FCM calls a token stale of which it delivers nothing any more.           *)
LEMMA StaleAreDead ==
    ASSUME NEW i, NEW chunk, NEW down, NEW t \in Stale(i, chunk, down)
    PROVE  browser[t] # "delivered"
<1> SUFFICES ASSUME browser[t] = "delivered" PROVE FALSE
  OBVIOUS
<1>1. Verdict(i, t, down) # "unregistered"
  BY DEF Verdict
<1>2. PICK u \in chunk : Verdict(i, u, down) = "delivered" /\ Verdict(i, t, down) = "invalid"
  BY <1>1 DEF Stale
<1>3. incidents[i].valid
  BY <1>2 DEF Verdict
<1>4. Verdict(i, t, down) # "invalid"
  BY <1>3 DEF Verdict
<1> QED
  BY <1>2, <1>4

(* The tokens a task is about to delete are dead, and a dead browser stays  *)
(* dead, even if its token is registered again in between.                  *)
StaleTasks == \A i \in Incidents : \A t \in tasks[i].stale : browser[t] # "delivered"

LEMMA StaleStayDead == PushSpec => []StaleTasks
<1>1. PushInit => StaleTasks
  BY EmptyTasks DEF PushInit, StaleTasks
<1>2. PushInv /\ StaleTasks /\ [PushNext]_pushVars => StaleTasks'
  <2> SUFFICES ASSUME PushInv, StaleTasks, [PushNext]_pushVars PROVE StaleTasks'
    OBVIOUS
  <2>1. UNCHANGED browser
    BY StepsElsewhere, TasksLeaveUsers
  <2>2. CASE UNCHANGED tasks
    BY <2>1, <2>2 DEF StaleTasks
  <2>3. ASSUME NEW i \in Incidents, TaskMoves(i)
        PROVE  StaleTasks'
    <3>1. \A t \in tasks'[i].stale : browser[t] # "delivered"
      BY <2>3, TaskAfter, StaleAreDead DEF StaleTasks
    <3> QED
      BY <2>1, <2>3, <3>1, TasksMoveAlone DEF StaleTasks
  <2> QED
    BY <2>2, <2>3, StepsElsewhere
<1> QED
  BY <1>1, <1>2, PushInvariant, PTL DEF PushSpec

(* A refused payload or an outage costs no working browser its token, even  *)
(* if users register it while it waits to be deleted: the deletion of stale *)
(* tokens in notify_major_incident.                                         *)
THEOREM WorkingTokensStay == PushSpec => LiveTokensSurvive
<1>1. StaleTasks /\ ChangesCount /\ [PushNext]_pushVars =>
        [\A t \in Registered :
            (browser[t] = "delivered" /\ subs'[t] = NoSub) => changes' # changes]_pushVars
  <2> SUFFICES ASSUME StaleTasks, ChangesCount, PushNext, NEW t \in Registered,
                      browser[t] = "delivered", subs'[t] = NoSub
               PROVE  changes' # changes
    OBVIOUS
  <2>1. t \in Tokens /\ subs' # subs
    BY DEF Registered, NoSub
  <2>2. (\E i \in Incidents : DropStale(i)) \/ changes' = changes + 1
    BY <2>1, StepsElsewhere, TasksLeaveUsers
  <2>3. ASSUME NEW i \in Incidents, DropStale(i)
        PROVE  FALSE
    <3>1. t \in tasks[i].stale
      BY <2>1, <2>3 DEF DropStale, Drop, Registered, NoSub
    <3> QED
      BY <3>1 DEF StaleTasks
  <2> QED
    BY <2>2, <2>3 DEF ChangesCount
<1> QED
  BY <1>1, StaleStayDead, ChangesCounted, PTL DEF PushSpec, LiveTokensSurvive

(* Registrations have a time of their own, none in the future.              *)
TimesApart ==
    /\ \A t \in Tokens : subs[t].modified <= changes
    /\ \A t, u \in Registered : subs[t].modified = subs[u].modified => t = u

CountsFit ==
    /\ changes <= MaxChanges /\ pushFaults \in 0 .. MaxPushFaults
    /\ \A i \in Incidents : tasks[i].tries <= MAX_RETRIES_PUSH
    /\ \A t \in Tokens, l \in Lines : heard[t][l] <= 4
    /\ \A l \in Lines : raised[l] <= 2

LEMMA TimesStayApart ==
    ASSUME PushInv, PushInv', ChangesCount, TimesApart, [PushNext]_pushVars
    PROVE  TimesApart'
<1>1. \A t \in Tokens : subs[t].modified \in Int /\ subs'[t].modified \in Int
  BY DEF PushInv, PushTypes, SubRow
<1>2. ASSUME changes' >= changes, \A t \in Tokens : subs'[t] = subs[t] \/ subs'[t] = NoSub, changes' \in Nat
      PROVE  TimesApart'
  <2>1. ASSUME NEW t \in Tokens
        PROVE  /\ subs'[t].modified <= changes'
               /\ subs'[t].user # Nobody => subs'[t] = subs[t]
    BY <1>1, <1>2 DEF TimesApart, ChangesCount, NoSub
  <2> QED
    BY <2>1 DEF TimesApart, Registered
<1>3. ASSUME NEW tokens, Drop(tokens), changes' >= changes, changes' \in Nat
      PROVE  TimesApart'
  BY <1>2, <1>3 DEF Drop
<1>4. ASSUME NEW user \in Users, NEW token \in Tokens, NEW lines \in LineChoices, Register(user, token, lines)
      PROVE  TimesApart'
  <2>1. changes' = changes + 1 /\ changes \in Nat
    BY <1>4 DEF Register, ChangesCount
  <2>2. /\ subs'[token].modified = changes'
        /\ \A t \in Tokens \ {token} : subs'[t] = subs[t] \/ subs'[t] = NoSub
    BY <1>4 DEF Register
  <2>3. ASSUME NEW t \in Tokens \ {token}
        PROVE  /\ subs'[t].modified <= changes /\ subs'[t].modified # subs'[token].modified
               /\ subs'[t].user # Nobody => subs'[t] = subs[t]
    BY <1>1, <2>1, <2>2 DEF TimesApart, NoSub
  <2>4. \A t \in Tokens : subs'[t].modified <= changes'
    BY <1>1, <2>1, <2>2, <2>3
  <2>5. ASSUME NEW t \in Registered', NEW u \in Registered', subs'[t].modified = subs'[u].modified
        PROVE  t = u
    <3>1. t \in Tokens /\ u \in Tokens /\ subs'[t].user # Nobody /\ subs'[u].user # Nobody
      BY DEF Registered
    <3>2. CASE t = token \/ u = token
      BY <2>3, <2>5, <3>1, <3>2
    <3>3. CASE t # token /\ u # token
      BY <2>3, <2>5, <3>1, <3>3 DEF TimesApart, Registered
    <3> QED
      BY <3>2, <3>3
  <2> QED
    BY <2>4, <2>5 DEF TimesApart
<1>5. ASSUME NEW t \in Tokens, Unregister(t)
      PROVE  TimesApart'
  BY <1>3, <1>5 DEF Unregister, ChangesCount
<1>6. ASSUME NEW i \in Incidents, DropStale(i)
      PROVE  TimesApart'
  BY <1>3, <1>6 DEF DropStale, ChangesCount
<1>7. CASE UNCHANGED <<subs, changes>>
  BY <1>7 DEF TimesApart, Registered
<1> QED
  BY <1>4, <1>5, <1>6, <1>7, StepsElsewhere, TasksLeaveUsers

LEMMA CountsStayFit ==
    ASSUME PushInv, PushInv', ChangesCount, CountsFit, [PushNext]_pushVars
    PROVE  CountsFit'
<1>1. /\ \A i \in Incidents : tasks[i] \in TaskRow /\ tasks'[i] \in TaskRow
      /\ \A t \in Tokens, l \in Lines : heard[t][l] \in Nat /\ heard'[t][l] \in Nat
      /\ \A l \in Lines : raised[l] \in Nat /\ raised'[l] \in Nat
      /\ DOMAIN tasks = Incidents /\ DOMAIN raised = Lines /\ DOMAIN heard = Tokens
      /\ \A t \in Tokens : DOMAIN heard[t] = Lines
  BY DEF PushInv, PushTypes
<1>2. /\ MaxChanges \in Nat /\ MaxPushFaults \in Nat /\ MAX_RETRIES_PUSH \in Nat
      /\ \A i \in Incidents : tasks[i].tries \in Nat /\ tasks'[i].tries \in Nat
  BY <1>1, PushAssumption DEF TaskRow
<1>3. changes' <= MaxChanges /\ pushFaults' \in 0 .. MaxPushFaults
  <2>1. changes \in Nat /\ changes <= MaxChanges /\ pushFaults \in 0 .. MaxPushFaults
    BY DEF CountsFit, ChangesCount
  <2>2. changes' = changes \/ (changes < MaxChanges /\ changes' = changes + 1)
    BY StepsElsewhere, TasksLeaveUsers
  <2>3. \/ pushFaults' = pushFaults
        \/ pushFaults < MaxPushFaults /\ pushFaults' = pushFaults + 1
    <3>1. ASSUME NEW i \in Incidents, SendChunk(i)
          PROVE  \/ pushFaults' = pushFaults
                 \/ pushFaults < MaxPushFaults /\ pushFaults' = pushFaults + 1
      <4>1. PICK down : /\ pushFaults < MaxPushFaults \/ down = {}
                        /\ pushFaults' = IF down = {} THEN pushFaults ELSE pushFaults + 1
        BY <3>1 DEF SendChunk
      <4> QED
        BY <4>1
    <3> QED
      BY <3>1 DEF PushNext, Notify, Register, Unregister, Begins, ClaimLine, ReadTokens, DropStale,
                  Complete, PushFails, Withdraw, Expire, pushVars
  <2> QED
    BY <1>2, <2>1, <2>2, <2>3
<1>4. ASSUME NEW i \in Incidents, NEW again, Raise(i, again)
      PROVE  /\ \A j \in Incidents : tasks'[j].tries <= MAX_RETRIES_PUSH
             /\ \A l \in Lines : raised'[l] <= 2
  <2>1. tasks'[i].tries <= MAX_RETRIES_PUSH
    <3>1. tasks'[i].tries = IF again /\ tasks[i].tries < MAX_RETRIES_PUSH THEN tasks[i].tries + 1 ELSE 0
      <4>1. tasks[i].tries + 1 \in Nat
        BY <1>2
      <4> QED
        BY <1>1, <1>4, <4>1, EmptyTasks DEF Raise
    <3> QED
      BY <1>2, <3>1
  <2>2. \A j \in Incidents \ {i} : tasks'[j] = tasks[j]
    BY <1>1, <1>4 DEF Raise
  <2>3. \A l \in Lines : raised'[l] = Upto(raised[l] + 1, 2) \/ raised'[l] = raised[l]
    BY <1>4 DEF Raise
  <2> QED
    BY <1>1, <1>2, <2>1, <2>2, <2>3 DEF CountsFit, Upto
<1>5. ASSUME NEW i \in Incidents, NEW sent, NEW delivered, Hear(i, sent, delivered)
      PROVE  \A t \in Tokens, l \in Lines : heard'[t][l] <= 4
  <2>1. ASSUME NEW t \in Tokens, NEW l \in Lines
        PROVE  heard'[t][l] <= 4
    <3>1. PICK n : heard'[t][l] = Upto(n, 4) \/ heard'[t][l] = heard[t][l]
      BY <1>5 DEF Hear
    <3> QED
      BY <1>1, <3>1 DEF CountsFit, Upto
  <2> QED
    BY <2>1
<1>6. \A t \in Tokens, l \in Lines : heard'[t][l] <= 4
  <2>1. CASE UNCHANGED heard
    BY <2>1 DEF CountsFit
  <2>2. ASSUME NEW i \in Incidents, SendChunk(i) \/ PushFails(i)
        PROVE  \E sent, delivered : Hear(i, sent, delivered)
    BY <2>2 DEF SendChunk, PushFails
  <2>3. ASSUME NEW l \in Lines, Expire(l)
        PROVE  \A t \in Tokens, k \in Lines : heard'[t][k] <= 4
    BY <1>1, <2>3 DEF Expire, CountsFit
  <2>4. CASE \/ \E user \in Users, t \in Tokens, lines \in LineChoices : Register(user, t, lines)
             \/ \E t \in Tokens : Unregister(t)
             \/ \E i \in Incidents :
                   \/ Begins(i) \/ ReadTokens(i) \/ DropStale(i) \/ Complete(i) \/ Withdraw(i)
                   \/ \E l \in Lines : ClaimLine(i, l)
             \/ UNCHANGED pushVars
    BY <2>1, <2>4 DEF Register, Unregister, Begins, ClaimLine, ReadTokens, DropStale, Complete, Withdraw, pushVars
  <2> QED
    BY <1>5, <2>2, <2>3, <2>4 DEF PushNext, Notify
<1>7. /\ \A j \in Incidents : tasks'[j].tries <= MAX_RETRIES_PUSH
      /\ \A l \in Lines : raised'[l] <= 2
  <2>1. CASE UNCHANGED <<tasks, raised>>
    BY <2>1 DEF CountsFit
  <2>2. ASSUME NEW i \in Incidents, tasks'[i].tries \in {0, tasks[i].tries}, UNCHANGED raised,
               \A j \in Incidents \ {i} : tasks'[j] = tasks[j]
        PROVE  /\ \A j \in Incidents : tasks'[j].tries <= MAX_RETRIES_PUSH
               /\ \A l \in Lines : raised'[l] <= 2
    BY <1>2, <2>2 DEF CountsFit
  <2>3. ASSUME NEW l \in Lines, Expire(l)
        PROVE  UNCHANGED tasks /\ \A k \in Lines : raised'[k] <= 2
    BY <1>1, <2>3 DEF Expire, CountsFit
  <2>4. ASSUME NEW i \in Incidents, TaskMoves(i)
        PROVE  /\ \A j \in Incidents : tasks'[j].tries <= MAX_RETRIES_PUSH
               /\ \A l \in Lines : raised'[l] <= 2
    BY <1>4, <2>2, <2>4, TaskAfter, TasksMoveAlone
  <2>5. CASE UNCHANGED tasks /\ \A k \in Lines : raised'[k] <= 2
    BY <2>5 DEF CountsFit
  <2> QED
    BY <2>1, <2>3, <2>4, <2>5, StepsElsewhere
<1> QED
  BY <1>3, <1>6, <1>7 DEF CountsFit

(* Subscriptions, claims and tasks stay in their types: a task holds no line*)
(* without its cooldown key, and no two registrations are of one time, so   *)
(* that the eviction knows which are the last (ServicesTypeOK's conjunct).  *)
THEOREM PushTyped == PushSpec => []PushTypeOK
<1>1. PushInit => TimesApart /\ CountsFit
  <2> SUFFICES ASSUME PushInit PROVE TimesApart /\ CountsFit
    OBVIOUS
  <2>1. TimesApart
    BY PushAssumption DEF PushInit, TimesApart, Registered
  <2>2. /\ MaxChanges \in Nat /\ MaxPushFaults \in Nat /\ MAX_RETRIES_PUSH \in Nat
    BY PushAssumption
  <2> QED
    BY <2>1, <2>2, EmptyTasks DEF PushInit, CountsFit
<1>2. /\ PushInv /\ PushInv' /\ ChangesCount /\ TimesApart /\ CountsFit /\ [PushNext]_pushVars
      => TimesApart' /\ CountsFit'
  BY TimesStayApart, CountsStayFit
<1>3. PushInv /\ ChangesCount /\ TimesApart /\ CountsFit => PushTypeOK
  <2> SUFFICES ASSUME PushInv, ChangesCount, TimesApart, CountsFit PROVE PushTypeOK
    OBVIOUS
  <2>1. \A i \in Incidents :
          /\ tasks[i].stage \in {"queued", "claiming", "sending", "answered", "refused", "done"}
          /\ tasks[i].wanted \subseteq Lines /\ tasks[i].stale \subseteq Tokens
          /\ tasks[i].lines \subseteq cooldown /\ tasks[i].todo \subseteq [token : Tokens, line : Lines]
          /\ tasks[i].tries \in 0 .. MAX_RETRIES_PUSH
    BY PushAssumption DEF PushInv, PushTypes, LinesHeld, TaskRow, CountsFit
  <2>2. heard \in [Tokens -> [Lines -> 0 .. 4]]
    <3>1. \A t \in Tokens, l \in Lines : heard[t][l] \in Nat /\ heard[t][l] <= 4
      BY DEF PushInv, PushTypes, CountsFit
    <3>2. \A t \in Tokens, l \in Lines : heard[t][l] \in 0 .. 4
      BY <3>1
    <3>3. \A t \in Tokens : heard[t] \in [Lines -> 0 .. 4]
      BY <3>2 DEF PushInv, PushTypes
    <3> QED
      BY <3>3 DEF PushInv, PushTypes
  <2>3. raised \in [Lines -> 0 .. 2]
    <3>1. \A l \in Lines : raised[l] \in Nat /\ raised[l] <= 2
      BY DEF PushInv, PushTypes, CountsFit
    <3>2. \A l \in Lines : raised[l] \in 0 .. 2
      BY <3>1
    <3> QED
      BY <3>2 DEF PushInv, PushTypes
  <2>4. changes \in 0 .. MaxChanges /\ pushFaults \in 0 .. MaxPushFaults
    BY PushAssumption DEF ChangesCount, CountsFit
  <2> QED
    BY <2>1, <2>2, <2>3, <2>4 DEF PushTypeOK, PushInv, PushTypes, SubRow, TimesApart
<1> QED
  BY <1>1, <1>2, <1>3, PushInvariant, ChangesCounted, PTL DEF PushSpec

---------------------------------------------------------------------------
(* The import of bus traces.                                                *)

(* A bounded set of naturals that is not empty has a greatest element.      *)
LEMMA GreatestNatural ==
    ASSUME NEW T \in SUBSET Nat, T # {}, NEW b \in Nat, \A t \in T : t <= b
    PROVE  \E m \in T : \A n \in T : n <= m
<1> DEFINE Below == {x \in Nat : b - x \in T}
<1>1. PICK t \in T : TRUE
  OBVIOUS
<1>2. b - t \in Nat /\ b - (b - t) = t
  BY <1>1
<1>3. Below \in SUBSET Nat /\ Below # {}
  BY <1>1, <1>2
<1>4. PICK x \in Below : \A y \in Below : x <= y
  BY <1>3, LeastNatural
<1>5. ASSUME NEW n \in T
      PROVE  n <= b - x
  <2>1. b - n \in Nat /\ b - (b - n) = n
    OBVIOUS
  <2>2. b - n \in Below
    BY <2>1
  <2> QED
    BY <1>4, <2>1, <2>2
<1> QED
  BY <1>4, <1>5

(* So the values a sequence of naturals takes have a bound.                 *)
LEMMA ValuesBounded ==
    ASSUME NEW N \in Nat, NEW d, \A i \in 1 .. N : d[i] \in Nat
    PROVE  \E b \in Nat : \A i \in 1 .. N : d[i] <= b
<1> DEFINE Bounds(k) == \E b \in Nat : \A i \in 1 .. k : d[i] <= b
           Unbounded == {k \in 0 .. N : ~ Bounds(k)}
<1> SUFFICES ASSUME ~ Bounds(N) PROVE FALSE
  OBVIOUS
<1>1. Unbounded \in SUBSET Nat /\ Unbounded # {}
  OBVIOUS
<1>2. PICK k \in Unbounded : \A j \in Unbounded : k <= j
  BY <1>1, LeastNatural
<1>3. k # 0
  <2>1. \A i \in 1 .. 0 : d[i] <= 0
    OBVIOUS
  <2>2. Bounds(0)
    BY <2>1
  <2> QED
    BY <1>2, <2>2
<1>4. k \in 0 .. N /\ k - 1 \in 0 .. N /\ ~ (k <= k - 1)
  BY <1>2, <1>3
<1>5. PICK b \in Nat : \A i \in 1 .. k - 1 : d[i] <= b
  <2> HIDE DEF Bounds
  <2>1. Bounds(k - 1)
    BY <1>2, <1>4
  <2> QED
    BY <2>1 DEF Bounds
<1>6. d[k] \in Nat
  BY <1>2, <1>3
<1>7. PICK c \in Nat : b <= c /\ d[k] <= c
  <2> DEFINE c == IF b <= d[k] THEN d[k] ELSE b
  <2>1. c \in Nat /\ b <= c /\ d[k] <= c
    BY <1>5, <1>6
  <2> QED
    BY <2>1
<1>8. \A i \in 1 .. k : i = k \/ i \in 1 .. k - 1
  BY <1>2
<1>9. ASSUME NEW i \in 1 .. k
      PROVE  d[i] <= c
  <2>1. CASE i = k
    BY <1>7, <2>1
  <2>2. CASE i \in 1 .. k - 1
    <3>1. d[i] \in Nat
      BY <1>2
    <3>2. d[i] <= b
      BY <1>5, <2>2
    <3> QED
      BY <1>5, <1>7, <3>1, <3>2
  <2> QED
    BY <1>8, <2>1, <2>2
<1>10. Bounds(k)
  BY <1>7, <1>9
<1> QED
  BY <1>2, <1>10

(* A sequence of the elements of a finite set has every one of them.        *)
LEMMA OrderingsAreComplete ==
    ASSUME NEW S, IsFiniteSet(S), NEW o \in SetToSeqs(S)
    PROVE  /\ Cardinality(S) \in Nat /\ o \in [1 .. Cardinality(S) -> S]
           /\ \A x \in S : \E i \in DOMAIN o : o[i] = x
<1> DEFINE N == Cardinality(S)
<1>1. N \in Nat
  BY FS_CardinalityType
<1>2. o \in [1 .. N -> S] /\ \A i, j \in 1 .. N : i # j => o[i] # o[j]
  BY DEF SetToSeqs
<1>3. o \in Injection(1 .. N, S)
  BY <1>2 DEF Injection, IsInjective
<1>4. Cardinality(1 .. N) = N
  BY <1>1, FS_Interval
<1>5. o \in Surjection(1 .. N, S)
  BY <1>3, <1>4, FS_Injection
<1> QED
  BY <1>1, <1>2, <1>5 DEF Surjection

(* What the sorting of a file is: all its rows, none before one it follows. *)
LEMMA SortedRows ==
    ASSUME NEW file \in Traces, NEW s \in Sortings(file)
    PROVE  /\ Cardinality(file) \in Nat /\ s \in [1 .. Cardinality(file) -> file]
           /\ \A row \in file : \E i \in DOMAIN s : s[i] = row
           /\ \A m, n \in DOMAIN s : m < n => ~ RowsBefore(s[n], s[m])
           /\ \A i \in DOMAIN s : /\ s[i].left \in Nat /\ s[i].dt \in Nat
                                  /\ s[i].right # NoValue => Joined[Key(s[i])] # ""
<1>1. IsFiniteSet(file)
  BY ImportAssumption
<1>2. s \in SetToSeqs(file) /\ \A m, n \in DOMAIN s : m < n => ~ RowsBefore(s[n], s[m])
  BY DEF Sortings
<1>3. /\ Cardinality(file) \in Nat /\ s \in [1 .. Cardinality(file) -> file]
      /\ \A row \in file : \E i \in DOMAIN s : s[i] = row
  BY <1>1, <1>2, OrderingsAreComplete
<1>8. \A i \in DOMAIN s : s[i] \in file
  BY <1>3
<1>9. \A i \in DOMAIN s : /\ s[i].left \in Nat /\ s[i].dt \in Nat
                          /\ s[i].right # NoValue => Joined[Key(s[i])] # ""
  <2>1. \A row \in file : /\ row.left \in Nat /\ row.dt \in Nat
                          /\ row.right # NoValue => Joined[<<row.left, row.right>>] # ""
    BY ImportAssumption
  <2>2. \A row \in file : row.right # NoValue => Joined[Key(row)] # ""
    BY <2>1 DEF Key
  <2> QED
    BY <1>8, <2>1, <2>2
<1> QED
  BY <1>2, <1>3, <1>9

(* All rows of a piece have the string of its first row.                    *)
LEMMA PiecesAreRuns ==
    ASSUME NEW file \in Traces, NEW s \in Sortings(file),
           NEW n \in sort_split_dataframes(s), NEW m \in RowsFrom(s, n)
    PROVE  Piece(s[m]) = Piece(s[n])
<1> DEFINE Others == {k \in RowsFrom(s, n) : Piece(s[k]) # Piece(s[n])}
<1> SUFFICES ASSUME Others # {} PROVE FALSE
  OBVIOUS
<1>1. DOMAIN s = 1 .. Cardinality(file) /\ Cardinality(file) \in Nat
  BY SortedRows
<1>2. Others \in SUBSET Nat /\ n \in DOMAIN s
  BY <1>1 DEF RowsFrom, sort_split_dataframes
<1>3. PICK k \in Others : \A j \in Others : k <= j
  BY <1>2, LeastNatural
<1>4. k \in DOMAIN s /\ k >= n /\ k # n /\ \A b \in sort_split_dataframes(s) : b <= n \/ b > k
  BY <1>3 DEF RowsFrom
<1>5. k - 1 \in DOMAIN s /\ k - 1 >= n
  BY <1>1, <1>2, <1>4
<1>6. \A b \in sort_split_dataframes(s) : b <= n \/ b > k - 1
  BY <1>1, <1>4 DEF sort_split_dataframes
<1>7. k - 1 \in RowsFrom(s, n)
  BY <1>5, <1>6 DEF RowsFrom
<1>8. Piece(s[k - 1]) = Piece(s[n])
  BY <1>1, <1>3, <1>4, <1>7
<1>9. k \in sort_split_dataframes(s)
  BY <1>3, <1>4, <1>8 DEF sort_split_dataframes
<1> QED
  BY <1>1, <1>2, <1>4, <1>9

(* Every row is in a piece, the one with the last beginning up to it.       *)
LEMMA RowsAreInPieces ==
    ASSUME NEW file \in Traces, NEW s \in Sortings(file), NEW i \in DOMAIN s
    PROVE  \E n \in sort_split_dataframes(s) : i \in RowsFrom(s, n)
<1> DEFINE Begun == {n \in sort_split_dataframes(s) : n <= i}
<1>1. DOMAIN s = 1 .. Cardinality(file) /\ Cardinality(file) \in Nat
  BY SortedRows
<1>2. Begun \in SUBSET Nat /\ i \in Nat
  BY <1>1 DEF sort_split_dataframes
<1>3. 1 \in Begun
  BY <1>1 DEF sort_split_dataframes
<1>4. PICK n \in Begun : \A k \in Begun : k <= n
  BY <1>2, <1>3, GreatestNatural
<1>5. \A k \in sort_split_dataframes(s) : k <= n \/ k > i
  BY <1>1, <1>4 DEF sort_split_dataframes
<1> QED
  BY <1>2, <1>4, <1>5 DEF RowsFrom

(* The first row of a piece is one of its rows.                             *)
LEMMA PiecesBegin ==
    ASSUME NEW file \in Traces, NEW s \in Sortings(file), NEW n \in sort_split_dataframes(s)
    PROVE  n \in RowsFrom(s, n) /\ RowsFrom(s, n) \subseteq DOMAIN s /\ DOMAIN s \subseteq Nat
<1>1. DOMAIN s = 1 .. Cardinality(file) /\ Cardinality(file) \in Nat
  BY SortedRows
<1> QED
  BY <1>1 DEF RowsFrom, sort_split_dataframes

(* The span of a piece begins and ends at rows of it and holds the others.  *)
LEMMA SpanOfPiece ==
    ASSUME NEW file \in Traces, NEW s \in Sortings(file), NEW n \in sort_split_dataframes(s)
    PROVE  LET dts == {s[m].dt : m \in RowsFrom(s, n)} IN
           /\ Span(s, n) \in [start_dt : Nat, end_dt : Nat]
           /\ Span(s, n).start_dt \in dts /\ Span(s, n).end_dt \in dts
           /\ \A t \in dts : Span(s, n).start_dt <= t /\ t <= Span(s, n).end_dt
<1> DEFINE dts == {s[m].dt : m \in RowsFrom(s, n)}
           d == [m \in DOMAIN s |-> s[m].dt]
<1>1. DOMAIN s = 1 .. Cardinality(file) /\ Cardinality(file) \in Nat
  BY SortedRows
<1>2. \A m \in DOMAIN s : s[m].dt \in Nat
  BY SortedRows
<1>3. dts \in SUBSET Nat
  BY <1>2, PiecesBegin
<1>4. s[n].dt \in dts
  BY PiecesBegin
<1>5. PICK b \in Nat : \A i \in 1 .. Cardinality(file) : d[i] <= b
  <2>1. \A i \in 1 .. Cardinality(file) : d[i] \in Nat
    BY <1>1, <1>2
  <2> HIDE DEF d
  <2> QED
    BY <1>1, <2>1, ValuesBounded
<1>6. \A t \in dts : t <= b
  BY <1>1, <1>5, PiecesBegin
<1> HIDE DEF dts
<1>7. \E t \in dts : \A u \in dts : t <= u
  BY <1>3, <1>4, LeastNatural
<1>8. \E t \in dts : \A u \in dts : u <= t
  BY <1>3, <1>4, <1>6, GreatestNatural
<1>9. Earliest(dts) \in dts /\ \A u \in dts : Earliest(dts) <= u
  BY <1>7 DEF Earliest
<1>10. Latest_dt(dts) \in dts /\ \A u \in dts : u <= Latest_dt(dts)
  BY <1>8 DEF Latest_dt
<1>11. Span(s, n) = [start_dt |-> Earliest(dts), end_dt |-> Latest_dt(dts)]
  BY DEF Span, dts
<1>12. /\ Span(s, n) \in [start_dt : Nat, end_dt : Nat]
       /\ Span(s, n).start_dt \in dts /\ Span(s, n).end_dt \in dts
       /\ \A t \in dts : Span(s, n).start_dt <= t /\ t <= Span(s, n).end_dt
  <2>1. Span(s, n).start_dt = Earliest(dts) /\ Span(s, n).end_dt = Latest_dt(dts)
    BY <1>11
  <2>2. Earliest(dts) \in Nat /\ Latest_dt(dts) \in Nat
    BY <1>3, <1>9, <1>10
  <2>3. Span(s, n) \in [start_dt : Nat, end_dt : Nat]
    BY <1>11, <2>2
  <2> QED
    BY <1>9, <1>10, <2>1, <2>3
<1> QED
  BY <1>12 DEF dts

(* A key whose string is its own, in some file (PlainKeys).                 *)
PlainIn(entries, key) ==
    /\ key \in KeysOf(entries) /\ key[2] # NoValue
    /\ \A other \in KeysOf(entries) \ {key} : other[2] # NoValue => Joined[other] # Joined[key]

(* The rows of a piece of such a key are of that key, as its first row is.  *)
LEMMA PiecesOfPlainKeys ==
    ASSUME NEW file \in Traces, NEW s \in Sortings(file), NEW key, PlainIn(file, key),
           NEW n \in sort_split_dataframes(s), NEW m \in RowsFrom(s, n)
    PROVE  Key(s[n]) = key <=> Key(s[m]) = key
<1>1. s[n] \in file /\ s[m] \in file /\ n \in DOMAIN s /\ m \in DOMAIN s
  <2>1. n \in DOMAIN s /\ m \in DOMAIN s
    BY PiecesBegin
  <2>2. s \in [1 .. Cardinality(file) -> file]
    BY SortedRows
  <2> QED
    BY <2>1, <2>2
<1>2. Piece(s[m]) = Piece(s[n])
  BY PiecesAreRuns
<1>3. ASSUME NEW a \in file, NEW b \in file, Piece(a) = Piece(b), Key(a) = key,
             Joined[key] # ""
      PROVE  Key(b) = key
  <2>1. a.right = key[2] /\ a.right # NoValue
    BY <1>3 DEF Key, PlainIn
  <2>2. Piece(b) = Joined[key]
    BY <1>3, <2>1 DEF Piece
  <2>3. b.right # NoValue /\ Joined[Key(b)] = Joined[key]
    BY <1>3, <2>2 DEF Piece
  <2>4. Key(b) \in KeysOf(file) /\ Key(b)[2] # NoValue
    BY <2>3 DEF KeysOf, Key
  <2> QED
    BY <2>3, <2>4 DEF PlainIn
<1>4. \A i \in DOMAIN s : Key(s[i]) = key => Joined[key] # ""
  <2>1. \A i \in DOMAIN s : s[i].right # NoValue => Joined[Key(s[i])] # ""
    BY SortedRows
  <2>2. \A i \in DOMAIN s : Key(s[i]) = key => s[i].right # NoValue
    BY DEF Key, PlainIn
  <2> QED
    BY <2>1, <2>2
<1> QED
  BY <1>1, <1>2, <1>3, <1>4

(* Of two pieces of such a key the one that begins first ends first.        *)
LEMMA PiecesInOrder ==
    ASSUME NEW file \in Traces, NEW s \in Sortings(file), NEW key, PlainIn(file, key),
           NEW n \in PiecesOf(s, key), NEW k \in PiecesOf(s, key), n < k
    PROVE  Span(s, n).end_dt <= Span(s, k).start_dt
<1>1. n \in sort_split_dataframes(s) /\ k \in sort_split_dataframes(s)
  BY DEF PiecesOf
<1>2. PICK i \in RowsFrom(s, n) : Span(s, n).end_dt = s[i].dt
  BY <1>1, SpanOfPiece
<1>3. PICK j \in RowsFrom(s, k) : Span(s, k).start_dt = s[j].dt
  BY <1>1, SpanOfPiece
<1>4. Key(s[i]) = key /\ Key(s[j]) = key
  BY <1>1, PiecesOfPlainKeys DEF PiecesOf
<1>5. i \in DOMAIN s /\ j \in DOMAIN s /\ DOMAIN s \subseteq Nat /\ n \in Nat /\ k \in Nat
  BY <1>1, PiecesBegin
<1>6. i < j
  BY <1>1, <1>2, <1>3, <1>5 DEF RowsFrom
<1>7. ~ RowsBefore(s[j], s[i])
  BY <1>5, <1>6, SortedRows
<1>8. s[i].left = s[j].left /\ s[i].dt \in Nat /\ s[j].dt \in Nat
  <2>1. \A l \in DOMAIN s : s[l].dt \in Nat
    BY SortedRows
  <2> QED
    BY <1>4, <1>5, <2>1 DEF Key
<1>9. ~ (s[j].dt < s[i].dt)
  BY <1>7, <1>8 DEF RowsBefore
<1> QED
  BY <1>2, <1>3, <1>8, <1>9

---------------------------------------------------------------------------
(* What the spans of a key are.                                             *)
SpanRow == {x \in [start_dt : Nat, end_dt : Nat] : x.start_dt <= x.end_dt}

InTime(spans) == \A m, n \in DOMAIN spans : m < n => spans[m].end_dt <= spans[n].start_dt

TimesOf(entries, key) == {row.dt : row \in {r \in entries : Key(r) = key}}

(* They begin and end at the times of rows, the last row ends one of them,  *)
(* and each row is in one of them.                                          *)
Bounded(spans, dts) == \A n \in DOMAIN spans : spans[n].start_dt \in dts /\ spans[n].end_dt \in dts

ReachesLast(spans, dts) == \A t \in dts : \E n \in DOMAIN spans : t <= spans[n].end_dt

Covers(spans, dts) ==
    \A t \in dts : \E n \in DOMAIN spans : spans[n].start_dt <= t /\ t <= spans[n].end_dt

(* The pieces of a key, in whatever order polars yields them, are all of    *)
(* its pieces.                                                              *)
LEMMA PiecesYielded ==
    ASSUME NEW file \in Traces, NEW s \in Sortings(file), NEW key,
           NEW o \in SetToSeqs(PiecesOf(s, key))
    PROVE  /\ Cardinality(PiecesOf(s, key)) \in Nat
           /\ o \in [1 .. Cardinality(PiecesOf(s, key)) -> PiecesOf(s, key)]
           /\ \A n \in PiecesOf(s, key) : \E i \in DOMAIN o : o[i] = n
<1>1. PiecesOf(s, key) \subseteq 1 .. Cardinality(file) /\ Cardinality(file) \in Nat
  BY SortedRows DEF PiecesOf, sort_split_dataframes
<1>2. IsFiniteSet(1 .. Cardinality(file))
  BY <1>1, FS_Interval
<1>3. IsFiniteSet(PiecesOf(s, key))
  BY <1>1, <1>2, FS_Subset
<1> QED
  BY <1>3, OrderingsAreComplete

(* The spans of the pieces of a key: rows with a start and an end, covering *)
(* the rows of a key whose string is its own, and in the order of time when *)
(* the pieces were taken in order.                                          *)
LEMMA SpansYielded ==
    ASSUME NEW file \in Traces, NEW s \in Sortings(file), NEW key,
           NEW o \in SetToSeqs(PiecesOf(s, key))
    PROVE  LET spans == [n \in DOMAIN o |-> Span(s, o[n])] IN
           /\ spans \in Seq(SpanRow)
           /\ PlainIn(file, key) =>
                 /\ Bounded(spans, TimesOf(file, key)) /\ ReachesLast(spans, TimesOf(file, key))
                 /\ Covers(spans, TimesOf(file, key))
                 /\ (\A m, n \in DOMAIN o : m < n => o[m] < o[n]) => InTime(spans)
<1> DEFINE c == Cardinality(PiecesOf(s, key))
           spans == [n \in DOMAIN o |-> Span(s, o[n])]
<1>1. /\ c \in Nat /\ o \in [1 .. c -> PiecesOf(s, key)] /\ DOMAIN o = 1 .. c
      /\ \A n \in PiecesOf(s, key) : \E i \in DOMAIN o : o[i] = n
  BY PiecesYielded
<1>2. \A n \in DOMAIN o : o[n] \in PiecesOf(s, key) /\ o[n] \in sort_split_dataframes(s)
  BY <1>1 DEF PiecesOf
<1>3. \A n \in sort_split_dataframes(s) : Span(s, n) \in SpanRow
  <2> SUFFICES ASSUME NEW n \in sort_split_dataframes(s) PROVE Span(s, n) \in SpanRow
    OBVIOUS
  <2>1. n \in RowsFrom(s, n)
    BY PiecesBegin
  <2>2. Span(s, n) \in [start_dt : Nat, end_dt : Nat] /\ s[n].dt \in Nat
    BY <2>1, SpanOfPiece, SortedRows, PiecesBegin
  <2>3. Span(s, n).start_dt <= s[n].dt /\ s[n].dt <= Span(s, n).end_dt
    BY <2>1, SpanOfPiece
  <2>4. Span(s, n).start_dt \in Nat /\ Span(s, n).end_dt \in Nat
    BY <2>2
  <2> QED
    BY <2>2, <2>3, <2>4 DEF SpanRow
<1>4. spans \in Seq(SpanRow)
  BY <1>1, <1>2, <1>3
<1>5. ASSUME PlainIn(file, key), NEW t \in TimesOf(file, key)
      PROVE  \E n \in DOMAIN spans : spans[n].start_dt <= t /\ t <= spans[n].end_dt
  <2>1. PICK row \in file : Key(row) = key /\ row.dt = t
    BY <1>5 DEF TimesOf
  <2>2. PICK i \in DOMAIN s : s[i] = row
    <3>1. \A r \in file : \E i \in DOMAIN s : s[i] = r
      BY SortedRows
    <3> QED
      BY <2>1, <3>1
  <2>3. PICK n \in sort_split_dataframes(s) : i \in RowsFrom(s, n)
    BY RowsAreInPieces
  <2>4. n \in PiecesOf(s, key)
    BY <1>5, <2>1, <2>2, <2>3, PiecesOfPlainKeys DEF PiecesOf
  <2>5. PICK j \in DOMAIN o : o[j] = n
    BY <1>1, <2>4
  <2>6. Span(s, n).start_dt <= s[i].dt /\ s[i].dt <= Span(s, n).end_dt
    BY <2>3, SpanOfPiece
  <2> QED
    BY <2>1, <2>2, <2>5, <2>6
<1>6. ASSUME PlainIn(file, key), NEW n \in DOMAIN spans
      PROVE  spans[n].start_dt \in TimesOf(file, key) /\ spans[n].end_dt \in TimesOf(file, key)
  <2>1. o[n] \in sort_split_dataframes(s) /\ Key(s[o[n]]) = key
    BY <1>2 DEF PiecesOf
  <2>2. PICK i \in RowsFrom(s, o[n]) : Span(s, o[n]).start_dt = s[i].dt
    BY <2>1, SpanOfPiece
  <2>3. PICK j \in RowsFrom(s, o[n]) : Span(s, o[n]).end_dt = s[j].dt
    BY <2>1, SpanOfPiece
  <2>4. \A m \in RowsFrom(s, o[n]) : Key(s[m]) = key
    BY <1>6, <2>1, PiecesOfPlainKeys
  <2>5. \A m \in RowsFrom(s, o[n]) : s[m] \in file
    <3>1. RowsFrom(s, o[n]) \subseteq DOMAIN s
      BY <2>1, PiecesBegin
    <3>2. s \in [1 .. Cardinality(file) -> file]
      BY SortedRows
    <3> QED
      BY <3>1, <3>2
  <2> QED
    BY <2>2, <2>3, <2>4, <2>5 DEF TimesOf
<1>7. ASSUME PlainIn(file, key), \A m, n \in DOMAIN o : m < n => o[m] < o[n]
      PROVE  InTime(spans)
  <2> SUFFICES ASSUME NEW m \in DOMAIN o, NEW n \in DOMAIN o, m < n
               PROVE  spans[m].end_dt <= spans[n].start_dt
    BY DEF InTime
  <2>1. o[m] \in PiecesOf(s, key) /\ o[n] \in PiecesOf(s, key) /\ o[m] < o[n]
    BY <1>2, <1>7
  <2> QED
    BY <1>7, <2>1, PiecesInOrder
<1> HIDE DEF spans
<1>8. PlainIn(file, key) => /\ Bounded(spans, TimesOf(file, key)) /\ Covers(spans, TimesOf(file, key))
                            /\ ReachesLast(spans, TimesOf(file, key))
  BY <1>5, <1>6 DEF Bounded, ReachesLast, Covers
<1>9. PlainIn(file, key) /\ (\A m, n \in DOMAIN o : m < n => o[m] < o[n]) => InTime(spans)
  BY <1>7
<1> QED
  BY <1>4, <1>8, <1>9 DEF spans

(* The first two close neighbours are close neighbours.                     *)
LEMMA FirstCloseAt ==
    ASSUME NEW spans \in Seq(SpanRow), CloseAt(spans) # {}
    PROVE  Earliest(CloseAt(spans)) \in CloseAt(spans)
<1>1. CloseAt(spans) \in SUBSET Nat
  BY DEF CloseAt
<1>2. \E m \in CloseAt(spans) : \A n \in CloseAt(spans) : m <= n
  BY <1>1, LeastNatural
<1> QED
  BY <1>2 DEF Earliest

(* Merging two neighbours keeps what the spans of a key are.                *)
LEMMA MergingKeepsSpans ==
    ASSUME NEW spans \in Seq(SpanRow), NEW n \in 1 .. Len(spans) - 1
    PROVE  /\ Merged(spans, n) \in Seq(SpanRow)
           /\ InTime(spans) => InTime(Merged(spans, n))
           /\ \A dts \in SUBSET Nat :
                 /\ Bounded(spans, dts) => Bounded(Merged(spans, n), dts)
                 /\ ReachesLast(spans, dts) => ReachesLast(Merged(spans, n), dts)
                 /\ InTime(spans) /\ Covers(spans, dts) => Covers(Merged(spans, n), dts)
<1> DEFINE last == Latest_dt({spans[n].end_dt, spans[n + 1].end_dt})
           merged == Merged(spans, n)
           N == Len(spans)
<1>1. N \in Nat /\ n \in 1 .. N /\ n + 1 \in 1 .. N /\ DOMAIN spans = 1 .. N
  OBVIOUS
<1>2. \A m \in 1 .. N : /\ spans[m] \in SpanRow /\ spans[m].start_dt \in Nat
                        /\ spans[m].end_dt \in Nat /\ spans[m].start_dt <= spans[m].end_dt
  BY DEF SpanRow
<1>3. /\ last \in {spans[n].end_dt, spans[n + 1].end_dt} /\ last \in Nat
      /\ spans[n].end_dt <= last /\ spans[n + 1].end_dt <= last
  <2> DEFINE ends == {spans[n].end_dt, spans[n + 1].end_dt}
  <2>1. spans[n].end_dt \in Nat /\ spans[n + 1].end_dt \in Nat
    BY <1>1, <1>2
  <2>2. \E t \in ends : \A u \in ends : u <= t
    BY <2>1
  <2> HIDE DEF ends
  <2>3. Latest_dt(ends) \in ends /\ \A u \in ends : u <= Latest_dt(ends)
    BY <2>2 DEF Latest_dt
  <2> QED
    BY <2>1, <2>3 DEF ends
<1> HIDE DEF last
<1>4. /\ DOMAIN merged = 1 .. N - 1
      /\ \A m \in 1 .. N - 1 : merged[m] = IF m < n THEN spans[m]
                                          ELSE IF m = n THEN [spans[n] EXCEPT !.end_dt = last]
                                          ELSE spans[m + 1]
  BY DEF Merged, last
<1> DEFINE joined == [spans[n] EXCEPT !.end_dt = last]
<1>5. joined \in SpanRow /\ joined.start_dt = spans[n].start_dt /\ joined.end_dt = last
  <2>1. spans[n] \in [start_dt : Nat, end_dt : Nat] /\ spans[n].start_dt <= spans[n].end_dt
    BY <1>1, <1>2 DEF SpanRow
  <2>2. joined \in [start_dt : Nat, end_dt : Nat]
    BY <1>3, <2>1
  <2>3. joined.start_dt = spans[n].start_dt /\ joined.end_dt = last
    BY <2>1
  <2>4. spans[n].start_dt <= last
    BY <1>1, <1>2, <1>3
  <2> QED
    BY <2>2, <2>3, <2>4 DEF SpanRow
<1> HIDE DEF joined, merged
<1>6. \A m \in 1 .. N - 1 : /\ m < n => merged[m] = spans[m] /\ m \in 1 .. N
                            /\ m = n => merged[m] = joined
                            /\ m > n => merged[m] = spans[m + 1] /\ m + 1 \in 1 .. N
  BY <1>1, <1>4 DEF joined
<1>7. merged \in Seq(SpanRow)
  <2>1. \A m \in 1 .. N - 1 : merged[m] \in SpanRow
    BY <1>1, <1>2, <1>5, <1>6
  <2>2. merged = [m \in 1 .. N - 1 |-> merged[m]] /\ N - 1 \in Nat
    BY <1>1, <1>4 DEF Merged, merged
  <2> QED
    BY <2>1, <2>2
<1>8. ASSUME InTime(spans)
      PROVE  InTime(merged)
  <2> SUFFICES ASSUME NEW m \in 1 .. N - 1, NEW k \in 1 .. N - 1, m < k
               PROVE  merged[m].end_dt <= merged[k].start_dt
    BY <1>4 DEF InTime
  <2>1. \A a, b \in 1 .. N : a < b => spans[a].end_dt <= spans[b].start_dt
    BY <1>1, <1>8 DEF InTime
  <2>2. CASE k < n
    BY <1>6, <2>1, <2>2
  <2>3. CASE k = n
    BY <1>1, <1>5, <1>6, <2>1, <2>3
  <2>4. CASE k > n /\ m < n
    BY <1>6, <2>1, <2>4
  <2>5. CASE k > n /\ m = n
    <3>1. merged[k] = spans[k + 1] /\ k + 1 \in 1 .. N /\ n < k + 1 /\ n + 1 < k + 1
      BY <1>1, <1>6, <2>5
    <3>2. spans[n].end_dt <= spans[k + 1].start_dt /\ spans[n + 1].end_dt <= spans[k + 1].start_dt
      BY <1>1, <2>1, <3>1
    <3> QED
      BY <1>3, <1>5, <1>6, <2>5, <3>1, <3>2
  <2>6. CASE k > n /\ m > n
    BY <1>6, <2>1, <2>6
  <2> QED
    BY <2>2, <2>3, <2>4, <2>5, <2>6
<1>9. ASSUME NEW dts \in SUBSET Nat, InTime(spans), Covers(spans, dts)
      PROVE  Covers(merged, dts)
  <2>1. spans[n].end_dt <= spans[n + 1].start_dt
    BY <1>1, <1>9 DEF InTime
  <2>2. ASSUME NEW t \in dts
        PROVE  \E m \in 1 .. N - 1 : merged[m].start_dt <= t /\ t <= merged[m].end_dt
    <3>1. PICK i \in 1 .. N : spans[i].start_dt <= t /\ t <= spans[i].end_dt
      BY <1>1, <1>9 DEF Covers
    <3>2. t \in Nat
      BY <2>2
    <3>3. CASE i < n
      BY <1>1, <1>6, <3>1, <3>3
    <3>4. CASE i = n
      <4>1. joined.start_dt <= t /\ t <= joined.end_dt
        BY <1>1, <1>2, <1>3, <1>5, <3>1, <3>2, <3>4
      <4> QED
        BY <1>6, <4>1
    <3>5. CASE i = n + 1
      <4>1. joined.start_dt <= t /\ t <= joined.end_dt
        BY <1>1, <1>2, <1>3, <1>5, <2>1, <3>1, <3>2, <3>5
      <4> QED
        BY <1>6, <4>1
    <3>6. CASE i > n + 1
      <4>1. i - 1 \in 1 .. N - 1 /\ i - 1 > n /\ (i - 1) + 1 = i
        BY <1>1, <3>6
      <4> QED
        BY <1>6, <3>1, <4>1
    <3> QED
      BY <1>1, <3>3, <3>4, <3>5, <3>6
  <2> QED
    BY <1>4, <2>2 DEF Covers
<1>10. ASSUME NEW dts \in SUBSET Nat, Bounded(spans, dts)
       PROVE  Bounded(merged, dts)
  <2>1. \A i \in 1 .. N : spans[i].start_dt \in dts /\ spans[i].end_dt \in dts
    BY <1>1, <1>10 DEF Bounded
  <2> QED
    BY <1>1, <1>3, <1>4, <1>5, <1>6, <2>1 DEF Bounded
<1>11. ASSUME NEW dts \in SUBSET Nat, ReachesLast(spans, dts)
       PROVE  ReachesLast(merged, dts)
  <2> SUFFICES ASSUME NEW t \in dts
               PROVE  \E m \in 1 .. N - 1 : t <= merged[m].end_dt
    BY <1>4 DEF ReachesLast
  <2>1. PICK i \in 1 .. N : t <= spans[i].end_dt
    BY <1>1, <1>11 DEF ReachesLast
  <2>2. t \in Nat
    OBVIOUS
  <2>3. CASE i < n
    BY <1>1, <1>6, <2>1, <2>3
  <2>4. CASE i \in {n, n + 1}
    <3>1. t <= last
      BY <1>1, <1>2, <1>3, <2>1, <2>2, <2>4
    <3> QED
      BY <1>5, <1>6, <3>1
  <2>5. CASE i > n + 1
    <3>1. i - 1 \in 1 .. N - 1 /\ i - 1 > n /\ (i - 1) + 1 = i
      BY <1>1, <2>5
    <3> QED
      BY <1>6, <2>1, <3>1
  <2> QED
    BY <1>1, <2>3, <2>4, <2>5
<1> QED
  BY <1>7, <1>8, <1>9, <1>10, <1>11 DEF merged

---------------------------------------------------------------------------
(* What holds throughout an import: the spans of each key are spans; those  *)
(* of a key whose string is its own begin and end at its rows and reach the *)
(* last one, and if its pieces came in order they are in the order of time  *)
(* and cover its rows; and what is stored are spans that no merge can touch *)
(* any more, each as often as the connection broke.                         *)
ImportShape ==
    /\ stage \in {"read", "merge", "done"} /\ inOrder \subseteq DOMAIN ranges /\ breaks \in 0 .. MaxBreaks
    /\ stage = "read" => trace = {} /\ ranges = <<>> /\ stored = <<>>
    /\ stage # "read" => trace \in Traces
    /\ DOMAIN ranges \subseteq KeysOf(trace)
    /\ \A key \in DOMAIN ranges : ranges[key] \in Seq(SpanRow)

KeysCovered ==
    stage # "read" =>
        \A key \in PlainKeys :
           /\ key \in DOMAIN ranges /\ Bounded(ranges[key], TimesOf(trace, key))
           /\ ReachesLast(ranges[key], TimesOf(trace, key))
           /\ key \in inOrder => InTime(ranges[key]) /\ Covers(ranges[key], TimesOf(trace, key))

Inserts == breaks + (IF stage = "done" THEN 1 ELSE 0)

StoredAreFinal ==
    /\ DOMAIN stored \subseteq AllSpans
    /\ \A x \in DOMAIN stored : stored[x] \in Nat /\ stored[x] <= Inserts
    /\ DOMAIN stored # {} \/ stage = "done" => \A key \in DOMAIN ranges : CloseAt(ranges[key]) = {}
    /\ stage = "done" => AllSpans \subseteq DOMAIN stored

ImportInv == ImportShape /\ KeysCovered /\ StoredAreFinal

LEMMA ImportBounds == THRESHOLD \in Nat /\ MaxBreaks \in Nat
BY ImportAssumption

LEMMA TimesAreNaturals ==
    ASSUME NEW file \in Traces, NEW key
    PROVE  TimesOf(file, key) \in SUBSET Nat
BY ImportAssumption DEF TimesOf

(* Splitting a file begins with spans that cover it.                        *)
LEMMA SplitKeepsImport ==
    ASSUME ImportInv, NEW file \in Traces, Split(file)
    PROVE  ImportInv'
<1>1. /\ stage = "read" /\ stage' = "merge" /\ trace' = file /\ stored' = stored /\ stored = <<>>
      /\ breaks' = breaks /\ breaks \in 0 .. MaxBreaks
  BY DEF Split, ImportInv, ImportShape
<1>2. PICK s \in Sortings(file) :
        \E pieces \in [FiledKeys(s) -> UNION {SetToSeqs(PiecesOf(s, key)) : key \in FiledKeys(s)}] :
           /\ \A key \in FiledKeys(s) : pieces[key] \in SetToSeqs(PiecesOf(s, key))
           /\ ranges' = aggregate_start_end_dt(s, pieces)
           /\ inOrder' = {key \in FiledKeys(s) : \A m, n \in DOMAIN pieces[key] :
                             m < n => pieces[key][m] < pieces[key][n]}
  BY DEF Split
<1>3. PICK pieces :
        /\ \A key \in FiledKeys(s) : pieces[key] \in SetToSeqs(PiecesOf(s, key))
        /\ ranges' = aggregate_start_end_dt(s, pieces)
        /\ inOrder' = {key \in FiledKeys(s) : \A m, n \in DOMAIN pieces[key] :
                          m < n => pieces[key][m] < pieces[key][n]}
  BY <1>2
<1> DEFINE spans(key) == [n \in DOMAIN pieces[key] |-> Span(s, pieces[key][n])]
<1>4. DOMAIN ranges' = FiledKeys(s) /\ \A key \in FiledKeys(s) : ranges'[key] = spans(key)
  BY <1>3 DEF aggregate_start_end_dt
<1>5. \A key \in FiledKeys(s) :
         /\ spans(key) \in Seq(SpanRow)
         /\ PlainIn(file, key) =>
               /\ Bounded(spans(key), TimesOf(file, key)) /\ ReachesLast(spans(key), TimesOf(file, key))
               /\ Covers(spans(key), TimesOf(file, key))
               /\ (\A m, n \in DOMAIN pieces[key] : m < n => pieces[key][m] < pieces[key][n])
                     => InTime(spans(key))
  BY <1>3, SpansYielded
<1> HIDE DEF spans
<1>6. \A n \in sort_split_dataframes(s) : s[n] \in file
  <2>1. s \in [1 .. Cardinality(file) -> file]
    BY SortedRows
  <2> QED
    BY <2>1 DEF sort_split_dataframes
<1>7. FiledKeys(s) \subseteq KeysOf(file)
  BY <1>6 DEF FiledKeys, KeysOf
<1>8. \A key : PlainIn(file, key) => key \in FiledKeys(s)
  <2> SUFFICES ASSUME NEW key, PlainIn(file, key) PROVE key \in FiledKeys(s)
    OBVIOUS
  <2>1. PICK row \in file : Key(row) = key
    BY DEF PlainIn, KeysOf
  <2>2. PICK i \in DOMAIN s : s[i] = row
    <3>1. \A r \in file : \E i \in DOMAIN s : s[i] = r
      BY SortedRows
    <3> QED
      BY <2>1, <3>1
  <2>3. PICK n \in sort_split_dataframes(s) : i \in RowsFrom(s, n)
    BY RowsAreInPieces
  <2>4. Key(s[n]) = key
    BY <2>1, <2>2, <2>3, PiecesOfPlainKeys
  <2> QED
    BY <2>4 DEF FiledKeys, PlainIn
<1>9. PlainKeys' = {key \in KeysOf(file) : PlainIn(file, key)}
  BY <1>1 DEF PlainKeys, PlainIn
<1>10. inOrder' \subseteq FiledKeys(s)
  BY <1>3
<1>11. ImportShape'
  BY <1>1, <1>4, <1>5, <1>7, <1>10 DEF ImportShape
<1>12. KeysCovered'
  BY <1>1, <1>3, <1>4, <1>5, <1>8, <1>9 DEF KeysCovered
<1>13. StoredAreFinal'
  BY <1>1 DEF StoredAreFinal
<1> QED
  BY <1>11, <1>12, <1>13 DEF ImportInv

(* Merging changes the spans of one key, before any is stored.              *)
LEMMA MergeKeepsImport ==
    ASSUME ImportInv, NEW key \in DOMAIN ranges, group_is_close_dt(key)
    PROVE  ImportInv'
<1> DEFINE n == Earliest(CloseAt(ranges[key]))
<1>1. /\ stage = "merge" /\ CloseAt(ranges[key]) # {}
      /\ ranges' = [ranges EXCEPT ![key] = Merged(ranges[key], n)]
      /\ trace' = trace /\ stage' = stage /\ stored' = stored /\ inOrder' = inOrder /\ breaks' = breaks
  BY DEF group_is_close_dt
<1>2. ranges[key] \in Seq(SpanRow) /\ trace \in Traces
  BY <1>1 DEF ImportInv, ImportShape
<1>3. n \in CloseAt(ranges[key])
  BY <1>1, <1>2, FirstCloseAt
<1>4. n \in 1 .. Len(ranges[key]) - 1
  BY <1>3 DEF CloseAt
<1> HIDE DEF n
<1> DEFINE merged == Merged(ranges[key], n)
<1>5. /\ merged \in Seq(SpanRow)
      /\ InTime(ranges[key]) => InTime(merged)
      /\ \A dts \in SUBSET Nat :
            /\ Bounded(ranges[key], dts) => Bounded(merged, dts)
            /\ ReachesLast(ranges[key], dts) => ReachesLast(merged, dts)
            /\ InTime(ranges[key]) /\ Covers(ranges[key], dts) => Covers(merged, dts)
  BY <1>2, <1>4, MergingKeepsSpans
<1> HIDE DEF merged
<1>6. /\ DOMAIN ranges' = DOMAIN ranges /\ ranges'[key] = merged
      /\ \A k \in DOMAIN ranges : k # key => ranges'[k] = ranges[k]
  BY <1>1 DEF merged
<1>7. ImportShape'
  BY <1>1, <1>5, <1>6 DEF ImportInv, ImportShape
<1>8. KeysCovered'
  <2>1. PlainKeys' = PlainKeys
    BY <1>1 DEF PlainKeys
  <2>2. TimesOf(trace, key) \in SUBSET Nat
    BY <1>2, TimesAreNaturals
  <2> QED
    BY <1>1, <1>5, <1>6, <2>1, <2>2 DEF ImportInv, KeysCovered
<1>9. StoredAreFinal'
  <2>1. DOMAIN stored = {}
    BY <1>1 DEF ImportInv, StoredAreFinal
  <2> QED
    BY <1>1, <2>1 DEF StoredAreFinal
<1> QED
  BY <1>7, <1>8, <1>9 DEF ImportInv

(* An insert stores every span once more.                                   *)
LEMMA InsertKeepsImport ==
    ASSUME ImportInv, BulkCreate
    PROVE  ImportInv'
<1>1. /\ stage = "merge" /\ \A key \in DOMAIN ranges : CloseAt(ranges[key]) = {}
      /\ trace' = trace /\ ranges' = ranges /\ inOrder' = inOrder
  BY DEF BulkCreate
<1>2. \/ stored' = StoredOnceMore /\ stage' = "done" /\ breaks' = breaks
      \/ /\ breaks < MaxBreaks /\ breaks' = breaks + 1 /\ stage' = stage
         /\ stored' = stored \/ stored' = StoredOnceMore
  BY DEF BulkCreate
<1>3. /\ breaks \in 0 .. MaxBreaks /\ MaxBreaks \in Nat
      /\ DOMAIN stored \subseteq AllSpans
      /\ \A x \in DOMAIN stored : stored[x] \in Nat /\ stored[x] <= breaks
  <2>1. breaks \in 0 .. MaxBreaks /\ MaxBreaks \in Nat
    BY ImportBounds DEF ImportInv, ImportShape
  <2>2. Inserts = breaks
    BY <1>1, <2>1 DEF Inserts
  <2> QED
    BY <2>1, <2>2 DEF ImportInv, StoredAreFinal
<1>4. DOMAIN StoredOnceMore = AllSpans
  BY DEF StoredOnceMore
<1>5. \A x \in AllSpans : StoredOnceMore[x] \in Nat /\ StoredOnceMore[x] <= breaks + 1
  BY <1>3 DEF StoredOnceMore
<1>6. AllSpans' = AllSpans
  BY <1>1 DEF AllSpans
<1>7. Inserts' = breaks + 1
  BY <1>1, <1>2, <1>3 DEF Inserts
<1>8. ImportShape'
  BY <1>1, <1>2, <1>3 DEF ImportInv, ImportShape
<1>9. KeysCovered'
  <2>1. PlainKeys' = PlainKeys
    BY <1>1 DEF PlainKeys
  <2> QED
    BY <1>1, <1>2, <2>1 DEF ImportInv, KeysCovered
<1>10. StoredAreFinal'
  <2>1. CASE stored' = StoredOnceMore
    BY <1>1, <1>4, <1>5, <1>6, <1>7, <2>1 DEF StoredAreFinal
  <2>2. CASE stored' = stored /\ stage' = stage
    <3>1. \A x \in DOMAIN stored : stored[x] <= breaks + 1
      BY <1>3
    <3> QED
      BY <1>1, <1>3, <1>6, <1>7, <2>2, <3>1 DEF StoredAreFinal
  <2> QED
    BY <1>2, <2>1, <2>2
<1> QED
  BY <1>8, <1>9, <1>10 DEF ImportInv

(* So the invariant holds of every import.                                  *)
THEOREM ImportInvariant == ImportSpec => []ImportInv
<1>1. ImportInit => ImportInv
  <2> SUFFICES ASSUME ImportInit PROVE ImportInv
    OBVIOUS
  <2>1. DOMAIN ranges = {} /\ DOMAIN stored = {} /\ stage = "read"
    BY DEF ImportInit
  <2>2. ImportShape
    BY <2>1, ImportBounds DEF ImportInit, ImportShape
  <2> QED
    BY <2>1, <2>2 DEF ImportInv, KeysCovered, StoredAreFinal
<1>2. ImportInv /\ [ImportNext]_importVars => ImportInv'
  <2> SUFFICES ASSUME ImportInv, [ImportNext]_importVars PROVE ImportInv'
    OBVIOUS
  <2>1. CASE UNCHANGED importVars
    BY <2>1 DEF importVars, ImportInv, ImportShape, KeysCovered, PlainKeys, StoredAreFinal,
                AllSpans, Inserts
  <2> QED
    BY <2>1, SplitKeepsImport, MergeKeepsImport, InsertKeepsImport DEF ImportNext
<1> QED
  BY <1>1, <1>2, PTL DEF ImportSpec

(* Spans of a key of which no neighbours are close keep their distance,     *)
(* whichever two, and were so put in the order of time: the first one that  *)
(* does not would be too close to its neighbour.                            *)
LEMMA SpansApart ==
    ASSUME NEW spans \in Seq(SpanRow), CloseAt(spans) = {},
           NEW m \in DOMAIN spans, NEW n \in DOMAIN spans, m < n
    PROVE  spans[n].start_dt - spans[m].end_dt >= THRESHOLD
<1>1. DOMAIN spans = 1 .. Len(spans) /\ Len(spans) \in Nat
  OBVIOUS
<1>2. \A k \in DOMAIN spans : /\ spans[k].start_dt \in Nat /\ spans[k].end_dt \in Nat
                              /\ spans[k].start_dt <= spans[k].end_dt
  BY DEF SpanRow
<1> DEFINE Near == {k \in DOMAIN spans : m < k /\ spans[k].start_dt - spans[m].end_dt < THRESHOLD}
<1> SUFFICES ASSUME Near # {} PROVE FALSE
  <2>1. spans[n].start_dt - spans[m].end_dt \in Int /\ THRESHOLD \in Int
    BY <1>2, ImportBounds
  <2>2. n \in Near \/ ~ (spans[n].start_dt - spans[m].end_dt < THRESHOLD)
    OBVIOUS
  <2> HIDE DEF Near
  <2> QED
    BY <2>1, <2>2
<1>3. Near \in SUBSET Nat
  BY <1>1
<1>4. PICK k \in Near : \A l \in Near : k <= l
  BY <1>3, LeastNatural
<1>5. k \in 2 .. Len(spans) /\ m < k /\ k - 1 \in 1 .. Len(spans) - 1 /\ (k - 1) + 1 = k
  BY <1>1, <1>4
<1>6. ~ (spans[k].start_dt - spans[k - 1].end_dt < THRESHOLD)
  BY <1>5 DEF CloseAt
<1>7. k - 1 # m
  BY <1>4, <1>6
<1>8. m < k - 1 /\ k - 1 \in DOMAIN spans /\ ~ (k <= k - 1)
  BY <1>1, <1>5, <1>7
<1>9. ~ (spans[k - 1].start_dt - spans[m].end_dt < THRESHOLD)
  BY <1>4, <1>8
<1> QED
  BY <1>2, <1>4, <1>6, <1>8, <1>9, ImportBounds

(* SpansCoverTrace, for every file, every order of the pieces and number of *)
(* broken connections: what the spans of a key whose string is its own are, *)
(* and that they cover its rows when its own pieces came in order.          *)
THEOREM SpansStandForRows == ImportSpec => []SpansCoverTrace
<1>1. ImportInv => SpansCoverTrace
  <2> SUFFICES ASSUME ImportInv, stage = "done", NEW key \in PlainKeys
               PROVE  LET entries == {row \in trace : Key(row) = key}
                          spans == {s[2] : s \in {x \in DOMAIN stored : x[1] = key}}
                      IN  /\ \A s \in spans : {s.start_dt, s.end_dt} \subseteq {row.dt : row \in entries}
                          /\ \A s, u \in spans : s # u =>
                                \/ u.start_dt - s.end_dt >= THRESHOLD
                                \/ s.start_dt - u.end_dt >= THRESHOLD
                          /\ \A row \in entries : \E s \in spans : row.dt <= s.end_dt
                          /\ \A s \in spans : stored[<<key, s>>] <= 1 + breaks
                          /\ key \in inOrder =>
                                \A row \in entries : \E s \in spans : row.dt \in s.start_dt .. s.end_dt
    BY DEF SpansCoverTrace
  <2> DEFINE entries == {row \in trace : Key(row) = key}
             spans == {s[2] : s \in {x \in DOMAIN stored : x[1] = key}}
             q == ranges[key]
  <2>1. /\ key \in DOMAIN ranges /\ Bounded(q, TimesOf(trace, key))
        /\ ReachesLast(q, TimesOf(trace, key))
        /\ key \in inOrder => Covers(q, TimesOf(trace, key))
        /\ q \in Seq(SpanRow) /\ CloseAt(q) = {} /\ DOMAIN stored = AllSpans /\ trace \in Traces
    BY DEF ImportInv, ImportShape, KeysCovered, StoredAreFinal
  <2>2. \A s \in spans : <<key, s>> \in DOMAIN stored /\ \E n \in DOMAIN q : s = q[n]
    BY <2>1 DEF AllSpans
  <2>3. \A n \in DOMAIN q : q[n] \in spans
    <3> SUFFICES ASSUME NEW n \in DOMAIN q PROVE q[n] \in spans
      OBVIOUS
    <3>1. <<key, q[n]>> \in DOMAIN stored
      BY <2>1 DEF AllSpans
    <3> QED
      BY <3>1
  <2>4. \A n \in DOMAIN q : q[n] \in SpanRow /\ q[n].start_dt \in Nat /\ q[n].end_dt \in Nat
    BY <2>1 DEF SpanRow
  <2>5. TimesOf(trace, key) = {row.dt : row \in entries} /\ TimesOf(trace, key) \in SUBSET Nat
    BY <2>1, TimesAreNaturals DEF TimesOf
  <2> HIDE DEF spans
  <2>6. key \in inOrder => \A row \in entries : \E s \in spans : row.dt \in s.start_dt .. s.end_dt
    <3> SUFFICES ASSUME key \in inOrder, NEW row \in entries
                 PROVE  \E s \in spans : row.dt \in s.start_dt .. s.end_dt
      OBVIOUS
    <3>1. row.dt \in TimesOf(trace, key) /\ row.dt \in Nat
      BY <2>5
    <3>2. PICK n \in DOMAIN q : q[n].start_dt <= row.dt /\ row.dt <= q[n].end_dt
      BY <2>1, <3>1 DEF Covers
    <3> QED
      BY <2>3, <2>4, <3>1, <3>2
  <2>7. \A s \in spans : {s.start_dt, s.end_dt} \subseteq {row.dt : row \in entries}
    BY <2>1, <2>2, <2>5 DEF Bounded
  <2>8. \A s, u \in spans : s # u =>
           u.start_dt - s.end_dt >= THRESHOLD \/ s.start_dt - u.end_dt >= THRESHOLD
    <3> SUFFICES ASSUME NEW s \in spans, NEW u \in spans, s # u
                 PROVE  u.start_dt - s.end_dt >= THRESHOLD \/ s.start_dt - u.end_dt >= THRESHOLD
      OBVIOUS
    <3>1. PICK m \in DOMAIN q : s = q[m]
      BY <2>2
    <3>2. PICK n \in DOMAIN q : u = q[n]
      BY <2>2
    <3>3. m < n \/ n < m
      <4>1. DOMAIN q \subseteq Nat
        BY <2>1
      <4> QED
        BY <3>1, <3>2, <4>1
    <3> QED
      BY <2>1, <3>1, <3>2, <3>3, SpansApart
  <2>9. \A s \in spans : stored[<<key, s>>] <= 1 + breaks
    <3>1. \A x \in DOMAIN stored : stored[x] <= breaks + 1
      BY DEF ImportInv, StoredAreFinal, Inserts
    <3>2. breaks + 1 = 1 + breaks
      BY ImportBounds DEF ImportInv, ImportShape
    <3> QED
      BY <2>2, <3>1, <3>2
  <2>10. \A row \in entries : \E s \in spans : row.dt <= s.end_dt
    BY <2>1, <2>3, <2>5 DEF ReachesLast
  <2> QED
    BY <2>6, <2>7, <2>8, <2>9, <2>10 DEF spans
<1> QED
  BY <1>1, ImportInvariant, PTL

(* The state of an import stays in its type (its conjunct of                *)
(* ServicesTypeOK): its spans are of keys of the file and never end before  *)
(* they start, whatever pieces were merged.                                 *)
THEOREM ImportTyped == ImportSpec => []ImportTypeOK
<1>1. ImportInv => ImportTypeOK
  <2> SUFFICES ASSUME ImportInv, NEW key \in DOMAIN ranges, NEW n \in DOMAIN ranges[key]
               PROVE  ranges[key][n].start_dt <= ranges[key][n].end_dt
    BY DEF ImportInv, ImportShape, ImportTypeOK
  <2>1. ranges[key] \in Seq(SpanRow)
    BY DEF ImportInv, ImportShape
  <2> QED
    BY <2>1 DEF SpanRow
<1> QED
  BY <1>1, ImportInvariant, PTL

---------------------------------------------------------------------------
(* The status of lines.                                                     *)

(* The reports of a line are written when they say, on links that exist.    *)
ReportRow ==
    [line : StatusLines, status : StatusSet, link : TaggedLinks \cup {NoLink}, at : Nat]

StatusInv ==
    /\ hour \in 0 .. MaxHour
    /\ reports \in Seq(ReportRow) /\ \A k \in DOMAIN reports : reports[k].at <= hour
    /\ votes \in [Voters -> [TaggedLinks -> {-1, 0, 1}]]

LEMMA ReportsHaveRows ==
    ASSUME StatusInv
    PROVE  /\ hour \in Nat /\ DOMAIN reports = 1 .. Len(reports) /\ Len(reports) \in Nat
           /\ \A k \in DOMAIN reports : reports[k] \in ReportRow /\ reports[k].at \in 0 .. hour
<1>1. hour \in Nat
  BY StatusAssumption DEF StatusInv
<1>2. \A k \in DOMAIN reports : reports[k] \in ReportRow /\ reports[k].at <= hour
  BY DEF StatusInv
<1>3. \A row \in ReportRow : row.at \in Nat
  BY DEF ReportRow
<1> QED
  BY <1>1, <1>2, <1>3 DEF StatusInv

(* A report adds a row of now for each line, and nothing else.              *)
LEMMA ReportAddsRows ==
    ASSUME StatusInv, NEW lines \in SUBSET StatusLines, NEW status \in StatusSet,
           NEW link \in TaggedLinks \cup {NoLink}, Report(lines, status, link)
    PROVE  StatusInv'
<1> DEFINE entry(l) == [line |-> l, status |-> status, link |-> link, at |-> hour]
           entries == {entry(l) : l \in lines}
           added == SetToSeq(entries)
           f == [l \in lines |-> entry(l)]
<1>1. hour \in Nat
  BY ReportsHaveRows
<1>2. entries \subseteq ReportRow /\ \A x \in entries : x.at = hour
  BY <1>1 DEF ReportRow
<1>3. IsFiniteSet(lines)
  BY StatusAssumption, FS_Subset
<1>4. f \in Surjection(lines, entries)
  BY DEF Surjection
<1>5. IsFiniteSet(entries)
  BY <1>3, <1>4, FS_Surjection
<1> HIDE DEF entries
<1>6. Cardinality(entries) \in Nat /\ ExistsBijection(1 .. Cardinality(entries), entries)
  BY <1>5, FS_CardinalityType
<1>7. \E g \in [1 .. Cardinality(entries) -> entries] : IsInjective(g)
  BY <1>6 DEF ExistsBijection, Bijection, Injection, IsInjective
<1>8. added \in [1 .. Cardinality(entries) -> entries]
  BY <1>7 DEF SetToSeq
<1>9. added \in Seq(ReportRow) /\ \A k \in DOMAIN added : added[k].at = hour
  BY <1>2, <1>6, <1>8
<1> HIDE DEF added
<1>10. reports' = reports \o added /\ hour' = hour /\ votes' = votes
  BY DEF Report, entries, added
<1>11. \A k \in DOMAIN reports' : reports'[k].at <= hour
  <2> SUFFICES ASSUME NEW k \in DOMAIN reports' PROVE reports'[k].at <= hour
    OBVIOUS
  <2>1. k \in DOMAIN reports \/ (k - Len(reports) \in DOMAIN added /\ k \notin DOMAIN reports)
    BY <1>9, <1>10 DEF StatusInv
  <2>2. CASE k \in DOMAIN reports
    BY <1>9, <1>10, <2>2 DEF StatusInv
  <2>3. CASE k - Len(reports) \in DOMAIN added /\ k \notin DOMAIN reports
    <3>1. reports'[k] = added[k - Len(reports)]
      BY <1>9, <1>10, <2>3 DEF StatusInv
    <3> QED
      BY <1>1, <1>9, <2>3, <3>1
  <2> QED
    BY <2>1, <2>2, <2>3
<1> QED
  BY <1>9, <1>10, <1>11 DEF StatusInv

(* Reports keep their type, whatever is reported, voted or deleted.         *)
LEMMA StatusInductive == StatusInv /\ [StatusNext]_statusVars => StatusInv'
<1> SUFFICES ASSUME StatusInv, [StatusNext]_statusVars PROVE StatusInv'
  OBVIOUS
<1>1. CASE UNCHANGED statusVars
  BY <1>1 DEF statusVars, StatusInv, ReportRow
<1>2. CASE TickHour
  <2>1. hour' = hour + 1 /\ hour' \in 0 .. MaxHour /\ reports' = reports /\ votes' = votes
    BY <1>2, StatusAssumption DEF TickHour, StatusInv
  <2>2. \A k \in DOMAIN reports : reports[k].at <= hour + 1
    BY ReportsHaveRows
  <2> QED
    BY <2>1, <2>2 DEF StatusInv
<1>3. ASSUME NEW lines \in SUBSET StatusLines, NEW status \in StatusSet,
             NEW link \in TaggedLinks \cup {NoLink}, Report(lines, status, link)
      PROVE  StatusInv'
  BY <1>3, ReportAddsRows
<1>4. ASSUME NEW user \in Voters, NEW link \in TaggedLinks,
             _remove_vote(user, link) \/ \E value \in {-1, 1} : _apply_vote(user, link, value)
      PROVE  StatusInv'
  <2>1. PICK value \in {-1, 0, 1} : votes' = [votes EXCEPT ![user][link] = value]
    BY <1>4 DEF _remove_vote, _apply_vote
  <2>2. votes' \in [Voters -> [TaggedLinks -> {-1, 0, 1}]]
    BY <2>1 DEF StatusInv
  <2>3. UNCHANGED <<hour, reports>>
    BY <1>4 DEF _remove_vote, _apply_vote
  <2> QED
    BY <2>2, <2>3 DEF StatusInv
<1>5. ASSUME NEW link \in TaggedLinks, DeleteTaggedLink(link)
      PROVE  StatusInv'
  <2> DEFINE row(k) == IF reports[k].link = link THEN [reports[k] EXCEPT !.link = NoLink] ELSE reports[k]
  <2>1. reports' = [k \in DOMAIN reports |-> row(k)] /\ hour' = hour
    BY <1>5 DEF DeleteTaggedLink
  <2>2. \A k \in DOMAIN reports : row(k) \in ReportRow /\ row(k).at = reports[k].at
    BY ReportsHaveRows DEF ReportRow
  <2> HIDE DEF row
  <2>3. reports' \in Seq(ReportRow) /\ \A k \in DOMAIN reports' : reports'[k].at <= hour'
    BY <2>1, <2>2, ReportsHaveRows DEF StatusInv
  <2>4. votes' \in [Voters -> [TaggedLinks -> {-1, 0, 1}]]
    BY <1>5 DEF DeleteTaggedLink, StatusInv
  <2> QED
    BY <2>1, <2>3, <2>4 DEF StatusInv
<1> QED
  BY <1>1, <1>2, <1>3, <1>4, <1>5 DEF StatusNext

LEMMA StatusInitially == StatusInit => StatusInv
BY StatusAssumption DEF StatusInit, StatusInv

---------------------------------------------------------------------------
(* The service day of an instant, counted from that of instant 0.           *)
ServiceDayNo(t) == (t - DAY_START_HOUR) \div INSTANTS_PER_DAY

LEMMA Quotient ==
    ASSUME NEW b \in Nat \ {0}, NEW a \in Int
    PROVE  /\ a \div b \in Int /\ (a \div b) * b <= a /\ a < (a \div b) * b + b
           /\ \A q \in Int : q * b <= a /\ a < q * b + b => a \div b = q
OBVIOUS

LEMMA MultiplesInOrder ==
    ASSUME NEW b \in Nat \ {0}, NEW x \in Int, NEW y \in Int, x * b < y * b + b
    PROVE  x <= y
OBVIOUS

LEMMA MultipleOfDifference ==
    ASSUME NEW b \in Nat \ {0}, NEW x \in Int, NEW y \in Int
    PROVE  (x - y) * b \in Int /\ x * b \in Int /\ y * b \in Int /\ (x - y) * b = x * b - y * b
OBVIOUS

LEMMA DayLength == INSTANTS_PER_DAY \in Nat \ {0} /\ DAY_START_HOUR \in 0 .. INSTANTS_PER_DAY - 1
BY ServiceDayAssumption

(* service_day_start is where the service day of the instant begins.        *)
LEMMA ServiceDayStarts ==
    ASSUME NEW t \in Int
    PROVE  /\ ServiceDayNo(t) \in Int
           /\ service_day_start(t) = ServiceDayNo(t) * INSTANTS_PER_DAY + DAY_START_HOUR
<1> DEFINE I == INSTANTS_PER_DAY
           H == DAY_START_HOUR
           q == t \div I
<1>1. I \in Nat \ {0} /\ H \in 0 .. I - 1
  BY DayLength
<1>2. q \in Int /\ q * I <= t /\ t < q * I + I /\ q * I \in Int
  BY <1>1, Quotient
<1>3. t - H \in Int /\ ServiceDayNo(t) \in Int
  BY <1>1, Quotient DEF ServiceDayNo
<1>4. (q - 1) * I = q * I - I /\ q - 1 \in Int
  BY <1>1, <1>2, MultipleOfDifference
<1>5. service_day_start(t) = IF t < q * I + H THEN q * I + H - I ELSE q * I + H
  BY <1>1, <1>2 DEF service_day_start, Midnight, Day
<1>6. CASE t < q * I + H
  <2>1. (q - 1) * I <= t - H /\ t - H < (q - 1) * I + I
    BY <1>1, <1>2, <1>4, <1>6
  <2>2. ServiceDayNo(t) = q - 1
    BY <1>1, <1>3, <1>4, <2>1, Quotient DEF ServiceDayNo
  <2> QED
    BY <1>1, <1>2, <1>3, <1>4, <1>5, <1>6, <2>2
<1>7. CASE ~ (t < q * I + H)
  <2>1. q * I <= t - H /\ t - H < q * I + I
    BY <1>1, <1>2, <1>7
  <2>2. ServiceDayNo(t) = q
    BY <1>1, <1>2, <1>3, <2>1, Quotient DEF ServiceDayNo
  <2> QED
    BY <1>2, <1>3, <1>5, <1>7, <2>2
<1> QED
  BY <1>6, <1>7

(* The day that began days_ago days ago is the one whose number is so much  *)
(* smaller, and holds the instants with that number.                        *)
LEMMA DaysAgo ==
    ASSUME NEW d \in Int, hour \in Nat
    PROVE  /\ DayStart(d) \in Int /\ ServiceDayNo(DayStart(d)) = ServiceDayNo(hour) - d
           /\ \A t \in Int : ServiceDayNo(t) = ServiceDayNo(hour) - d
                               <=> DayStart(d) <= t /\ t < DayStart(d) + INSTANTS_PER_DAY
<1> DEFINE I == INSTANTS_PER_DAY
           H == DAY_START_HOUR
           n == ServiceDayNo(hour) - d
<1>1. I \in Nat \ {0} /\ H \in 0 .. I - 1
  BY DayLength
<1>2. ServiceDayNo(hour) \in Int /\ n \in Int
  BY ServiceDayStarts
<1>3. n * I \in Int /\ n * I = ServiceDayNo(hour) * I - d * I /\ d * I \in Int
      /\ ServiceDayNo(hour) * I \in Int
  BY <1>1, <1>2, MultipleOfDifference
<1>4. DayStart(d) = n * I + H
  BY <1>1, <1>3, ServiceDayStarts DEF DayStart
<1> HIDE DEF n
<1>5. ASSUME NEW t \in Int
      PROVE  ServiceDayNo(t) = n <=> DayStart(d) <= t /\ t < DayStart(d) + I
  <2>1. t - H \in Int
    BY <1>1
  <2>2. /\ ServiceDayNo(t) \in Int
        /\ ServiceDayNo(t) * I <= t - H /\ t - H < ServiceDayNo(t) * I + I
        /\ n * I <= t - H /\ t - H < n * I + I => ServiceDayNo(t) = n
    BY <1>1, <1>2, <2>1, Quotient DEF ServiceDayNo
  <2>3. ServiceDayNo(t) = n => n * I <= t - H /\ t - H < n * I + I
    BY <2>2
  <2> QED
    BY <1>1, <1>3, <1>4, <2>2, <2>3
<1>6. DayStart(d) \in Int
  BY <1>1, <1>3, <1>4
<1>7. ServiceDayNo(DayStart(d)) = n
  BY <1>1, <1>5, <1>6
<1> QED
  BY <1>5, <1>6, <1>7 DEF n

(* The buckets of a day together: the reports whose service day it is.      *)
HeldOn(lines, d) ==
    UNION {load_line_status_history(lines, d)[n].reports : n \in DOMAIN load_line_status_history(lines, d)}

LEMMA HeldByDay ==
    ASSUME StatusInv, NEW lines, NEW d \in Nat
    PROVE  /\ HeldOn(lines, d) = {k \in Of(lines) : ServiceDayNo(reports[k].at) = ServiceDayNo(hour) - d}
           /\ load_line_status_history(lines, d) # <<>> => HeldOn(lines, d) # {}
<1> DEFINE ds == DayStart(d)
           I == INSTANTS_PER_DAY
           per_hour == {k \in Of(lines) : reports[k].at \in ds .. hour /\ reports[k].at < ds + I}
           day == load_line_status_history(lines, d)
<1>1. I \in Nat \ {0} /\ hour \in Nat /\ ds \in Int
  BY DayLength, DaysAgo, ReportsHaveRows
<1>2. \A k \in Of(lines) : reports[k].at \in 0 .. hour
  BY ReportsHaveRows DEF Of
<1>3. per_hour = {k \in Of(lines) : ServiceDayNo(reports[k].at) = ServiceDayNo(hour) - d}
  BY <1>1, <1>2, DaysAgo
<1>4. day = IF per_hour = {} THEN <<>>
            ELSE [n \in 1 .. I |-> Bucket({k \in per_hour : reports[k].at = ds + n - 1})]
  BY DEF load_line_status_history, bucket_hourly
<1>5. \A k \in per_hour : reports[k].at - ds + 1 \in 1 .. I
                          /\ reports[k].at = ds + (reports[k].at - ds + 1) - 1
  BY <1>1, <1>2
<1> HIDE DEF per_hour, ds
<1>6. HeldOn(lines, d) = per_hour
  <2>1. CASE per_hour = {}
    BY <1>4, <2>1 DEF HeldOn
  <2>2. CASE per_hour # {}
    <3> DEFINE slot(n) == {k \in per_hour : reports[k].at = ds + n - 1}
    <3>1. HeldOn(lines, d) = UNION {day[n].reports : n \in DOMAIN day}
      BY DEF HeldOn
    <3>2. day = [n \in 1 .. I |-> Bucket(slot(n))]
      BY <1>4, <2>2
    <3> HIDE DEF day, slot
    <3>3. DOMAIN day = 1 .. I
      BY <3>2
    <3>4. ASSUME NEW n \in 1 .. I
          PROVE  day[n].reports = slot(n)
      BY <3>2 DEF Bucket
    <3>5. HeldOn(lines, d) = UNION {slot(n) : n \in 1 .. I}
      BY <3>1, <3>3, <3>4
    <3>6. ASSUME NEW k \in per_hour
          PROVE  k \in UNION {slot(n) : n \in 1 .. I}
      BY <1>5 DEF slot
    <3> QED
      BY <3>5, <3>6 DEF slot
  <2> QED
    BY <2>1, <2>2
<1> QED
  BY <1>3, <1>4, <1>6

(* The reports of the last weeks are on the days of the last weeks.         *)
LEMMA WeeksAreDays ==
    ASSUME StatusInv, NEW lines, NEW k \in InWeeks(lines)
    PROVE  ServiceDayNo(hour) - ServiceDayNo(reports[k].at) \in 0 .. weeks * DAYS_IN_WEEK
<1> DEFINE I == INSTANTS_PER_DAY
           H == DAY_START_HOUR
           W == weeks * DAYS_IN_WEEK
           at == reports[k].at
           n == ServiceDayNo(hour)
           m == ServiceDayNo(at)
<1>1. I \in Nat \ {0} /\ H \in 0 .. I - 1 /\ hour \in Nat /\ W \in Nat
  BY DayLength, ReportsHaveRows, StatusAssumption
<1>2. k \in DOMAIN reports /\ hour - W * I <= at /\ at <= hour
  BY DEF InWeeks, Of, WeekStart
<1>3. at \in Nat
  BY <1>2, ReportsHaveRows
<1> HIDE DEF W, at
<1>4. /\ n \in Int /\ n * I \in Int /\ n * I <= hour - H /\ hour - H < n * I + I
  BY <1>1, Quotient DEF ServiceDayNo
<1>5. /\ m \in Int /\ m * I \in Int /\ m * I <= at - H /\ at - H < m * I + I
  BY <1>1, <1>3, Quotient DEF ServiceDayNo
<1> HIDE DEF n, m
<1>6. m <= n
  <2>1. m * I < n * I + I
    BY <1>1, <1>2, <1>3, <1>4, <1>5
  <2> QED
    BY <1>1, <1>4, <1>5, <2>1, MultiplesInOrder
<1>7. n - W <= m
  <2>1. n - W \in Int /\ W * I \in Int /\ (n - W) * I = n * I - W * I
    BY <1>1, <1>4, MultipleOfDifference
  <2>2. (n - W) * I < m * I + I
    BY <1>1, <1>2, <1>3, <1>4, <1>5, <2>1
  <2> QED
    BY <1>1, <1>5, <2>1, <2>2, MultiplesInOrder
<1> QED
  BY <1>1, <1>4, <1>5, <1>6, <1>7 DEF n, m, at, W

(* A slot of the week holds what the days of that weekday hold at its hour. *)
LEMMA SlotsOfTheWeek ==
    ASSUME StatusInv, NEW lines, NEW weekday, NEW clock,
           weekday \in DOMAIN bucket_week_profile(lines), clock \in 0 .. INSTANTS_PER_DAY - 1
    PROVE  bucket_week_profile(lines)[weekday][clock].reports =
             UNION {{k \in HeldOn(lines, d) : reports[k].at % INSTANTS_PER_DAY = clock} \cap InWeeks(lines) :
                      d \in {e \in 0 .. weeks * DAYS_IN_WEEK : Weekday(DayStart(e)) = weekday}}
<1> DEFINE W == weeks * DAYS_IN_WEEK
           n == ServiceDayNo(hour)
           slot(k) == reports[k].at % INSTANTS_PER_DAY = clock
           shown == {k \in InWeeks(lines) : Weekday(reports[k].at) = weekday /\ slot(k)}
           onDay(d) == {k \in HeldOn(lines, d) : slot(k)} \cap InWeeks(lines)
           days == {e \in 0 .. W : Weekday(DayStart(e)) = weekday}
<1>1. bucket_week_profile(lines)[weekday][clock].reports = shown
  BY DEF bucket_week_profile, Bucket
<1>2. hour \in Nat /\ n \in Int /\ W \in Nat
  BY ReportsHaveRows, ServiceDayStarts, StatusAssumption
<1>3. \A k \in InWeeks(lines) : k \in Of(lines) /\ reports[k].at \in Nat
  BY ReportsHaveRows DEF InWeeks, Of
<1>4. \A d \in 0 .. W : Weekday(DayStart(d)) = (n - d) % DAYS_IN_WEEK
  BY <1>2, DaysAgo DEF Weekday, ServiceDayNo
<1>5. \A k \in InWeeks(lines) : Weekday(reports[k].at) = ServiceDayNo(reports[k].at) % DAYS_IN_WEEK
  BY DEF Weekday, ServiceDayNo
<1>6. \A d \in 0 .. W : HeldOn(lines, d) = {k \in Of(lines) : ServiceDayNo(reports[k].at) = n - d}
  BY <1>2, HeldByDay
<1>7. ASSUME NEW k \in shown
      PROVE  \E d \in days : k \in onDay(d)
  <2> DEFINE m == ServiceDayNo(reports[k].at)
             d == n - m
  <2>1. d \in 0 .. W
    BY WeeksAreDays
  <2>2. m \in Int
    BY <1>3, ServiceDayStarts
  <2>3. n - d = m
    BY <1>2, <2>2
  <2>4. k \in onDay(d)
    BY <1>3, <1>6, <2>1, <2>3
  <2>5. Weekday(DayStart(d)) = weekday
    BY <1>4, <1>5, <2>1, <2>3
  <2> QED
    BY <2>1, <2>4, <2>5
<1>8. ASSUME NEW d \in days, NEW k \in onDay(d)
      PROVE  k \in shown
  <2>1. d \in 0 .. W /\ k \in HeldOn(lines, d) /\ k \in InWeeks(lines) /\ slot(k)
    OBVIOUS
  <2>2. ServiceDayNo(reports[k].at) = n - d
    BY <1>6, <2>1
  <2> QED
    BY <1>4, <1>5, <2>1, <2>2
<1>9. shown = UNION {onDay(d) : d \in days}
  <2> HIDE DEF shown, onDay, days
  <2> QED
    BY <1>7, <1>8
<1> QED
  BY <1>1, <1>9

LEMMA HistoryMatches == StatusInv => HistoryMatchesProfile
<1> SUFFICES ASSUME StatusInv, NEW line \in StatusLines
             PROVE  LET lines == {line}
                        days == 0 .. weeks * DAYS_IN_WEEK
                        day(d) == load_line_status_history(lines, d)
                        held(d) == UNION {day(d)[n].reports : n \in DOMAIN day(d)}
                        profile == bucket_week_profile(lines)
                    IN
                    /\ \A weekday \in DOMAIN profile, clock \in 0 .. INSTANTS_PER_DAY - 1 :
                          profile[weekday][clock].reports =
                              UNION {{k \in held(d) : reports[k].at % INSTANTS_PER_DAY = clock} \cap InWeeks(lines) :
                                        d \in {e \in days : Weekday(DayStart(e)) = weekday}}
                    /\ \A d, e \in days : d # e => held(d) \cap held(e) = {}
                    /\ \A d \in days : day(d) # <<>> => held(d) # {}
                    /\ profile = <<>> <=> InWeeks(lines) = {}
  BY DEF HistoryMatchesProfile
<1> DEFINE lines == {line}
           days == 0 .. weeks * DAYS_IN_WEEK
           profile == bucket_week_profile(lines)
<1>1. days \subseteq Nat /\ DAYS_IN_WEEK \in Nat \ {0}
  BY StatusAssumption
<1>2. \A weekday \in DOMAIN profile, clock \in 0 .. INSTANTS_PER_DAY - 1 :
         profile[weekday][clock].reports =
             UNION {{k \in HeldOn(lines, d) : reports[k].at % INSTANTS_PER_DAY = clock} \cap InWeeks(lines) :
                       d \in {e \in days : Weekday(DayStart(e)) = weekday}}
  BY SlotsOfTheWeek
<1>3. \A d, e \in days : d # e => HeldOn(lines, d) \cap HeldOn(lines, e) = {}
  <2> SUFFICES ASSUME NEW d \in days, NEW e \in days, d # e,
                      NEW k \in HeldOn(lines, d) \cap HeldOn(lines, e)
               PROVE  FALSE
    OBVIOUS
  <2>1. ServiceDayNo(reports[k].at) = ServiceDayNo(hour) - d
    BY <1>1, HeldByDay
  <2>2. ServiceDayNo(reports[k].at) = ServiceDayNo(hour) - e
    BY <1>1, HeldByDay
  <2>3. ServiceDayNo(hour) \in Int
    BY ReportsHaveRows, ServiceDayStarts
  <2> QED
    BY <1>1, <2>1, <2>2, <2>3
<1>4. \A d \in days : load_line_status_history(lines, d) # <<>> => HeldOn(lines, d) # {}
  BY <1>1, HeldByDay
<1>5. profile = <<>> <=> InWeeks(lines) = {}
  <2>1. InWeeks(lines) # {} => DOMAIN profile = 0 .. DAYS_IN_WEEK - 1
    BY DEF bucket_week_profile
  <2>2. 0 \in 0 .. DAYS_IN_WEEK - 1 /\ DOMAIN <<>> = {}
    BY <1>1
  <2>3. InWeeks(lines) = {} => profile = <<>>
    BY DEF bucket_week_profile
  <2> QED
    BY <2>1, <2>2, <2>3
<1> QED
  BY <1>2, <1>3, <1>4, <1>5 DEF HeldOn

---------------------------------------------------------------------------
(* The pulse.                                                               *)

LEMMA ScoresAreIntegers ==
    ASSUME NEW link
    PROVE  _link_score(link) \in Int
<1> DEFINE by(value) == {user \in Voters : votes[user][link] = value}
<1>1. IsFiniteSet(by(1)) /\ IsFiniteSet(by(-1))
  BY StatusAssumption, FS_Subset
<1>2. Cardinality(by(1)) \in Nat /\ Cardinality(by(-1)) \in Nat
  BY <1>1, FS_CardinalityType
<1>3. _link_score(link) = Cardinality(by(1)) - Cardinality(by(-1))
  BY DEF _link_score
<1> QED
  BY <1>2, <1>3

(* Every report counts, and but once when its link has no positive score.   *)
LEMMA EveryReportCounts ==
    ASSUME NEW k
    PROVE  /\ Contribution(k) \in Nat /\ Contribution(k) > 0
           /\ (reports[k].link # NoLink => _link_score(reports[k].link) <= 0) => Contribution(k) = 1
<1>1. _link_score(reports[k].link) \in Int
  BY ScoresAreIntegers
<1> QED
  BY <1>1 DEF Contribution

(* The ballots of a set of reports are finitely many, as many as the        *)
(* reports when each counts once.                                           *)
LEMMA BallotsAreCounted ==
    ASSUME StatusInv, NEW entries \in SUBSET (DOMAIN reports)
    PROVE  /\ IsFiniteSet(entries) /\ Cardinality(entries) \in Nat
           /\ Cardinality(Ballots(entries)) \in Nat
           /\ (\A k \in entries : Contribution(k) = 1) => Cardinality(Ballots(entries)) = Cardinality(entries)
<1> DEFINE N == Len(reports)
           c == [k \in 1 .. N |-> Contribution(k)]
<1>1. DOMAIN reports = 1 .. N /\ N \in Nat
  BY ReportsHaveRows
<1>2. \A k \in 1 .. N : c[k] \in Nat /\ c[k] = Contribution(k)
  BY EveryReportCounts
<1> HIDE DEF c
<1>3. PICK b \in Nat : \A k \in 1 .. N : c[k] <= b
  BY <1>1, <1>2, ValuesBounded
<1>4. IsFiniteSet(1 .. N) /\ IsFiniteSet(1 .. b)
  BY <1>1, <1>3, FS_Interval
<1>5. IsFiniteSet((1 .. N) \X (1 .. b))
  BY <1>4, FS_Product
<1>6. Ballots(entries) \subseteq (1 .. N) \X (1 .. b)
  <2> SUFFICES ASSUME NEW k \in entries, NEW n \in 1 .. Contribution(k)
               PROVE  <<k, n>> \in (1 .. N) \X (1 .. b)
    BY DEF Ballots
  <2>1. k \in 1 .. N /\ Contribution(k) \in Nat /\ Contribution(k) <= b
    BY <1>1, <1>2, <1>3
  <2> QED
    BY <1>3, <2>1
<1>7. IsFiniteSet(entries) /\ Cardinality(entries) \in Nat
  BY <1>1, <1>4, FS_Subset, FS_CardinalityType
<1>8. IsFiniteSet(Ballots(entries)) /\ Cardinality(Ballots(entries)) \in Nat
  BY <1>5, <1>6, FS_Subset, FS_CardinalityType
<1>9. ASSUME \A k \in entries : Contribution(k) = 1
      PROVE  Cardinality(Ballots(entries)) = Cardinality(entries)
  <2> DEFINE f == [k \in entries |-> <<k, 1>>]
  <2>1. Ballots(entries) = {<<k, 1>> : k \in entries}
    <3>1. \A k \in entries : {k} \X (1 .. Contribution(k)) = {<<k, 1>>}
      BY <1>9
    <3> QED
      BY <3>1 DEF Ballots
  <2>2. f \in Bijection(entries, Ballots(entries))
    BY <2>1 DEF Bijection, Injection, Surjection, IsInjective
  <2> QED
    BY <1>7, <2>2, FS_Bijection DEF ExistsBijection
<1> QED
  BY <1>7, <1>8, <1>9

(* Among the statuses reported there is one that outweighs the others.      *)
LEMMA HeaviestExists ==
    ASSUME StatusInv, NEW entries \in SUBSET (DOMAIN reports), entries # {}
    PROVE  \E i \in Reported(entries) : \A j \in Reported(entries) \ {i} : Outweighs(entries, i, j)
<1> USE DEF Reported
<1> DEFINE present == Reported(entries)
           w(k) == Weight(entries, SEVERITY[k])
           t(k) == Latest(entries, SEVERITY[k])
           ranks == DOMAIN SEVERITY
<1>1. ranks = 1 .. Len(SEVERITY) /\ Len(SEVERITY) \in Nat
  BY StatusAssumption
<1>2. \A k \in ranks : w(k) \in Nat
  <2>1. \A k \in ranks : WithStatus(entries, SEVERITY[k]) \in SUBSET (DOMAIN reports)
    BY DEF WithStatus
  <2> QED
    BY <2>1, BallotsAreCounted DEF Weight
<1>3. \A k \in present : t(k) \in 0 .. hour
  <2> SUFFICES ASSUME NEW k \in present PROVE t(k) \in 0 .. hour
    OBVIOUS
  <2> DEFINE ats == {reports[r].at : r \in WithStatus(entries, SEVERITY[k])}
  <2>1. ats \subseteq 0 .. hour /\ ats # {} /\ hour \in Nat
    BY ReportsHaveRows DEF WithStatus
  <2> HIDE DEF ats
  <2>2. PICK m \in ats : \A n \in ats : n <= m
    <3>1. ats \in SUBSET Nat /\ \A n \in ats : n <= hour
      BY <2>1
    <3> QED
      BY <2>1, <3>1, GreatestNatural
  <2>3. \A n \in ats : m >= n
    BY <2>1, <2>2
  <2>4. Max(ats) \in ats
    BY <2>3 DEF Max
  <2> QED
    BY <2>1, <2>4 DEF Latest, ats
<1>4. present # {}
  <2>1. PICK k \in entries : TRUE
    OBVIOUS
  <2>2. reports[k].status \in StatusSet
    BY ReportsHaveRows DEF ReportRow
  <2>3. PICK i \in ranks : SEVERITY[i] = reports[k].status
    BY <2>2 DEF StatusSet
  <2> QED
    BY <2>1, <2>3 DEF WithStatus
<1>5. hour \in Nat
  BY ReportsHaveRows
<1>6. \A i, j \in present : Outweighs(entries, i, j) <=>
         w(i) > w(j) \/ (w(i) = w(j) /\ (t(i) > t(j) \/ (t(i) = t(j) /\ i > j)))
  BY DEF Outweighs
<1> HIDE DEF w, t
<1> DEFINE v == [k \in 1 .. Len(SEVERITY) |-> w(k)]
<1>7. PICK b \in Nat : \A k \in ranks : w(k) <= b
  <2>1. \A k \in 1 .. Len(SEVERITY) : v[k] \in Nat /\ v[k] = w(k)
    BY <1>1, <1>2
  <2> HIDE DEF v
  <2>2. PICK b \in Nat : \A k \in 1 .. Len(SEVERITY) : v[k] <= b
    BY <1>1, <2>1, ValuesBounded
  <2> QED
    BY <1>1, <2>1, <2>2
<1>8. PICK i1 \in present : \A j \in present : w(j) <= w(i1)
  <2> DEFINE weights == {w(k) : k \in present}
  <2>1. weights \in SUBSET Nat /\ weights # {} /\ \A x \in weights : x <= b
    BY <1>2, <1>4, <1>7
  <2> HIDE DEF weights
  <2>2. PICK m \in weights : \A n \in weights : n <= m
    BY <2>1, <1>7, GreatestNatural
  <2> QED
    BY <2>2 DEF weights
<1> DEFINE heavy == {k \in present : w(k) = w(i1)}
<1>9. PICK i2 \in heavy : \A j \in heavy : t(j) <= t(i2)
  <2> DEFINE times == {t(k) : k \in heavy}
  <2>1. times \in SUBSET Nat /\ times # {} /\ \A x \in times : x <= hour
    BY <1>3, <1>5, <1>8
  <2> HIDE DEF times
  <2>2. PICK m \in times : \A n \in times : n <= m
    BY <2>1, <1>5, GreatestNatural
  <2> QED
    BY <2>2 DEF times
<1> DEFINE fresh == {k \in heavy : t(k) = t(i2)}
<1>10. PICK i \in fresh : \A j \in fresh : j <= i
  <2>1. fresh \in SUBSET Nat /\ fresh # {} /\ \A x \in fresh : x <= Len(SEVERITY)
    <3>1. \A k \in fresh : k \in ranks
      BY <1>9
    <3>2. i2 \in fresh
      BY <1>9
    <3> HIDE DEF fresh
    <3> QED
      BY <1>1, <3>1, <3>2
  <2> QED
    BY <1>1, <2>1, GreatestNatural
<1>11. ASSUME NEW j \in present \ {i}
       PROVE  Outweighs(entries, i, j)
  <2>1. /\ i \in present /\ j \in present /\ i \in Nat /\ j \in Nat /\ i # j
        /\ w(i) \in Nat /\ w(j) \in Nat /\ t(i) \in Nat /\ t(j) \in Nat
        /\ w(i) = w(i1) /\ t(i) = t(i2) /\ w(j) <= w(i1)
    BY <1>1, <1>2, <1>3, <1>5, <1>8, <1>10
  <2>2. w(j) = w(i1) => t(j) <= t(i2)
    BY <1>9, <2>1
  <2>3. w(j) = w(i1) /\ t(j) = t(i2) => j <= i
    BY <1>10, <2>1
  <2> QED
    BY <1>6, <2>1, <2>2, <2>3
<1> QED
  BY <1>10, <1>11

LEMMA PulseKeeps == StatusInv => PulseKeepsReports
<1> SUFFICES ASSUME StatusInv, NEW line \in StatusLines, Recent(line) # {}
             PROVE  LET pulse == load_line_pulse(line)
                        entries == Recent(line)
                        counts == StatusCounts(entries)
                    IN  /\ pulse.status_counts = counts
                        /\ (\A k \in entries : reports[k].link # NoLink => _link_score(reports[k].link) <= 0)
                              => \A status \in StatusSet : counts[status] <= counts[pulse.status]
  BY DEF PulseKeepsReports
<1> USE DEF Reported
<1> DEFINE entries == Recent(line)
           counts == StatusCounts(entries)
           pulse == load_line_pulse(line)
           present == Reported(entries)
           best == CHOOSE i \in present : \A j \in present \ {i} : Outweighs(entries, i, j)
<1>1. entries \in SUBSET (DOMAIN reports)
  BY DEF Recent, Of
<1>2. Contributing(line) = entries
  BY EveryReportCounts DEF Contributing
<1>3. pulse = [status |-> SEVERITY[best], status_counts |-> counts]
  BY <1>2 DEF load_line_pulse
<1>4. best \in present /\ \A j \in present \ {best} : Outweighs(entries, best, j)
  BY <1>1, HeaviestExists
<1>5. ASSUME \A k \in entries : reports[k].link # NoLink => _link_score(reports[k].link) <= 0,
             NEW status \in StatusSet
      PROVE  counts[status] <= counts[SEVERITY[best]]
  <2> DEFINE count(s) == Cardinality(WithStatus(entries, s))
  <2>1. \A k \in entries : Contribution(k) = 1
    BY <1>5, EveryReportCounts
  <2>2. \A s : WithStatus(entries, s) \in SUBSET (DOMAIN reports) /\ WithStatus(entries, s) \subseteq entries
    BY <1>1 DEF WithStatus
  <2>3. \A s : Weight(entries, s) = count(s) /\ count(s) \in Nat
    BY <2>1, <2>2, BallotsAreCounted DEF Weight
  <2>4. PICK j \in DOMAIN SEVERITY : SEVERITY[j] = status
    BY DEF StatusSet
  <2>5. SEVERITY[best] \in StatusSet
    BY <1>4 DEF StatusSet
  <2>6. counts[status] = count(SEVERITY[j]) /\ counts[SEVERITY[best]] = count(SEVERITY[best])
    BY <2>4, <2>5 DEF StatusCounts
  <2> HIDE DEF count
  <2>7. CASE j \notin present
    <3>1. count(SEVERITY[j]) = 0
      BY <2>7, FS_EmptySet DEF count
    <3> QED
      BY <2>3, <2>6, <3>1
  <2>8. CASE j = best
    BY <2>3, <2>6, <2>8
  <2>9. CASE j \in present \ {best}
    <3>1. Outweighs(entries, best, j)
      BY <1>4, <2>9
    <3>2. Weight(entries, SEVERITY[best]) >= Weight(entries, SEVERITY[j])
      BY <2>3, <3>1 DEF Outweighs
    <3> QED
      BY <2>3, <2>6, <3>2
  <2> QED
    BY <2>7, <2>8, <2>9
<1> HIDE DEF best, counts
<1>6. pulse.status = SEVERITY[best] /\ pulse.status_counts = counts
  BY <1>3
<1> QED
  BY <1>5, <1>6 DEF counts

---------------------------------------------------------------------------
(* The status a bucket shows.                                               *)

(* A status that prevails over every other, reported or not.                *)
Leads(entries, i) ==
    /\ WithStatus(entries, SEVERITY[i]) # {}
    /\ \A j \in DOMAIN SEVERITY \ {i} : Prevails(entries, i, j)

Tally(entries, i) == Cardinality(WithStatus(entries, SEVERITY[i]))

LEMMA TalliesAreNaturals ==
    ASSUME StatusInv, NEW entries \in SUBSET (DOMAIN reports), NEW i \in DOMAIN SEVERITY
    PROVE  /\ IsFiniteSet(WithStatus(entries, SEVERITY[i]))
           /\ Tally(entries, i) \in Nat /\ i \in Nat
           /\ Tally(entries, i) = 0 <=> WithStatus(entries, SEVERITY[i]) = {}
<1>1. WithStatus(entries, SEVERITY[i]) \in SUBSET (DOMAIN reports)
  BY DEF WithStatus
<1>2. IsFiniteSet(WithStatus(entries, SEVERITY[i]))
  BY <1>1, BallotsAreCounted
<1>3. i \in Nat
  BY StatusAssumption
<1> QED
  BY <1>2, <1>3, FS_CardinalityType, FS_EmptySet DEF Tally

(* Every set of reports but the empty one has a status that leads, and it   *)
(* is the one shown.                                                        *)
LEMMA OneStatusLeads ==
    ASSUME StatusInv, NEW entries \in SUBSET (DOMAIN reports), entries # {}
    PROVE  \E i \in DOMAIN SEVERITY :
              /\ Leads(entries, i) /\ _dominant_status(entries) = SEVERITY[i]
              /\ \A j \in DOMAIN SEVERITY : Leads(entries, j) => j = i
<1> DEFINE ranks == DOMAIN SEVERITY
           n(k) == Tally(entries, k)
           present == Reported(entries)
<1>1. ranks = 1 .. Len(SEVERITY) /\ Len(SEVERITY) \in Nat
  BY StatusAssumption
<1>2. \A k \in ranks : n(k) \in Nat /\ k \in Nat /\ (n(k) = 0 <=> k \notin present)
  BY TalliesAreNaturals DEF Reported
<1>3. \A i, j \in ranks : Prevails(entries, i, j) <=> n(i) > n(j) \/ (n(i) = n(j) /\ i > j)
  BY DEF Prevails, Tally
<1>4. PICK k0 \in ranks : k0 \in present
  <2>1. PICK k \in entries : TRUE
    OBVIOUS
  <2>2. reports[k].status \in StatusSet
    BY ReportsHaveRows DEF ReportRow
  <2>3. PICK i \in ranks : SEVERITY[i] = reports[k].status
    BY <2>2 DEF StatusSet
  <2> QED
    BY <2>1, <2>3 DEF WithStatus, Reported
<1> HIDE DEF n, present
<1>5. PICK b \in Nat : \A k \in ranks : n(k) <= b
  <2> DEFINE v == [k \in 1 .. Len(SEVERITY) |-> n(k)]
  <2>1. \A k \in 1 .. Len(SEVERITY) : v[k] \in Nat /\ v[k] = n(k)
    BY <1>1, <1>2
  <2> HIDE DEF v
  <2>2. PICK b \in Nat : \A k \in 1 .. Len(SEVERITY) : v[k] <= b
    BY <1>1, <2>1, ValuesBounded
  <2> QED
    BY <1>1, <2>1, <2>2
<1>6. PICK i1 \in ranks : \A j \in ranks : n(j) <= n(i1)
  <2> DEFINE tallies == {n(k) : k \in ranks}
  <2>1. tallies \in SUBSET Nat /\ tallies # {} /\ \A x \in tallies : x <= b
    BY <1>2, <1>4, <1>5
  <2> HIDE DEF tallies
  <2>2. PICK m \in tallies : \A x \in tallies : x <= m
    BY <2>1, <1>5, GreatestNatural
  <2> QED
    BY <2>2 DEF tallies
<1> DEFINE most == {k \in ranks : n(k) = n(i1)}
<1>7. PICK i \in most : \A j \in most : j <= i
  <2>1. most \in SUBSET Nat /\ most # {} /\ \A x \in most : x <= Len(SEVERITY)
    BY <1>1, <1>6
  <2> QED
    BY <1>1, <2>1, GreatestNatural
<1>8. i \in ranks /\ \A j \in ranks \ {i} : Prevails(entries, i, j)
  <2> SUFFICES ASSUME NEW j \in ranks \ {i} PROVE Prevails(entries, i, j)
    BY <1>7
  <2>1. i \in ranks /\ n(i) = n(i1) /\ n(j) <= n(i1) /\ (n(j) = n(i1) => j <= i)
    BY <1>6, <1>7
  <2>2. n(i) \in Nat /\ n(j) \in Nat /\ i \in Nat /\ j \in Nat /\ i # j
    BY <1>2, <2>1
  <2> QED
    BY <1>3, <2>1, <2>2
<1>9. i \in present /\ Leads(entries, i)
  <2>1. n(k0) # 0 /\ n(k0) <= n(i) /\ n(k0) \in Nat /\ n(i) \in Nat
    BY <1>2, <1>4, <1>6, <1>7
  <2>2. i \in present
    BY <1>2, <1>8, <2>1
  <2> QED
    BY <1>8, <2>2 DEF Leads, Reported, present
<1>10. \A j \in ranks : (\A k \in present \ {j} : Prevails(entries, j, k)) => j = i
  <2> SUFFICES ASSUME NEW j \in ranks, \A k \in present \ {j} : Prevails(entries, j, k), j # i
               PROVE  FALSE
    OBVIOUS
  <2>1. Prevails(entries, i, j) /\ Prevails(entries, j, i)
    BY <1>8, <1>9
  <2> QED
    BY <1>2, <1>3, <1>8, <2>1
<1>11. present \subseteq ranks
  BY DEF present, Reported
<1>12. (CHOOSE x \in present : \A j \in present \ {x} : Prevails(entries, x, j)) = i
  <2>1. \A j \in present \ {i} : Prevails(entries, i, j)
    BY <1>8, <1>11
  <2> QED
    BY <1>9, <1>10, <1>11, <2>1
<1>13. _dominant_status(entries) = SEVERITY[i]
  BY <1>12 DEF _dominant_status, present
<1>14. \A j \in ranks : Leads(entries, j) => j = i
  BY <1>10, <1>11 DEF Leads
<1> QED
  BY <1>8, <1>9, <1>13, <1>14

LEMMA ShownStatus ==
    ASSUME StatusInv, NEW entries \in SUBSET (DOMAIN reports)
    PROVE  /\ _dominant_status(entries) = "none" <=> entries = {}
           /\ \A i \in DOMAIN SEVERITY : entries # {} =>
                 (_dominant_status(entries) = SEVERITY[i] <=> Leads(entries, i))
<1>1. CASE entries = {}
  BY <1>1 DEF _dominant_status
<1>2. CASE entries # {}
  <2>1. PICK i \in DOMAIN SEVERITY :
           /\ Leads(entries, i) /\ _dominant_status(entries) = SEVERITY[i]
           /\ \A j \in DOMAIN SEVERITY : Leads(entries, j) => j = i
    BY <1>2, OneStatusLeads
  <2>2. SEVERITY[i] # "none" /\ \A j \in DOMAIN SEVERITY : SEVERITY[i] = SEVERITY[j] => i = j
    BY StatusAssumption
  <2> QED
    BY <1>2, <2>1, <2>2
<1> QED
  BY <1>1, <1>2

(* A status that leads in two sets apart leads in the two together.         *)
LEMMA LeadsTogether ==
    ASSUME StatusInv, NEW S \in SUBSET (DOMAIN reports), NEW T \in SUBSET (DOMAIN reports),
           S \cap T = {}, NEW i \in DOMAIN SEVERITY, Leads(S, i), Leads(T, i)
    PROVE  Leads(S \cup T, i)
<1>1. \A j \in DOMAIN SEVERITY : Tally(S \cup T, j) = Tally(S, j) + Tally(T, j)
  <2> SUFFICES ASSUME NEW j \in DOMAIN SEVERITY
               PROVE  Tally(S \cup T, j) = Tally(S, j) + Tally(T, j)
    OBVIOUS
  <2> DEFINE s == WithStatus(S, SEVERITY[j])
             t == WithStatus(T, SEVERITY[j])
  <2>1. WithStatus(S \cup T, SEVERITY[j]) = s \cup t /\ s \cap t = {}
    BY DEF WithStatus
  <2>2. IsFiniteSet(s) /\ IsFiniteSet(t) /\ Cardinality(s) \in Nat /\ Cardinality(t) \in Nat
    BY TalliesAreNaturals DEF Tally
  <2> HIDE DEF s, t
  <2>3. Cardinality(s \cup t) = Cardinality(s) + Cardinality(t) - Cardinality(s \cap t)
    BY <2>2, FS_Union
  <2>4. Cardinality(s \cap t) = 0
    BY <2>1, FS_EmptySet
  <2>5. Cardinality(s \cup t) = Cardinality(s) + Cardinality(t)
    BY <2>2, <2>3, <2>4
  <2> QED
    BY <2>1, <2>5 DEF Tally, s, t
<1>2. ASSUME NEW j \in DOMAIN SEVERITY \ {i}
      PROVE  Prevails(S \cup T, i, j)
  <2>1. Prevails(S, i, j) /\ Prevails(T, i, j)
    BY DEF Leads
  <2>2. /\ Tally(S, i) \in Nat /\ Tally(S, j) \in Nat /\ Tally(T, i) \in Nat /\ Tally(T, j) \in Nat
        /\ i \in Nat /\ j \in Nat
    BY TalliesAreNaturals
  <2>3. \A E : Prevails(E, i, j) <=> Tally(E, i) > Tally(E, j) \/ (Tally(E, i) = Tally(E, j) /\ i > j)
    BY DEF Prevails, Tally
  <2>4. /\ Tally(S \cup T, i) = Tally(S, i) + Tally(T, i)
        /\ Tally(S \cup T, j) = Tally(S, j) + Tally(T, j)
    BY <1>1
  <2>5. Tally(S \cup T, i) > Tally(S \cup T, j) \/ (Tally(S \cup T, i) = Tally(S \cup T, j) /\ i > j)
    <3>1. /\ Tally(S, i) > Tally(S, j) \/ (Tally(S, i) = Tally(S, j) /\ i > j)
          /\ Tally(T, i) > Tally(T, j) \/ (Tally(T, i) = Tally(T, j) /\ i > j)
      BY <2>1, <2>3
    <3> QED
      BY <2>2, <2>4, <3>1
  <2> QED
    BY <2>3, <2>5
<1>3. WithStatus(S \cup T, SEVERITY[i]) # {}
  BY DEF WithStatus, Leads
<1> QED
  BY <1>2, <1>3 DEF Leads

(* So a status that leads on every day leads over the days.                 *)
OnDayOf(S, k) == {m \in S : ServiceDayNo(reports[m].at) = ServiceDayNo(reports[k].at)}

LEMMA LeadsOverTheDays ==
    ASSUME StatusInv, NEW i \in DOMAIN SEVERITY, NEW all \in SUBSET (DOMAIN reports), all # {},
           \A k \in all : Leads(OnDayOf(all, k), i)
    PROVE  Leads(all, i)
<1> DEFINE Daily(S) == S # {} /\ \A k \in S : Leads(OnDayOf(S, k), i)
           Bad(n) == \E S \in SUBSET (DOMAIN reports) : Cardinality(S) = n /\ Daily(S) /\ ~ Leads(S, i)
           Sizes == {n \in Nat : Bad(n)}
<1>1. \A S \in SUBSET (DOMAIN reports) : IsFiniteSet(S) /\ Cardinality(S) \in Nat
  BY BallotsAreCounted
<1> SUFFICES ASSUME ~ Leads(all, i) PROVE FALSE
  OBVIOUS
<1>2. Sizes \in SUBSET Nat /\ Sizes # {}
  BY <1>1
<1> HIDE DEF Sizes
<1>3. PICK n \in Sizes : \A m \in Sizes : n <= m
  BY <1>2, LeastNatural
<1>4. PICK S \in SUBSET (DOMAIN reports) : Cardinality(S) = n /\ Daily(S) /\ ~ Leads(S, i)
  BY <1>3 DEF Sizes
<1>5. PICK k \in S : TRUE
  BY <1>4
<1> DEFINE B == OnDayOf(S, k)
           T == S \ B
<1>6. B \in SUBSET (DOMAIN reports) /\ T \in SUBSET (DOMAIN reports) /\ k \in B /\ B \subseteq S
      /\ S = B \cup T /\ B \cap T = {}
  BY <1>4, <1>5 DEF OnDayOf
<1>7. Leads(B, i)
  BY <1>4, <1>5
<1>8. T # {}
  BY <1>4, <1>6, <1>7
<1>9. \A m \in T : OnDayOf(T, m) = OnDayOf(S, m)
  BY DEF OnDayOf
<1>10. Daily(T)
  BY <1>4, <1>8, <1>9
<1>11. Cardinality(T) \in Nat /\ Cardinality(T) < n
  <2>1. T \subseteq S /\ T # S
    BY <1>5, <1>6
  <2> QED
    BY <1>1, <1>4, <1>6, <2>1, FS_Subset
<1>12. Cardinality(T) \notin Sizes
  BY <1>2, <1>3, <1>11
<1>13. Leads(T, i)
  <2> HIDE DEF Daily, T
  <2> QED
    BY <1>6, <1>10, <1>11, <1>12 DEF Sizes
<1>14. Leads(B \cup T, i)
  BY <1>6, <1>7, <1>13, LeadsTogether
<1> QED
  BY <1>4, <1>6, <1>14

---------------------------------------------------------------------------
(* The hour of a report on its day and in its week.                         *)
LEMMA ClockShifts ==
    ASSUME NEW b \in Nat \ {0}, NEW q \in Int, NEW a \in Int
    PROVE  a % b \in 0 .. b - 1 /\ (q * b + a) % b = a % b
<1>1. a \div b \in Int /\ a % b \in 0 .. b - 1 /\ a = (a \div b) * b + (a % b)
  OBVIOUS
<1> DEFINE x == a \div b
           r == a % b
<1> HIDE DEF x, r
<1>2. x \in Int /\ r \in 0 .. b - 1 /\ a = x * b + r /\ q + x \in Int
  BY <1>1 DEF x, r
<1>3. q * b \in Int /\ x * b \in Int /\ (q + x) * b = q * b + x * b
  BY <1>2
<1>4. q * b + a = (q + x) * b + r /\ (q + x) * b \in Int
  BY <1>2, <1>3
<1>5. (q * b + a) \div b = q + x
  BY <1>2, <1>3, <1>4, Quotient
<1>6. q * b + a = ((q * b + a) \div b) * b + ((q * b + a) % b) /\ (q * b + a) % b \in Int
  BY <1>2, <1>3
<1>7. (q * b + a) % b = r
  BY <1>2, <1>4, <1>5, <1>6
<1> QED
  BY <1>2, <1>7 DEF r

LEMMA SameClockSameDay ==
    ASSUME NEW b \in Nat \ {0}, NEW x \in Int, NEW y \in Int, NEW from \in Int,
           from <= x, x < from + b, from <= y, y < from + b, x % b = y % b
    PROVE  x = y
<1> DEFINE p == x \div b
           q == y \div b
           r == x % b
<1>1. p \in Int /\ q \in Int /\ r \in 0 .. b - 1 /\ x = p * b + r /\ y = q * b + r
  OBVIOUS
<1>2. p * b \in Int /\ q * b \in Int
  BY <1>1
<1> HIDE DEF p, q, r
<1>3. p * b < q * b + b /\ q * b < p * b + b
  BY <1>1, <1>2
<1>4. p <= q /\ q <= p
  BY <1>1, <1>3, MultiplesInOrder
<1> QED
  BY <1>1, <1>4

(* The reports of one instant are one bucket of their day, at their hour.   *)
LEMMA BucketOfReport ==
    ASSUME StatusInv, NEW lines, NEW k \in InWeeks(lines)
    PROVE  \E d \in 0 .. weeks * DAYS_IN_WEEK, n \in 1 .. INSTANTS_PER_DAY :
              /\ n \in DOMAIN load_line_status_history(lines, d)
              /\ load_line_status_history(lines, d)[n] =
                    Bucket({m \in Of(lines) : reports[m].at = reports[k].at})
              /\ Weekday(DayStart(d)) = Weekday(reports[k].at)
              /\ (DAY_START_HOUR + n - 1) % INSTANTS_PER_DAY = reports[k].at % INSTANTS_PER_DAY
<1> DEFINE I == INSTANTS_PER_DAY
           H == DAY_START_HOUR
           at == reports[k].at
           q == ServiceDayNo(at)
           d == ServiceDayNo(hour) - q
           ds == DayStart(d)
           n == at - ds + 1
           per_hour == {m \in Of(lines) : reports[m].at \in ds .. hour /\ reports[m].at < ds + I}
<1>1. I \in Nat \ {0} /\ H \in 0 .. I - 1 /\ hour \in Nat
  BY DayLength, ReportsHaveRows
<1>2. k \in Of(lines) /\ \A m \in Of(lines) : reports[m].at \in 0 .. hour
  BY ReportsHaveRows DEF Of, InWeeks
<1>3. at \in Int /\ q \in Int /\ ServiceDayNo(hour) \in Int
  BY <1>1, <1>2, ServiceDayStarts
<1>4. d \in 0 .. weeks * DAYS_IN_WEEK
  BY WeeksAreDays
<1>5. d \in Int /\ ServiceDayNo(hour) - d = q
  BY <1>3
<1>6. ds \in Int /\ ServiceDayNo(ds) = q /\ ds <= at /\ at < ds + I
  BY <1>1, <1>3, <1>5, DaysAgo
<1>7. k \in per_hour /\ n \in 1 .. I
  BY <1>1, <1>2, <1>3, <1>6
<1>8. load_line_status_history(lines, d) =
        [x \in 1 .. I |-> Bucket({m \in per_hour : reports[m].at = ds + x - 1})]
  BY <1>7 DEF load_line_status_history, bucket_hourly
<1>9. {m \in per_hour : reports[m].at = ds + n - 1} = {m \in Of(lines) : reports[m].at = at}
  BY <1>1, <1>2, <1>3, <1>6
<1>10. n \in DOMAIN load_line_status_history(lines, d)
       /\ load_line_status_history(lines, d)[n] = Bucket({m \in Of(lines) : reports[m].at = at})
  BY <1>7, <1>8, <1>9
<1>11. Weekday(ds) = Weekday(at)
  BY <1>6 DEF Weekday, ServiceDayNo
<1>12. (H + n - 1) % I = at % I
  <2>1. ds = q * I + H
    <3> DEFINE h == ServiceDayNo(hour)
    <3>1. service_day_start(hour) = h * I + H
      BY <1>1, ServiceDayStarts
    <3> HIDE DEF d
    <3>2. ds = (h * I + H) - d * I
      BY <3>1 DEF DayStart
    <3> HIDE DEF h, ds, q
    <3>3. q = h - d /\ h \in Int /\ d \in Int
      BY <1>3, <1>5 DEF h
    <3>4. q * I = h * I - d * I /\ h * I \in Int /\ d * I \in Int
      BY <1>1, <3>3, MultipleOfDifference
    <3> QED
      BY <1>1, <3>2, <3>4
  <2>2. q * I \in Int
    BY <1>1, <1>3
  <2>3. q * I + (H + n - 1) = at /\ H + n - 1 \in Int
    BY <1>1, <1>3, <1>6, <2>1, <2>2
  <2> HIDE DEF n, q
  <2> QED
    BY <1>1, <1>3, <2>3, ClockShifts
<1> QED
  BY <1>4, <1>7, <1>10, <1>11, <1>12

(* A bucket of a day holds reports of its weekday and hour.                 *)
InBucket(k, day, n) == n \in DOMAIN day /\ k \in day[n].reports

LEMMA ReportOfBucket ==
    ASSUME StatusInv, NEW lines, NEW d \in 0 .. weeks * DAYS_IN_WEEK, NEW n \in 1 .. INSTANTS_PER_DAY,
           NEW k, InBucket(k, load_line_status_history(lines, d), n)
    PROVE  /\ Weekday(DayStart(d)) = Weekday(reports[k].at)
           /\ (DAY_START_HOUR + n - 1) % INSTANTS_PER_DAY = reports[k].at % INSTANTS_PER_DAY
<1> DEFINE I == INSTANTS_PER_DAY
           H == DAY_START_HOUR
           ds == DayStart(d)
           h == ServiceDayNo(hour)
           per_hour == {m \in Of(lines) : reports[m].at \in ds .. hour /\ reports[m].at < ds + I}
           filled == {m \in per_hour : reports[m].at = ds + n - 1}
           at == reports[k].at
<1>1. I \in Nat \ {0} /\ H \in 0 .. I - 1 /\ hour \in Nat /\ weeks * DAYS_IN_WEEK \in Nat
  BY DayLength, ReportsHaveRows, StatusAssumption
<1>2. d \in Int /\ h \in Int /\ n \in Int
  BY <1>1, ServiceDayStarts
<1>3. ds \in Int /\ ServiceDayNo(ds) = h - d
      /\ \A t \in Int : ServiceDayNo(t) = h - d <=> ds <= t /\ t < ds + I
  BY <1>1, <1>2, DaysAgo
<1>4. per_hour # {}
  BY DEF InBucket, load_line_status_history, bucket_hourly
<1>5. load_line_status_history(lines, d)[n] = Bucket(filled)
  BY <1>4 DEF InBucket, load_line_status_history, bucket_hourly
<1>6. k \in filled
  BY <1>5 DEF Bucket, InBucket
<1>7. at = ds + n - 1 /\ at \in Int /\ ds <= at /\ at < ds + I /\ at <= hour
  BY <1>1, <1>2, <1>3, <1>6
<1>8. ServiceDayNo(at) = ServiceDayNo(ds)
  BY <1>3, <1>7
<1>9. Weekday(ds) = Weekday(at)
  BY <1>8 DEF Weekday, ServiceDayNo
<1>10. (H + n - 1) % I = at % I
  <2> DEFINE q == h - d
  <2>1. ds = h * I + H - d * I
    BY <1>1, ServiceDayStarts DEF DayStart
  <2>2. q \in Int /\ q * I = h * I - d * I /\ h * I \in Int /\ d * I \in Int
    BY <1>1, <1>2, MultipleOfDifference
  <2> HIDE DEF q, h, ds, at
  <2>3. q * I \in Int
    BY <2>2
  <2>4. q * I + (H + n - 1) = at /\ H + n - 1 \in Int
    BY <1>1, <1>2, <1>7, <2>1, <2>2, <2>3
  <2> QED
    BY <1>1, <2>2, <2>4, ClockShifts
<1> QED
  BY <1>9, <1>10

(* The reports of a slot on the day of one of them are those of its bucket. *)
SlotReports(lines, weekday, clock) ==
    {k \in InWeeks(lines) : Weekday(reports[k].at) = weekday /\ reports[k].at % INSTANTS_PER_DAY = clock}

LEMMA SlotOnADay ==
    ASSUME StatusInv, NEW lines, NEW weekday, NEW clock, NEW k \in SlotReports(lines, weekday, clock)
    PROVE  OnDayOf(SlotReports(lines, weekday, clock), k) = {m \in Of(lines) : reports[m].at = reports[k].at}
<1> DEFINE I == INSTANTS_PER_DAY
           at == reports[k].at
           q == ServiceDayNo(at)
           d == ServiceDayNo(hour) - q
           ds == DayStart(d)
<1>1. I \in Nat \ {0} /\ hour \in Nat
  BY DayLength, ReportsHaveRows
<1>2. \A m \in Of(lines) : reports[m].at \in Int
  BY ReportsHaveRows DEF Of
<1>3. k \in Of(lines) /\ InWeeks(lines) \subseteq Of(lines)
  BY DEF SlotReports, InWeeks
<1>4. q \in Int /\ ServiceDayNo(hour) \in Int
  BY <1>1, <1>2, <1>3, ServiceDayStarts
<1>5. d \in Int /\ ServiceDayNo(hour) - d = q
  BY <1>4
<1>6. ds \in Int /\ \A t \in Int : ServiceDayNo(t) = q <=> ds <= t /\ t < ds + I
  BY <1>1, <1>5, DaysAgo
<1> HIDE DEF ds, q
<1>7. ASSUME NEW m \in OnDayOf(SlotReports(lines, weekday, clock), k)
      PROVE  m \in Of(lines) /\ reports[m].at = at
  <2>1. m \in Of(lines) /\ ServiceDayNo(reports[m].at) = q /\ reports[m].at % I = at % I
    BY <1>3 DEF OnDayOf, SlotReports, q
  <2>2. reports[m].at \in Int /\ at \in Int /\ ServiceDayNo(at) = q
    BY <1>2, <1>3, <2>1 DEF q
  <2>3. ds <= reports[m].at /\ reports[m].at < ds + I /\ ds <= at /\ at < ds + I
    BY <1>6, <2>1, <2>2
  <2> QED
    BY <1>1, <1>6, <2>1, <2>2, <2>3, SameClockSameDay
<1>8. ASSUME NEW m \in Of(lines), reports[m].at = at
      PROVE  m \in OnDayOf(SlotReports(lines, weekday, clock), k)
  BY <1>8 DEF OnDayOf, SlotReports, InWeeks
<1> QED
  BY <1>7, <1>8

LEMMA SlotBuckets ==
    ASSUME NEW lines, NEW weekday \in DOMAIN bucket_week_profile(lines), NEW clock \in 0 .. INSTANTS_PER_DAY - 1
    PROVE  bucket_week_profile(lines)[weekday][clock] = Bucket(SlotReports(lines, weekday, clock))
BY DEF bucket_week_profile, SlotReports

LEMMA BucketParts == \A E : Bucket(E).reports = E /\ Bucket(E).dominant_status = _dominant_status(E)
BY DEF Bucket

LEMMA DaysDecide == StatusInv => DaysDecideTheWeek
<1> SUFFICES ASSUME StatusInv, NEW line \in StatusLines,
                    NEW weekday \in DOMAIN bucket_week_profile({line}),
                    NEW clock \in 0 .. INSTANTS_PER_DAY - 1
             PROVE  LET lines == {line}
                        days == 0 .. weeks * DAYS_IN_WEEK
                        day(d) == load_line_status_history(lines, d)
                        profile == bucket_week_profile(lines)
                        at(n) == (DAY_START_HOUR + n - 1) % INSTANTS_PER_DAY
                        shown ==
                            {b \in days \X (1 .. INSTANTS_PER_DAY) :
                                /\ Weekday(DayStart(b[1])) = weekday /\ at(b[2]) = clock
                                /\ b[2] \in DOMAIN day(b[1])
                                /\ day(b[1])[b[2]].reports \cap InWeeks(lines) # {}}
                        slot == profile[weekday][clock]
                    IN  /\ slot.dominant_status = "none" <=> shown = {}
                        /\ \A status \in StatusSet :
                              /\ shown # {}
                              /\ \A b \in shown : day(b[1])[b[2]].dominant_status = status
                              => slot.dominant_status = status
  BY DEF DaysDecideTheWeek
<1> DEFINE lines == {line}
           days == 0 .. weeks * DAYS_IN_WEEK
           I == INSTANTS_PER_DAY
           day(d) == load_line_status_history(lines, d)
           at(n) == (DAY_START_HOUR + n - 1) % I
           shown == {b \in days \X (1 .. I) :
                        /\ Weekday(DayStart(b[1])) = weekday /\ at(b[2]) = clock
                        /\ b[2] \in DOMAIN day(b[1])
                        /\ day(b[1])[b[2]].reports \cap InWeeks(lines) # {}}
           slot == bucket_week_profile(lines)[weekday][clock]
           S == SlotReports(lines, weekday, clock)
           alike(k) == {m \in Of(lines) : reports[m].at = reports[k].at}
<1>1. slot = Bucket(S)
  BY SlotBuckets
<1>2. S \in SUBSET (DOMAIN reports) /\ \A k : alike(k) \in SUBSET (DOMAIN reports)
  BY DEF SlotReports, InWeeks, Of
<1>3. ASSUME NEW k \in S
      PROVE  \E b \in shown : day(b[1])[b[2]] = Bucket(alike(k))
  <2>1. k \in InWeeks(lines) /\ Weekday(reports[k].at) = weekday /\ reports[k].at % I = clock
    BY DEF SlotReports
  <2>2. PICK d \in days, n \in 1 .. I :
           /\ n \in DOMAIN day(d) /\ day(d)[n] = Bucket(alike(k))
           /\ Weekday(DayStart(d)) = weekday /\ at(n) = clock
    <3> HIDE DEF lines
    <3> QED
      BY <2>1, BucketOfReport
  <2>3. k \in day(d)[n].reports
    <3>1. k \in alike(k)
      BY <2>1 DEF InWeeks
    <3> HIDE DEF alike, day
    <3> QED
      BY <2>2, <3>1, BucketParts
  <2>4. <<d, n>> \in shown
    BY <2>1, <2>2, <2>3
  <2> HIDE DEF shown, day
  <2> QED
    BY <2>2, <2>4
<1>4. ASSUME NEW b \in shown
      PROVE  \E k \in S : TRUE
  <2>1. PICK d \in days, n \in 1 .. I : b = <<d, n>>
    OBVIOUS
  <2>2. PICK k \in day(d)[n].reports : k \in InWeeks(lines)
    BY <2>1
  <2>3. n \in DOMAIN day(d) /\ Weekday(DayStart(d)) = weekday /\ at(n) = clock
    BY <2>1
  <2>4. Weekday(DayStart(d)) = Weekday(reports[k].at) /\ at(n) = reports[k].at % I
    <3>1. /\ d \in 0 .. weeks * DAYS_IN_WEEK /\ n \in 1 .. INSTANTS_PER_DAY
          /\ InBucket(k, load_line_status_history(lines, d), n)
      BY <2>1, <2>2, <2>3 DEF InBucket
    <3> HIDE DEF lines, shown, S, slot
    <3> QED
      BY <3>1, ReportOfBucket
  <2> QED
    BY <2>2, <2>3, <2>4 DEF SlotReports
<1> HIDE DEF shown, day, S, slot
<1>5. shown = {} <=> S = {}
  BY <1>3, <1>4
<1>6. slot.dominant_status = _dominant_status(S)
  BY <1>1, BucketParts
<1>7. slot.dominant_status = "none" <=> shown = {}
  BY <1>2, <1>5, <1>6, ShownStatus
<1>8. ASSUME NEW status \in StatusSet, shown # {},
             \A b \in shown : day(b[1])[b[2]].dominant_status = status
      PROVE  slot.dominant_status = status
  <2>1. PICK i \in DOMAIN SEVERITY : SEVERITY[i] = status
    BY DEF StatusSet
  <2>2. ASSUME NEW k \in S
        PROVE  Leads(OnDayOf(S, k), i)
    <3>1. PICK b \in shown : day(b[1])[b[2]] = Bucket(alike(k))
      BY <1>3
    <3>2. _dominant_status(alike(k)) = SEVERITY[i]
      BY <1>8, <2>1, <3>1, BucketParts
    <3>3. alike(k) # {}
      BY DEF S, SlotReports, InWeeks
    <3>4. Leads(alike(k), i)
      BY <1>2, <3>2, <3>3, ShownStatus
    <3>5. OnDayOf(S, k) = alike(k)
      <4> HIDE DEF lines
      <4> QED
        BY SlotOnADay DEF S
    <3> QED
      BY <3>4, <3>5
  <2>3. Leads(S, i)
    BY <1>2, <1>5, <1>8, <2>2, LeadsOverTheDays
  <2> QED
    BY <1>2, <1>5, <1>6, <1>8, <2>1, <2>3, ShownStatus
<1> QED
  BY <1>7, <1>8 DEF shown, day, slot

(* LineReadsAgree, for any number of lines, voters and reports and any day  *)
(* and week: the charts of a line agree, and its pulse keeps every report.  *)
THEOREM LineReadsAlwaysAgree == StatusSpec => []LineReadsAgree
<1>1. StatusInv => LineReadsAgree
  BY HistoryMatches, DaysDecide, PulseKeeps DEF LineReadsAgree
<1> QED
  BY <1>1, StatusInitially, StatusInductive, PTL DEF StatusSpec

(* The state of the reports stays in its type (ServicesTypeOK's conjunct).  *)
THEOREM StatusTyped == StatusSpec => []StatusTypeOK
<1>1. StatusInv => StatusTypeOK
  <2>1. StatusInv => \A k \in DOMAIN reports : reports[k] \in ReportRow /\ reports[k].at \in 0 .. hour
    BY ReportsHaveRows
  <2> QED
    BY <2>1 DEF StatusInv, StatusTypeOK, ReportRow
<1> QED
  BY <1>1, StatusInitially, StatusInductive, PTL DEF StatusSpec

---------------------------------------------------------------------------
(* The services together (MCServices).                                      *)

(* A step of one service leaves the variables of the others alone.          *)
LEMMA OneServiceSteps ==
    ASSUME [ServicesNext]_servicesVars
    PROVE  /\ [PostsNext]_postsVars /\ [FeedNext]_feedVars /\ [PushNext]_pushVars
           /\ [EgressNext]_egressVars /\ [CreditNext]_creditVars /\ [AccountNext]_accountVars
           /\ [StatusNext]_statusVars /\ [SpottingNext]_spottingVars /\ [ImportNext]_importVars
BY DEF ServicesNext, servicesVars, OnlyPosts, OnlyFeed, OnlyPush, OnlyEgress, OnlyCredits,
       OnlyAccounts, OnlyStatus, OnlySpotting, OnlyImport

(* In the composition every service behaves as it does alone: what is       *)
(* proved of each service holds of the instance that TLC checks, whichever  *)
(* service is in focus.                                                     *)
THEOREM EachServiceAsAlone ==
    ServicesSpec => /\ PostsSpec /\ FeedSpec /\ PushSpec /\ EgressSpec /\ CreditSpec
                    /\ AccountSpec /\ StatusSpec /\ SpottingSpec /\ ImportSpec
<1>1. ServicesInit => /\ PostsInit /\ FeedInit /\ PushInit /\ EgressInit /\ CreditInit
                      /\ AccountInit /\ StatusInit /\ SpottingInit /\ ImportInit
  BY DEF ServicesInit
<1>2. [ServicesNext]_servicesVars =>
        /\ [PostsNext]_postsVars /\ [FeedNext]_feedVars /\ [PushNext]_pushVars
        /\ [EgressNext]_egressVars /\ [CreditNext]_creditVars /\ [AccountNext]_accountVars
        /\ [StatusNext]_statusVars /\ [SpottingNext]_spottingVars /\ [ImportNext]_importVars
  BY OneServiceSteps
<1> QED
  BY <1>1, <1>2, PTL DEF ServicesSpec, PostsSpec, FeedSpec, PushSpec, EgressSpec, CreditSpec,
     AccountSpec, StatusSpec, SpottingSpec, ImportSpec

(* The state of every service stays in its type, for every value of the     *)
(* constants.                                                               *)
THEOREM ServicesTyped == ServicesSpec => []ServicesTypeOK
<1>1. /\ PostsTypeOK /\ FeedTypeOK /\ PushTypeOK /\ EgressTypeOK /\ CreditTypeOK
      /\ AccountTypeOK /\ StatusTypeOK /\ SpottingTypeOK /\ ImportTypeOK
      => ServicesTypeOK
  BY DEF ServicesTypeOK
<1> QED
  BY <1>1, EachServiceAsAlone, PostsTyped, FeedTyped, PushTyped, EgressTyped, CreditsTyped,
     AccountsTyped, StatusTyped, SpottingsTyped, ImportTyped, PTL
===========================================================================
