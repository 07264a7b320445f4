---------------------------- MODULE CreditLedger ---------------------------
(* Charging a user for a GraphQL request (rosak/context.py process_result,  *)
(* common/utils.py get_charge_credits_objs): after the answer is known the  *)
(* free balance is read from the ledger once per charge, the charges of the *)
(* request are split between free and paid credits and written in one       *)
(* insert.  Requests of one user overlap.                                   *)
EXTENDS Integers, Sequences, FiniteSets

CONSTANTS
    Charged,       \* the user's requests
    Prices,        \* the charges a request can owe: row count, locations, bandwidth
    Grants,        \* credits an administrator can give
    MaxGrants      \* bound

ASSUME CreditAssumption ==
    /\ Prices \subseteq Seq(Nat) /\ Grants \subseteq Nat \ {0} /\ MaxGrants \in Nat

VARIABLES
    ledger,   \* sums of the UserJejakTransaction rows, per credit type
    charges,  \* what each request has still to charge and the rows it has prepared
    grants,
    owed,     \* history: the price of what was written
    crossed   \* history: a request wrote its rows while another was preparing

creditVars == <<ledger, charges, grants, owed, crossed>>

NothingPrepared == [free |-> 0, paid |-> 0]
Answered(r) == charges[r].stage = "charging"
TotalOf(amounts) ==
    LET upTo[n \in 0 .. Len(amounts)] == IF n = 0 THEN 0 ELSE upTo[n - 1] + amounts[n]
    IN  upTo[Len(amounts)]

Answer(r, prices) ==
    /\ charges[r].stage = "none"
    /\ charges' = [charges EXCEPT ![r] = [stage |-> "charging", due |-> prices, price |-> TotalOf(prices),
                                          rows |-> NothingPrepared, modifier |-> 0]]
    /\ UNCHANGED <<ledger, grants, owed, crossed>>

(* get_charge_credits_objs: the rows for one amount, and what the free      *)
(* balance loses to them.                                                   *)
get_charge_credits_objs(amount, free) ==
    IF free <= 0 THEN [free |-> 0, paid |-> amount]
    ELSE IF amount < free THEN [free |-> amount, paid |-> 0]
    ELSE [free |-> free, paid |-> amount - free]

ChargeForgetting(r) == \* Mutant: the earlier charges of the request are not taken off
    /\ Answered(r) /\ charges[r].due # <<>>
    /\ LET objs == get_charge_credits_objs(Head(charges[r].due), ledger.free) IN
       charges' = [charges EXCEPT ![r].due = Tail(@),
                                  ![r].rows = [free |-> @.free + objs.free, paid |-> @.paid + objs.paid]]
    /\ UNCHANGED <<ledger, grants, owed, crossed>>

Charge(r) ==
    /\ Answered(r) /\ charges[r].due # <<>>
    /\ LET objs == get_charge_credits_objs(Head(charges[r].due), ledger.free + charges[r].modifier) IN
       charges' = [charges EXCEPT ![r].due = Tail(@), ![r].modifier = @ - objs.free,
                                  ![r].rows = [free |-> @.free + objs.free, paid |-> @.paid + objs.paid]]
    /\ UNCHANGED <<ledger, grants, owed, crossed>>

(* abulk_create; an error on the way drops the charges, the answer is given *)
(* all the same.                                                            *)
StoreCharges(r) ==
    /\ Answered(r) /\ charges[r].due = <<>>
    /\ ledger' = [free |-> ledger.free - charges[r].rows.free, paid |-> ledger.paid - charges[r].rows.paid]
    /\ owed' = owed + charges[r].price
    /\ crossed' = (crossed \/ \E s \in Charged \ {r} : Answered(s))
    /\ charges' = [charges EXCEPT ![r].stage = "stored"]
    /\ UNCHANGED grants

DropCharges(r) ==
    /\ Answered(r)
    /\ charges' = [charges EXCEPT ![r].stage = "dropped"]
    /\ UNCHANGED <<ledger, grants, owed, crossed>>

GrantCredits(n, kind) ==
    /\ grants < MaxGrants /\ grants' = grants + 1
    /\ ledger' = [ledger EXCEPT ![kind] = @ + n]
    /\ owed' = owed - n
    /\ UNCHANGED <<charges, crossed>>

---------------------------------------------------------------------------
CreditInit ==
    /\ ledger = [free |-> 0, paid |-> 0]
    /\ charges = [r \in Charged |-> [stage |-> "none", due |-> <<>>, price |-> 0,
                                     rows |-> NothingPrepared, modifier |-> 0]]
    /\ grants = 0 /\ owed = 0 /\ crossed = FALSE

CreditNext ==
    \/ \E r \in Charged :
          \/ \E prices \in Prices : Answer(r, prices)
          \/ Charge(r) \/ StoreCharges(r) \/ DropCharges(r)
    \/ \E n \in Grants, kind \in {"free", "paid"} : GrantCredits(n, kind)

CreditSpec == CreditInit /\ [][CreditNext]_creditVars

---------------------------------------------------------------------------
CreditTypeOK ==
    /\ ledger \in [{"free", "paid"} -> Int] /\ owed \in Int
    /\ \A r \in Charged :
          /\ charges[r].stage \in {"none", "charging", "stored", "dropped"}
          /\ charges[r].rows \in [{"free", "paid"} -> Nat]
    /\ grants \in 0 .. MaxGrants /\ crossed \in BOOLEAN

(* However a request's charges are split, the ledger loses exactly their    *)
(* price, and the free balance goes below zero only if two requests that    *)
(* prepared their charges at the same time were paid from the same credits. *)
FreeCreditsNotOverdrawn ==
    /\ ledger.free + ledger.paid = - owed
    /\ ledger.free < 0 => crossed
===========================================================================
