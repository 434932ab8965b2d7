------------------------------- MODULE BookRules -------------------------------
(***************************************************************************)
(* What the books of a space promise, request by request                   *)
(* (docs/transactions-contract.md): every write takes effect in one step,  *)
(* and all it relies on holds in that very step.                           *)
(***************************************************************************)
EXTENDS Naturals

CONSTANTS Wallets, Categories, System, TypeOf, Txns, Limits, OpIds, None

VARIABLES
    wallet,     \* wallet[w]: "absent", "active" or "deleted"
    category,   \* category[k]: "absent", "active", "archived" or "gone"
    limits,     \* limits: an id and its categories; none of them: the total limit
    record,     \* record[t]: a transaction; version 0: there is none
    operation   \* operation[o]: the create that a client called o

books == <<wallet, category, limits, record, operation>>

Missing(t) == record[t].version = 0
Uses(k) == {t \in Txns : ~Missing(t) /\ record[t].category = k}

\* A limit loses a category; one that had no other goes with it.
Without(k) ==
    {l \in limits : k \notin l.cats} \cup
    {[id |-> l.id, cats |-> l.cats \ {k}] : l \in {l \in limits : k \in l.cats /\ l.cats # {k}}}

MayHold(r) == category[r.category] = "active" /\ TypeOf[r.category] = r.type

\* A create that a client named happens once, deleted or not.
Create(t, o) ==
    /\ Missing(t)
    /\ LET r == record'[t] IN
          /\ r.version = 1 /\ wallet[r.wallet] = "active" /\ MayHold(r)
          /\ record' = [record EXCEPT ![t] = r]
    /\ operation' = IF o = None THEN operation
                    ELSE [operation EXCEPT ![o] = [txn |-> t, deleted |-> FALSE]]
    /\ o # None => operation[o].txn = None
    /\ UNCHANGED <<wallet, category, limits>>

\* An edit keeps a deleted wallet or an archived category it does not change.
Edit(t) ==
    /\ ~Missing(t) /\ record[t].category # System
    /\ LET r == record'[t] IN
          /\ r.version = record[t].version + 1
          /\ r.wallet = record[t].wallet \/ wallet[r.wallet] = "active"
          /\ \/ r.category = record[t].category /\ r.type = record[t].type
             \/ r.category # record[t].category /\ MayHold(r)
          /\ record' = [record EXCEPT ![t] = r]
    /\ UNCHANGED <<wallet, category, limits, operation>>

Remove(t) ==
    /\ ~Missing(t) /\ record[t].category # System
    /\ record'[t].version = 0
    /\ record' = [record EXCEPT ![t] = record'[t]]
    /\ operation' = [o \in OpIds |-> IF operation[o].txn = t
                                     THEN [txn |-> t, deleted |-> TRUE] ELSE operation[o]]
    /\ UNCHANGED <<wallet, category, limits>>

\* A new wallet may come with an initial balance.
AddWallet(w) ==
    /\ wallet[w] = "absent"
    /\ wallet' = [wallet EXCEPT ![w] = "active"]
    /\ \/ record' = record
       \/ \E t \in Txns :
             /\ Missing(t)
             /\ record'[t].version = 1 /\ record'[t].wallet = w /\ record'[t].category = System
             /\ record' = [record EXCEPT ![t] = record'[t]]
    /\ UNCHANGED <<category, limits, operation>>

DeleteWallet(w) ==
    /\ wallet[w] # "absent"
    /\ wallet' = [wallet EXCEPT ![w] = "deleted"]
    /\ UNCHANGED <<category, limits, record, operation>>

AddCategory(k) ==
    /\ category[k] = "absent"
    /\ category' = [category EXCEPT ![k] = "active"]
    /\ UNCHANGED <<wallet, limits, record, operation>>

Restore(k) ==
    /\ category[k] = "archived"
    /\ category' = [category EXCEPT ![k] = "active"]
    /\ UNCHANGED <<wallet, limits, record, operation>>

\* An archived or deleted category is in no limit; a used one is not deleted.
Archive(k) ==
    /\ category[k] \in {"active", "archived"}
    /\ category' = [category EXCEPT ![k] = "archived"]
    /\ limits' = Without(k)
    /\ UNCHANGED <<wallet, record, operation>>

Drop(k) ==
    /\ category[k] \in {"active", "archived"} /\ Uses(k) = {}
    /\ category' = [category EXCEPT ![k] = "gone"]
    /\ limits' = Without(k)
    /\ UNCHANGED <<wallet, record, operation>>

\* One total limit; a category is in one limit, and is active.
SetLimit(l, cats) ==
    LET others == {m \in limits : m.id # l} IN
    /\ \A m \in others : IF cats = {} THEN m.cats # {} ELSE m.cats \cap cats = {}
    /\ \A k \in cats : category[k] = "active"
    /\ limits' = others \cup {[id |-> l, cats |-> cats]}
    /\ UNCHANGED <<wallet, category, record, operation>>

RemoveLimit(l) ==
    /\ limits' = {m \in limits : m.id # l}
    /\ UNCHANGED <<wallet, category, record, operation>>

Init ==
    /\ wallet \in [Wallets -> {"absent", "active"}]
    /\ category \in [Categories -> {"absent", "active"}]
    /\ limits = {}
    /\ \A t \in Txns : Missing(t)
    /\ \A o \in OpIds : operation[o].txn = None

Next ==
    \/ \E t \in Txns : Edit(t) \/ Remove(t) \/ \E o \in OpIds \cup {None} : Create(t, o)
    \/ \E w \in Wallets : AddWallet(w) \/ DeleteWallet(w)
    \/ \E k \in Categories : AddCategory(k) \/ Restore(k) \/ Archive(k) \/ Drop(k)
    \/ \E l \in Limits : RemoveLimit(l) \/ \E cats \in SUBSET Categories : SetLimit(l, cats)

Spec == Init /\ [][Next]_books
=============================================================================
