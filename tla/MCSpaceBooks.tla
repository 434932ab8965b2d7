----------------------------- MODULE MCSpaceBooks -----------------------------
(* Instances of SpaceBooks for TLC.  Two wallets, a category of each type.   *)
EXTENDS SpaceBooks, TLC

CONSTANTS c1, c2, t1, t2, l1, l2, food, pay, o1, k1

ClientSymmetry == Permutations(Clients)

CategoryTypes == [k \in {food, pay} |-> IF k = food THEN "expense" ELSE "income"]

Blank == [op |-> "create", key |-> None, opId |-> None, txn |-> None, version |-> 0,
          wallet |-> None, category |-> None, type |-> None, limit |-> None, cats |-> {}]

Create(k, o, w, cat, type) ==
    [Blank EXCEPT !.key = k, !.opId = o, !.wallet = w, !.category = cat, !.type = type]
Edit(t, version, w, cat, type) ==
    [Blank EXCEPT !.op = "edit", !.txn = t, !.version = version,
                  !.wallet = w, !.category = cat, !.type = type]
Remove(t, version) == [Blank EXCEPT !.op = "remove", !.txn = t, !.version = version]
OnWallet(op, w, type) == [Blank EXCEPT !.op = op, !.wallet = w, !.type = type]
OnCategory(op, cat) == [Blank EXCEPT !.op = op, !.category = cat]
OnLimit(op, l, cats) == [Blank EXCEPT !.op = op, !.limit = l, !.cats = cats]

\* Repeats with a key and without, the key reused, a move, a new category, an
\* undo; a wallet that goes.
WriteRequests ==
    {Create(k1, o1, 1, pay, "income"), Create(k1, None, 2, food, "expense"),
     Create(None, o1, 1, pay, "income"), Create(None, None, 1, food, "expense"),
     Edit(t1, 1, 2, None, None), Edit(t1, 1, None, food, "expense"), Remove(t1, 1),
     OnWallet("deleteWallet", 1, None)}

\* A limit of each kind, of both categories, and changes from one to another;
\* categories that come, are archived, come back and are deleted; new uses; a
\* wallet that comes, with its initial balance.
LimitRequests ==
    {OnLimit("addLimit", l1, {}), OnLimit("addLimit", l1, {food}), OnLimit("addLimit", l2, {food, pay}),
     OnLimit("addLimit", l2, {}), OnLimit("editLimit", l1, {pay}), OnLimit("editLimit", l2, {}),
     OnLimit("removeLimit", l1, {})}
    \cup {OnCategory(op, food) : op \in CategoryOperations}
    \cup {OnCategory(op, pay) : op \in {"archive", "drop"}}
    \cup {Create(None, None, 1, food, "expense"), Edit(t1, 1, None, pay, "income"), Remove(t1, 1),
          OnWallet("addWallet", 2, "income"), OnWallet("addWallet", 2, None)}
=============================================================================
