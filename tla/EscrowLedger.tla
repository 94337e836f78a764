---------------------------- MODULE EscrowLedger ----------------------------
(***************************************************************************)
(* What the escrow promises, without accounts, counters or rates: money    *)
(* received waits until it is returned to the audience or, once the ledger *)
(* is open, divided between the right holders and the tax office.  A       *)
(* holder's money is free, frozen or drawn; only its own draw or freeze    *)
(* takes from what is free, and frozen money is released or returned.      *)
(***************************************************************************)
EXTENDS Integers

CONSTANT Holders, Sum(_)    \* Sum(f) is the total of f over Holders

VARIABLES
    open,           \* division has been allowed
    waiting,        \* received, not yet divided
    free, frozen, drawn,    \* by holder
    withheld,       \* set aside as tax
    returned        \* booked back to the audience

holderVars == <<free, frozen, drawn>>
vars == <<open, waiting, holderVars, withheld, returned>>

Purses == [Holders -> Nat]

Init ==
    /\ open = FALSE
    /\ waiting = 0 /\ withheld = 0 /\ returned = 0
    /\ free = [h \in Holders |-> 0]
    /\ frozen = [h \in Holders |-> 0]
    /\ drawn = [h \in Holders |-> 0]

Receive ==
    /\ waiting' \in Nat /\ waiting' > waiting
    /\ UNCHANGED <<open, holderVars, withheld, returned>>

Return ==
    /\ waiting' \in Nat /\ waiting' < waiting
    /\ returned' = returned + (waiting - waiting')
    /\ UNCHANGED <<open, holderVars, withheld>>

Open ==
    /\ ~open /\ open'
    /\ UNCHANGED <<waiting, holderVars, withheld, returned>>

\* Part of what waits is divided to the last unit; nobody loses by it.
Divide ==
    /\ open
    /\ waiting' \in Nat /\ waiting' < waiting
    /\ free' \in Purses /\ \A h \in Holders : free'[h] >= free[h]
    /\ withheld' >= withheld
    /\ waiting - waiting' = (Sum(free') - Sum(free)) + (withheld' - withheld)
    /\ UNCHANGED <<open, frozen, drawn, returned>>

Draw(h, amount) ==
    /\ amount \in 1 .. free[h]
    /\ free' = [free EXCEPT ![h] = @ - amount]
    /\ drawn' = [drawn EXCEPT ![h] = @ + amount]
    /\ UNCHANGED <<open, waiting, frozen, withheld, returned>>

Freeze(h, amount) ==
    /\ amount \in 1 .. free[h]
    /\ free' = [free EXCEPT ![h] = @ - amount]
    /\ frozen' = [frozen EXCEPT ![h] = @ + amount]
    /\ UNCHANGED <<open, waiting, drawn, withheld, returned>>

Release(h) ==
    /\ frozen[h] > 0
    /\ free' = [free EXCEPT ![h] = @ + frozen[h]]
    /\ frozen' = [frozen EXCEPT ![h] = 0]
    /\ UNCHANGED <<open, waiting, drawn, withheld, returned>>

Forfeit(h) ==
    /\ frozen[h] > 0
    /\ returned' = returned + frozen[h]
    /\ frozen' = [frozen EXCEPT ![h] = 0]
    /\ UNCHANGED <<open, waiting, free, drawn, withheld>>

Next ==
    \/ Receive \/ Return \/ Open \/ Divide
    \/ \E h \in Holders : \/ \E amount \in 1 .. free[h] : Draw(h, amount) \/ Freeze(h, amount)
                          \/ Release(h) \/ Forfeit(h)

Spec == Init /\ [][Next]_vars
=============================================================================
