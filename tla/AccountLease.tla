---------------------------- MODULE AccountLease ----------------------------
(***************************************************************************)
(* What the session leases promise, without tables, handlers or memory: a  *)
(* lease service with fencing tokens.  An account's lease is held under at *)
(* most one token, a new grant takes the lease away from the old token and *)
(* outnumbers every token before it, and what belongs to an account is     *)
(* written only under the token that holds the lease at that moment.       *)
(***************************************************************************)
EXTENDS Naturals

CONSTANTS Accounts, Characters, NoOwner

VARIABLES
    granted,  \* the tokens ever granted to an account
    held,     \* the tokens that hold its lease now: none, or one
    owner,    \* the account a character belongs to
    written   \* the token the character was last written under, 0 at birth

leaseVars == <<granted, held, owner, written>>

Init ==
    /\ granted = [a \in Accounts |-> {}]
    /\ held = [a \in Accounts |-> {}]
    /\ owner = [k \in Characters |-> NoOwner]
    /\ written = [k \in Characters |-> 0]

\* The new token g is the one that appears among the granted ones.
Grant(a) ==
    /\ \E g \in granted'[a] :
         /\ \A t \in granted[a] : t < g
         /\ granted' = [granted EXCEPT ![a] = @ \cup {g}]
         /\ held' = [held EXCEPT ![a] = {g}]
    /\ UNCHANGED <<owner, written>>

Release ==
    /\ held' \in {[a \in Accounts |-> IF a \in gone THEN {} ELSE held[a]] :
                      gone \in SUBSET Accounts}
    /\ UNCHANGED <<granted, owner, written>>

Adopt(k) ==
    /\ owner[k] = NoOwner
    /\ owner' \in {[owner EXCEPT ![k] = a] : a \in Accounts}
    /\ UNCHANGED <<granted, held, written>>

Write(k) ==
    /\ owner[k] # NoOwner
    /\ \E t \in held[owner[k]] : written' = [written EXCEPT ![k] = t]
    /\ UNCHANGED <<granted, held, owner>>

Next ==
    \/ \E a \in Accounts : Grant(a)
    \/ Release
    \/ \E k \in Characters : Adopt(k) \/ Write(k)

LeaseSpec == Init /\ [][Next]_leaseVars
=============================================================================
