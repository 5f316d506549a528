----------------------- MODULE SessionLeaseRefinement -----------------------
(***************************************************************************)
(* The tables of SessionLease implement the lease service of AccountLease. *)
(* A token is a lease_generation; a position is written under the          *)
(* generation of the session it came from.                                 *)
(***************************************************************************)
EXTENDS SessionLease

GenerationsOf(rows) == {sessions[s].generation : s \in rows}

Lease == INSTANCE AccountLease WITH
    Characters <- CharacterIds,
    NoOwner <- None,
    granted <- [a \in Accounts |-> GenerationsOf(RowsOf(a))],
    held <- [a \in Accounts |->
                GenerationsOf({s \in RowsOf(a) : IsOpen(s)})],
    owner <- [k \in CharacterIds |-> characters[k].account],
    written <- [k \in CharacterIds |-> Generation(positions[k])]

\* Every step of the store and of the connections is a step of the abstract
\* lease service or leaves it as it is: a takeover outnumbers the lease it takes,
\* a write is always made under the token that holds the lease.
ImplementsLease == Lease!LeaseSpec
=============================================================================
