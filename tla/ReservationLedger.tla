-------------------------- MODULE ReservationLedger --------------------------
(***************************************************************************)
(* What a reservation manager promises (core/reservation.go): bytes are    *)
(* held for a user and a type of usage from Reserve until the first        *)
(* Release, whoever calls it and however often, and a restart forgets      *)
(* everything.  Reservations, the model of internal/reservation,           *)
(* implements this specification; QuotaFlow is built on it.                *)
(***************************************************************************)
EXTENDS Integers, FiniteSets

CONSTANTS
    Ids,     \* reservation UUIDs
    Users,   \* user IDs other than 0
    Types,   \* UPLOAD, DOWNLOAD, STORAGE_ADD
    Sizes,   \* byte counts a reservation can have, all positive
    NoRes    \* no reservation was made under this UUID

VARIABLES
    issued,  \* issued[r]: what was reserved under r, ever
    open,    \* the reservations that are held
    pending  \* pending[u][t]: bytes held

ledgerVars == <<issued, open, pending>>

Reservation == [user : Users, type : Types, bytes : Sizes]

LedgerTypeOK ==
    /\ issued \in [Ids -> Reservation \cup {NoRes}]
    /\ open \subseteq {r \in Ids : issued[r] # NoRes}
    /\ pending \in [Users -> [Types -> Int]]

LedgerInit ==
    /\ issued = [r \in Ids |-> NoRes]
    /\ open = {}
    /\ pending = [u \in Users |-> [t \in Types |-> 0]]

\* Reserve: a UUID nobody has seen before.
Reserve(r, u, t, n) ==
    /\ issued[r] = NoRes
    /\ issued' = [issued EXCEPT ![r] = [user |-> u, type |-> t, bytes |-> n]]
    /\ open' = open \cup {r}
    /\ pending' = [pending EXCEPT ![u][t] = @ + n]

\* The first Release gives the bytes back; another one does nothing.
Release(r) ==
    /\ issued[r] # NoRes
    /\ open' = open \ {r}
    /\ pending' = IF r \in open
                  THEN [pending EXCEPT
                          ![issued[r].user][issued[r].type] = @ - issued[r].bytes]
                  ELSE pending
    /\ UNCHANGED issued

\* The process dies with everything it held.
Forget ==
    /\ open' = {}
    /\ pending' = [u \in Users |-> [t \in Types |-> 0]]
    /\ UNCHANGED issued

LedgerNext ==
    \/ \E r \in Ids, u \in Users, t \in Types, n \in Sizes : Reserve(r, u, t, n)
    \/ \E r \in Ids : Release(r)
    \/ Forget

LedgerSpec == LedgerInit /\ [][LedgerNext]_ledgerVars

=============================================================================
