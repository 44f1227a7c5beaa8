---------------------------- MODULE AccountLease ----------------------------
(***************************************************************************)
(* What UserManager promises about a Linux user name, with neither counts  *)
(* nor locks: connections lease the name on behalf of one identity at a    *)
(* time, the name is free again exactly when the last of them gives it     *)
(* back, and a crash of the daemon ends every lease at once.               *)
(***************************************************************************)
CONSTANTS Conn, Identity, User, Derive, NoId

VARIABLES
  holders,  \* user -> connections that lease it
  owner     \* user -> identity they all act for

leaseVars == <<holders, owner>>

Init ==
  /\ holders = [u \in User |-> {}]
  /\ owner = [u \in User |-> NoId]

Lease(c, id) ==
  /\ \A u \in User : c \notin holders[u]
  /\ owner[Derive[id]] \in {NoId, id}
  /\ holders' = [holders EXCEPT ![Derive[id]] = @ \union {c}]
  /\ owner' = [owner EXCEPT ![Derive[id]] = id]

GiveBack(c, u) ==
  /\ c \in holders[u]
  /\ holders' = [holders EXCEPT ![u] = @ \ {c}]
  /\ owner' = IF holders[u] = {c} THEN [owner EXCEPT ![u] = NoId] ELSE owner

EndAll ==
  /\ holders' = [u \in User |-> {}]
  /\ owner' = [u \in User |-> NoId]

Next ==
  \/ \E c \in Conn, id \in Identity : Lease(c, id)
  \/ \E c \in Conn, u \in User : GiveBack(c, u)
  \/ EndAll

Spec == Init /\ [][Next]_leaseVars
=============================================================================
