------------------------------ MODULE ReviewRows ------------------------------
(***************************************************************************)
(* The rows of agent_priority_reviews and the statements the PostgreSQL    *)
(* agent store runs on them (apps/radar/server/agent-store.ts).  Each      *)
(* operator is one statement, or one transaction, of one call.             *)
(*                                                                         *)
(* lease_expires_at is the number of times the lease was extended; lapsed  *)
(* says that it is in the past.  The lease never outlives the review's     *)
(* deadline: after MaxRenewals extensions it ends with it and is renewed   *)
(* without being extended.  A caller reads the clock shortly before its    *)
(* statement; the model reads it with the statement, which is the same to  *)
(* every observer, because only the sweep acts on a lapsed lease.          *)
(* overlays are the rows of agent_priority_overlays.                       *)
(***************************************************************************)
EXTENDS Integers

CONSTANTS Review,      \* identifiers of priority reviews
          Token,       \* lease tokens
          None,        \* SQL null
          MaxRenewals  \* extensions between a claim and the deadline

ASSUME ReviewRowsAssumption == None \notin Token \cup Nat /\ MaxRenewals \in Nat

VARIABLES reviews,   \* agent_priority_reviews
          overlays   \* the reviews with a row in agent_priority_overlays

rowVars == <<reviews, overlays>>

Active == {"queued", "running"}
Ended == {"completed", "failed"}

Row == [status : {"absent"} \cup Active \cup Ended, token : Token \cup {None},
        expiry : 0..MaxRenewals, lapsed : BOOLEAN]

\* A row without a lease, and one that was just claimed.
Unleased(status) ==
  [status |-> status, token |-> None, expiry |-> 0, lapsed |-> FALSE]
Leased(tok) ==
  [status |-> "running", token |-> tok, expiry |-> 0, lapsed |-> FALSE]

RowsInit == reviews = [r \in Review |-> Unleased("absent")] /\ overlays = {}

Write(r, row) == reviews' = [reviews EXCEPT ![r] = row]

-----------------------------------------------------------------------------

\* createReview: insert the review as queued, with its grant.
CreateRow(r) ==
  /\ reviews[r].status = "absent"
  /\ Write(r, Unleased("queued"))
  /\ UNCHANGED overlays

\* Mutations of Claimable: an ended, or a running, review may be claimed too.
ClaimableAgain(r) == reviews[r].status \in {"queued", "failed"}
ClaimableHeld(r) == reviews[r].status \in Active

Claimable(r) == reviews[r].status = "queued"

\* claimReview.
ClaimRow(r, tok) ==
  /\ Claimable(r)
  /\ Write(r, Leased(tok))
  /\ UNCHANGED overlays

\* The caller has the lease, and it is live.
HeldBy(r, tok) ==
  /\ reviews[r].status = "running"
  /\ reviews[r].token = tok
  /\ ~reviews[r].lapsed

\* Mutation of RenewRow: the lease is extended past the deadline.
RenewRowPastDeadline(r, tok) ==
  /\ HeldBy(r, tok)
  /\ reviews' = [reviews EXCEPT ![r].expiry = @ + 1]
  /\ UNCHANGED overlays

\* renewReviewLease; an expiry asked for earlier than the stored one, or at the
\* deadline, extends nothing.
RenewRow(r, tok) ==
  /\ HeldBy(r, tok)
  /\ \/ UNCHANGED reviews
     \/ /\ reviews[r].expiry < MaxRenewals
        /\ reviews' = [reviews EXCEPT ![r].expiry = @ + 1]
  /\ UNCHANGED overlays

\* completeReviewWithOverlay asks for the exact lease that is stored.
Completable(r, tok, expiry) ==
  HeldBy(r, tok) /\ reviews[r].expiry = expiry

\* Mutation of CompleteRow: the overlay is not stored.
CompleteRowOnly(r, tok, expiry) ==
  /\ Completable(r, tok, expiry)
  /\ Write(r, Unleased("completed"))
  /\ UNCHANGED overlays

\* Review and overlay are written in one transaction.
CompleteRow(r, tok, expiry) ==
  /\ Completable(r, tok, expiry)
  /\ Write(r, Unleased("completed"))
  /\ overlays' = overlays \cup {r}

\* Mutation of Failable: a completed review is failed too.
FailableLate(r) == reviews[r].status # "absent"

Failable(r) == reviews[r].status \in Active

\* failReviewIfActive and cancelReview (failActive): no lease is asked for.
FailRow(r) ==
  /\ IF Failable(r) THEN Write(r, Unleased("failed"))
                    ELSE UNCHANGED reviews
  /\ UNCHANGED overlays

\* failExpiredReviews: one statement over all rows.
ExpireRows ==
  /\ reviews' = [r \in Review |->
                   IF reviews[r].status = "running" /\ reviews[r].lapsed
                   THEN Unleased("failed")
                   ELSE reviews[r]]
  /\ UNCHANGED overlays

\* Time passes lease_expires_at.
LapseRow(r) ==
  /\ reviews[r].status = "running"
  /\ ~reviews[r].lapsed
  /\ reviews' = [reviews EXCEPT ![r].lapsed = TRUE]
  /\ UNCHANGED overlays
=============================================================================
