---------------------------- MODULE Commitments ----------------------------
(***************************************************************************)
(* Cryptographic commitments of one sealed-bid auction: commitBid and      *)
(* revealBid, which read, decide and write without a transaction, and the  *)
(* CommitmentPanel of the auction page, which keeps the nonce in the       *)
(* browser.                                                                *)
(*                                                                         *)
(* A commitment is the pair of the amount and the nonce behind its hash:   *)
(* SHA-256 is taken to be injective, and a nonce is never drawn twice.     *)
(* Every bidder has one browser and one tab with the page; the Enter key   *)
(* of the form is not disabled while a commit is under way.                *)
(***************************************************************************)
EXTENDS Integers, FiniteSets, TLC

CONSTANTS
  Bidders,
  Amounts,
  Nothing,       \* no commitment, an empty localStorage entry
  MaxCommits,    \* bound: nonces drawn
  MaxLosses      \* bound: requests or responses that the network loses

ASSUME AmountsAssumption == Amounts \subseteq Nat \ {0}
ASSUME BoundsAssumption  == MaxCommits \in Nat /\ MaxLosses \in Nat
Commitment == Amounts \X (1..MaxCommits)
ASSUME NothingAssumption == Nothing \notin Commitment

VARIABLES
  status,      \* auctions.status
  row,         \* bid_commitments: hash, isValid, revealedAmount
  storage,     \* localStorage of each bidder's browser
  tab,         \* the panel: is the page open, its auctionStatus and storedCommit
  requests,    \* commit and reveal requests under way
  nonces,      \* nonces drawn so far
  losses,
  committed,   \* history: the commitments each bidder has had on the server
  mishap       \* history: has the bidder's last commit been cut short or doubled?

\* The bidders are alike: a symmetry of the safety properties.
BidderSymmetry == Permutations(Bidders)

vars == <<status, row, storage, tab, requests, nonces, losses, committed, mishap>>

NoRow  == [hash |-> Nothing, isValid |-> "null", amount |-> 0, blind |-> TRUE]
Closed == [open |-> FALSE, status |-> "ACTIVE", stored |-> Nothing]

Row == [hash: Commitment \cup {Nothing}, isValid: {"null", "yes", "no"},
        amount: Amounts \cup {0}, blind: BOOLEAN]
Tab == [open: BOOLEAN, status: {"ACTIVE", "ENDED"}, stored: Commitment \cup {Nothing}]

Request == [kind: {"commit", "reveal"}, bidder: Bidders, pair: Commitment,
            step: {"sent", "checked", "done", "failed"}, awaited: BOOLEAN,
            alone: BOOLEAN, match: BOOLEAN, blind: BOOLEAN]

Underway(u, kind) == {r \in requests : r.bidder = u /\ r.kind = kind}
\* Nobody's bid has been revealed yet.
NothingRevealed == \A u \in Bidders : row[u].isValid # "yes"

Replace(r, step) == (requests \ {r}) \cup {[r EXCEPT !.step = step]}
\* An answer reaches the page only while the page waits for it.
Answer(r, step)  == IF r.awaited THEN Replace(r, step) ELSE requests \ {r}

-----------------------------------------------------------------------------
(* The panel                                                               *)

\* Mounting loads what the browser has stored.
OpenPage(u) ==
  /\ ~tab[u].open
  /\ tab' = [tab EXCEPT ![u] = [open |-> TRUE, status |-> status, stored |-> storage[u]]]
  /\ UNCHANGED <<status, row, storage, requests, nonces, losses, committed, mishap>>

\* Closing or reloading the page abandons the answers it was waiting for.
ClosePage(u) ==
  /\ tab[u].open
  /\ tab' = [tab EXCEPT ![u] = Closed]
  /\ requests' = {IF r.bidder = u THEN [r EXCEPT !.awaited = FALSE] ELSE r :
                   r \in {q \in requests : q.bidder # u \/ q.step \in {"sent", "checked"}}}
  /\ mishap' = [mishap EXCEPT ![u] = @ \/ Underway(u, "commit") # {}]
  /\ UNCHANGED <<status, row, storage, nonces, losses, committed>>

\* The page learns that the auction has ended.
RefreshPage(u) ==
  /\ tab[u].open
  /\ tab[u].status # status
  /\ tab' = [tab EXCEPT ![u].status = status]
  /\ UNCHANGED <<status, row, storage, requests, nonces, losses, committed, mishap>>

\* A new nonce, its hash is posted.
ClickCommit(u, amount) ==
  /\ tab[u].open
  /\ tab[u].status = "ACTIVE"
  /\ tab[u].stored = Nothing
  /\ nonces < MaxCommits
  /\ nonces' = nonces + 1
  /\ LET earlier == Underway(u, "commit")
     IN  /\ requests' = (requests \ earlier) \cup {[r EXCEPT !.alone = FALSE] : r \in earlier} \cup
              {[kind |-> "commit", bidder |-> u, pair |-> <<amount, nonces + 1>>, step |-> "sent",
                awaited |-> TRUE, alone |-> earlier = {}, match |-> FALSE,
                blind |-> NothingRevealed]}
         /\ mishap' = [mishap EXCEPT ![u] = @ \/ earlier # {}]
  /\ UNCHANGED <<status, row, storage, tab, losses, committed>>

\* "Replace commitment" forgets the nonce, not the commitment.
ClickReplace(u) ==
  /\ tab[u].open
  /\ tab[u].status = "ACTIVE"
  /\ tab[u].stored # Nothing
  /\ tab'     = [tab EXCEPT ![u].stored = Nothing]
  /\ storage' = [storage EXCEPT ![u] = Nothing]
  /\ mishap'  = [mishap EXCEPT ![u] = TRUE]
  /\ UNCHANGED <<status, row, requests, nonces, losses, committed>>

\* The amount is a field of the form: it may be mistyped.
ClickReveal(u, amount) ==
  /\ tab[u].open
  /\ tab[u].status = "ENDED"
  /\ tab[u].stored # Nothing
  /\ Underway(u, "reveal") = {}
  /\ requests' = requests \cup
       {[kind |-> "reveal", bidder |-> u, pair |-> <<amount, tab[u].stored[2]>>, step |-> "sent",
         awaited |-> TRUE, alone |-> TRUE, match |-> FALSE, blind |-> TRUE]}
  /\ UNCHANGED <<status, row, storage, tab, nonces, losses, committed, mishap>>

\* Mutation: the nonce is cleared whatever the server answers.
ClearsStoredAlways(r) == TRUE

\* The answers after which the panel clears the stored nonce.
ClearsStored(r) == r.step = "done"

CommitAnswered(r) ==
  /\ r.kind = "commit" /\ r.step \in {"done", "failed"}
  /\ requests' = requests \ {r}
  /\ IF r.step = "done"
     THEN /\ storage' = [storage EXCEPT ![r.bidder] = r.pair]
          /\ tab'     = [tab EXCEPT ![r.bidder].stored = r.pair]
          /\ mishap'  = [mishap EXCEPT ![r.bidder] = @ /\ ~r.alone]
     ELSE UNCHANGED <<storage, tab, mishap>>
  /\ UNCHANGED <<status, row, nonces, losses, committed>>

RevealAnswered(r) ==
  /\ r.kind = "reveal" /\ r.step \in {"done", "failed"}
  /\ requests' = requests \ {r}
  /\ IF ClearsStored(r)
     THEN /\ storage' = [storage EXCEPT ![r.bidder] = Nothing]
          /\ tab'     = [tab EXCEPT ![r.bidder].stored = Nothing]
     ELSE UNCHANGED <<storage, tab>>
  /\ UNCHANGED <<status, row, nonces, losses, committed, mishap>>

-----------------------------------------------------------------------------
(* commitBid                                                               *)

\* Mutation: the status is not checked.
AcceptsCommitsAlways == TRUE

AcceptsCommits == status = "ACTIVE"

CheckCommit(r) ==
  /\ r.kind = "commit" /\ r.step = "sent"
  /\ requests' = IF AcceptsCommits THEN Replace(r, "checked") ELSE Answer(r, "failed")
  /\ UNCHANGED <<status, row, storage, tab, nonces, losses, committed, mishap>>

\* The upsert replaces any commitment, also one that was revealed meanwhile.
StoreCommit(r) ==
  /\ r.kind = "commit" /\ r.step = "checked"
  /\ row' = [row EXCEPT ![r.bidder] = [NoRow EXCEPT !.hash = r.pair, !.blind = r.blind]]
  /\ committed' = [committed EXCEPT ![r.bidder] = @ \cup {r.pair}]
  /\ requests' = Answer(r, "done")
  /\ UNCHANGED <<status, storage, tab, nonces, losses, mishap>>

-----------------------------------------------------------------------------
(* revealBid                                                               *)

\* Mutation: only the nonce is compared.
MatchesNonce(pair, hash) == hash # Nothing /\ pair[2] = hash[2]

Matches(pair, hash) == pair = hash

CheckReveal(r) ==
  /\ r.kind = "reveal" /\ r.step = "sent"
  /\ IF status = "ENDED" /\ row[r.bidder].hash # Nothing /\ row[r.bidder].isValid = "null"
     THEN requests' = (requests \ {r}) \cup
            {[r EXCEPT !.step = "checked", !.match = Matches(r.pair, row[r.bidder].hash)]}
     ELSE requests' = Answer(r, "failed")
  /\ UNCHANGED <<status, row, storage, tab, nonces, losses, committed, mishap>>

\* The row is updated by its id, whatever it holds by now.
StoreReveal(r) ==
  /\ r.kind = "reveal" /\ r.step = "checked"
  /\ row' = [row EXCEPT ![r.bidder].isValid = IF r.match THEN "yes" ELSE "no",
                        ![r.bidder].amount  = IF r.match THEN r.pair[1] ELSE 0]
  /\ requests' = Answer(r, IF r.match THEN "done" ELSE "failed")
  /\ UNCHANGED <<status, storage, tab, nonces, losses, committed, mishap>>

-----------------------------------------------------------------------------
(* The auction, the network                                                *)

EndAuction ==
  /\ status = "ACTIVE"
  /\ status' = "ENDED"
  /\ UNCHANGED <<row, storage, tab, requests, nonces, losses, committed, mishap>>

\* A request never arrives, or its answer is lost: the panel sees an error.
Lose(r) ==
  /\ losses < MaxLosses
  /\ r.step \in {"sent", "done"}
  /\ losses'   = losses + 1
  /\ requests' = Answer(r, "failed")
  /\ mishap'   = [mishap EXCEPT ![r.bidder] = @ \/ (r.kind = "commit" /\ r.step = "done")]
  /\ UNCHANGED <<status, row, storage, tab, nonces, committed>>

Init ==
  /\ status    = "ACTIVE"
  /\ row       = [u \in Bidders |-> NoRow]
  /\ storage   = [u \in Bidders |-> Nothing]
  /\ tab       = [u \in Bidders |-> Closed]
  /\ requests  = {}
  /\ nonces    = 0
  /\ losses    = 0
  /\ committed = [u \in Bidders |-> {}]
  /\ mishap    = [u \in Bidders |-> FALSE]

Panel(u) ==
  \/ OpenPage(u) \/ ClosePage(u) \/ RefreshPage(u) \/ ClickReplace(u)
  \/ \E amount \in Amounts : ClickCommit(u, amount) \/ ClickReveal(u, amount)

Serve(r) ==
  \/ CheckCommit(r) \/ StoreCommit(r) \/ CommitAnswered(r)
  \/ CheckReveal(r) \/ StoreReveal(r) \/ RevealAnswered(r)
  \/ Lose(r)

Next ==
  \/ \E u \in Bidders : Panel(u)
  \/ \E r \in requests : Serve(r)
  \/ EndAuction

Spec == Init /\ [][Next]_vars

-----------------------------------------------------------------------------
(* Properties                                                              *)

CommitmentsTypeOK ==
  /\ status  \in {"ACTIVE", "ENDED"}
  /\ row     \in [Bidders -> Row]
  /\ storage \in [Bidders -> Commitment \cup {Nothing}]
  /\ tab     \in [Bidders -> Tab]
  /\ requests \subseteq Request
  /\ nonces  \in 0..MaxCommits
  /\ losses  \in 0..MaxLosses
  /\ committed \in [Bidders -> SUBSET Commitment]
  /\ mishap  \in [Bidders -> BOOLEAN]

\* Hiding (commitBid, revealBid): every commitment that counts was sent by its
\* bidder before any bid of the auction was revealed, although the check of the
\* status and the write of the row are apart.
ChosenBlind == \A u \in Bidders : row[u].blind

\* Binding: an amount that counts as revealed is one the bidder had committed to
\* while the auction was open, whatever commits and reveals race each other.
RevealedWasCommitted ==
  \A u \in Bidders : row[u].isValid = "yes" =>
    \E c \in committed[u] : c[1] = row[u].amount

\* The panel keeps the nonce: a bidder whose last commit was answered, neither
\* doubled nor cut short by a reload, a lost answer or a "Replace", holds the
\* nonce of the commitment on the server until it is revealed.
CanStillReveal ==
  \A u \in Bidders :
    (/\ ~mishap[u]
     /\ Underway(u, "commit") \cup Underway(u, "reveal") = {}
     /\ row[u].hash # Nothing
     /\ row[u].isValid = "null") => storage[u] = row[u].hash
=============================================================================
