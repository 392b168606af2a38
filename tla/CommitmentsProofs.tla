------------------------- MODULE CommitmentsProofs -------------------------
(***************************************************************************)
(* Hiding and binding of the commitments, for any bidders, amounts and     *)
(* numbers of requests: although commitBid and revealBid read and write in *)
(* separate steps, what counts was chosen before anything was revealed,    *)
(* and what is revealed was committed to.  And the browser keeps the nonce *)
(* of what it has committed to, unless a commit was doubled or cut short.  *)
(***************************************************************************)
EXTENDS Commitments, TLAPS

\* A hash on the server, and a pair that matched one, were committed.
HashCommitted  == \A u \in Bidders : row[u].hash # Nothing => row[u].hash \in committed[u]
MatchCommitted == \A r \in requests : r.match => r.pair \in committed[r.bidder]

\* While the auction is open nothing is revealed, or about to be, and every commit under
\* way is blind.
OpenIsHidden ==
  status = "ACTIVE" =>
    /\ \A u \in Bidders : row[u].isValid = "null"
    /\ \A r \in requests : IF r.kind = "reveal" THEN r.step # "checked" ELSE r.blind

\* A commit that has passed its check is blind.
CheckedIsBlind == \A r \in requests : r.kind = "commit" /\ r.step = "checked" => r.blind

IInv ==
  /\ CommitmentsTypeOK
  /\ HashCommitted /\ MatchCommitted /\ RevealedWasCommitted
  /\ OpenIsHidden /\ CheckedIsBlind /\ ChosenBlind

-----------------------------------------------------------------------------
(* Requests that only move on                                              *)

\* q is r, further on but not newly checked.
Continues(q, r) ==
  /\ q.kind = r.kind /\ q.bidder = r.bidder /\ q.pair = r.pair
  /\ q.blind = r.blind /\ q.match = r.match
  /\ q.step = "checked" => r.step = "checked"

\* Every request of next is one of before, further on.
MoveOn(before, next) ==
  /\ next \subseteq Request
  /\ \A q \in next : \E r \in before : Continues(q, r)

\* Dropping a request, or giving it a step other than checked, moves requests on.
LEMMA AnswersMoveOn ==
  ASSUME requests \subseteq Request, NEW r \in requests,
         NEW step \in {"sent", "done", "failed"}
  PROVE  /\ MoveOn(requests, requests \ {r})
         /\ MoveOn(requests, Replace(r, step))
         /\ MoveOn(requests, Answer(r, step))
<1>1. [r EXCEPT !.step = step] \in Request /\ Continues([r EXCEPT !.step = step], r)
  BY DEF Request, Continues
<1>2. \A q \in requests : q \in Request /\ Continues(q, q)
  BY DEF Continues
<1>3. MoveOn(requests, requests \ {r})
  BY <1>2 DEF MoveOn
<1>4. MoveOn(requests, Replace(r, step))
  BY <1>1, <1>2 DEF MoveOn, Replace
<1> QED
  BY <1>3, <1>4 DEF Answer

\* What the strengthening says of requests survives when they move on and the rest of
\* the server stays, or the auction ends.
LEMMA MovingOnKeeps ==
  ASSUME IInv, MoveOn(requests, requests'), UNCHANGED <<row, committed>>,
         status' \in {status, "ENDED"}, CommitmentsTypeOK'
  PROVE  IInv'
<1>1. PICK from \in [requests' -> requests] : \A q \in requests' : Continues(q, from[q])
  <2> DEFINE from == [q \in requests' |-> CHOOSE r \in requests : Continues(q, r)]
  <2>1. \A q \in requests' : from[q] \in requests /\ Continues(q, from[q])
    BY DEF MoveOn
  <2> QED
    BY <2>1
<1>2. MatchCommitted'
  BY <1>1 DEF IInv, MatchCommitted, Continues
<1>3. OpenIsHidden'
  BY <1>1 DEF IInv, OpenIsHidden, Continues
<1>4. CheckedIsBlind'
  BY <1>1 DEF IInv, CheckedIsBlind, Continues
<1>5. HashCommitted' /\ RevealedWasCommitted' /\ ChosenBlind'
  BY DEF IInv, HashCommitted, RevealedWasCommitted, ChosenBlind
<1> QED
  BY <1>2, <1>3, <1>4, <1>5 DEF IInv

\* Requests that stay as they are move on.
LEMMA StayingMovesOn == ASSUME requests \subseteq Request PROVE MoveOn(requests, requests)
  BY DEF MoveOn, Continues

-----------------------------------------------------------------------------
(* Type correctness                                                        *)

\* The requests of a step are typed whenever they move on.
LEMMA PanelTyped ==
  ASSUME CommitmentsTypeOK, NEW u \in Bidders, Panel(u)
  PROVE  CommitmentsTypeOK'
<1> USE DEF CommitmentsTypeOK, Row, Tab
<1>1. CASE OpenPage(u)
  BY <1>1 DEF OpenPage
<1>2. CASE ClosePage(u)
  <2>1. requests' \subseteq Request
    <3>1. ASSUME NEW r \in requests
          PROVE  [r EXCEPT !.awaited = FALSE] \in Request
      BY DEF Request
    <3> QED
      BY <1>2, <3>1 DEF ClosePage
  <2> QED
    BY <1>2, <2>1 DEF ClosePage, Closed
<1>3. CASE RefreshPage(u)
  BY <1>3 DEF RefreshPage
<1>4. CASE ClickReplace(u)
  BY <1>4 DEF ClickReplace
<1>5. CASE \E amount \in Amounts : ClickCommit(u, amount)
  <2>1. PICK amount \in Amounts : ClickCommit(u, amount)
    BY <1>5
  <2>2. nonces' \in 1..MaxCommits
    BY <2>1, BoundsAssumption DEF ClickCommit
  <2>3. <<amount, nonces + 1>> \in Commitment
    BY <2>1, <2>2 DEF ClickCommit, Commitment
  <2>4. \A r \in requests : [r EXCEPT !.alone = FALSE] \in Request
    BY DEF Request
  <2>5. requests' \subseteq Request
    <3> DEFINE new == [kind |-> "commit", bidder |-> u, pair |-> <<amount, nonces + 1>>,
                       step |-> "sent", awaited |-> TRUE,
                       alone |-> Underway(u, "commit") = {}, match |-> FALSE,
                       blind |-> NothingRevealed]
    <3>1. NothingRevealed \in BOOLEAN
      BY DEF NothingRevealed
    <3>2. new \in Request
      BY <2>3, <3>1 DEF Request
    <3>3. requests' = (requests \ Underway(u, "commit"))
                      \cup {[r EXCEPT !.alone = FALSE] : r \in Underway(u, "commit")} \cup {new}
      BY <2>1 DEF ClickCommit
    <3>4. Underway(u, "commit") \subseteq requests
      BY DEF Underway
    <3> HIDE DEF new
    <3> QED
      BY <2>4, <3>2, <3>3, <3>4
  <2> QED
    BY <2>1, <2>2, <2>5, BoundsAssumption DEF ClickCommit
<1>6. CASE \E amount \in Amounts : ClickReveal(u, amount)
  <2>1. PICK amount \in Amounts : ClickReveal(u, amount)
    BY <1>6
  <2>2. tab[u].stored \in Commitment
    BY <2>1 DEF ClickReveal
  <2>3. <<amount, tab[u].stored[2]>> \in Commitment
    BY <2>2 DEF Commitment
  <2>4. requests' \subseteq Request
    <3> DEFINE new == [kind |-> "reveal", bidder |-> u, pair |-> <<amount, tab[u].stored[2]>>,
                       step |-> "sent", awaited |-> TRUE, alone |-> TRUE, match |-> FALSE,
                       blind |-> TRUE]
    <3>1. new \in Request
      BY <2>3 DEF Request
    <3>2. requests' = requests \cup {new}
      BY <2>1 DEF ClickReveal
    <3> HIDE DEF new
    <3> QED
      BY <3>1, <3>2
  <2> QED
    BY <2>1, <2>4 DEF ClickReveal
<1> QED
  BY <1>1, <1>2, <1>3, <1>4, <1>5, <1>6 DEF Panel

LEMMA ServeTyped ==
  ASSUME CommitmentsTypeOK, NEW r \in requests, Serve(r)
  PROVE  CommitmentsTypeOK'
<1> USE DEF CommitmentsTypeOK, Row, Tab
<1>1. /\ r.bidder \in Bidders /\ r.pair \in Commitment /\ r.pair[1] \in Amounts
      /\ r.blind \in BOOLEAN /\ r.match \in BOOLEAN
  BY DEF Request, Commitment
<1>2. \A step \in {"sent", "done", "failed"} :
        Answer(r, step) \subseteq Request /\ Replace(r, step) \subseteq Request
  BY AnswersMoveOn DEF MoveOn
<1>3. CASE CheckCommit(r)
  <2>1. Replace(r, "checked") \subseteq Request
    BY DEF Replace, Request
  <2> QED
    BY <1>2, <1>3, <2>1 DEF CheckCommit
<1>4. CASE StoreCommit(r)
  BY <1>1, <1>2, <1>4 DEF StoreCommit, NoRow
<1>5. CASE CommitAnswered(r)
  <2>1. /\ requests' \subseteq requests
        /\ UNCHANGED <<status, row, nonces, losses, committed>>
    BY <1>5 DEF CommitAnswered
  <2>2. storage' = storage \/ storage' = [storage EXCEPT ![r.bidder] = r.pair]
    BY <1>5 DEF CommitAnswered
  <2>3. tab' = tab \/ tab' = [tab EXCEPT ![r.bidder].stored = r.pair]
    BY <1>5 DEF CommitAnswered
  <2>4. mishap' = mishap \/ mishap' = [mishap EXCEPT ![r.bidder] = @ /\ ~r.alone]
    BY <1>5 DEF CommitAnswered
  <2>5. storage' \in [Bidders -> Commitment \cup {Nothing}]
    BY <1>1, <2>2
  <2>6. tab' \in [Bidders -> Tab]
    <3>1. [tab[r.bidder] EXCEPT !.stored = r.pair] \in Tab
      BY <1>1
    <3> HIDE DEF Tab
    <3> QED
      BY <1>1, <2>3, <3>1
  <2>7. mishap' \in [Bidders -> BOOLEAN]
    BY <1>1, <2>4
  <2> QED
    BY <2>1, <2>5, <2>6, <2>7
<1>6. CASE CheckReveal(r)
  <2>1. Matches(r.pair, row[r.bidder].hash) \in BOOLEAN
    BY DEF Matches
  <2>2. [r EXCEPT !.step = "checked", !.match = Matches(r.pair, row[r.bidder].hash)] \in Request
    BY <2>1 DEF Request
  <2> QED
    BY <1>2, <1>6, <2>2 DEF CheckReveal
<1>7. CASE StoreReveal(r)
  <2>1. requests' \subseteq Request
    BY <1>2, <1>7 DEF StoreReveal
  <2>2. row' = [row EXCEPT ![r.bidder] = [row[r.bidder] EXCEPT
                  !.isValid = IF r.match THEN "yes" ELSE "no",
                  !.amount  = IF r.match THEN r.pair[1] ELSE 0]]
    BY <1>1, <1>7 DEF StoreReveal
  <2>3. [row[r.bidder] EXCEPT !.isValid = IF r.match THEN "yes" ELSE "no",
                              !.amount  = IF r.match THEN r.pair[1] ELSE 0] \in Row
    <3>1. row[r.bidder] \in Row
      BY <1>1
    <3>2. CASE r.match
      BY <1>1, <3>1, <3>2
    <3>3. CASE ~r.match
      BY <1>1, <3>1, <3>3
    <3> QED
      BY <3>2, <3>3
  <2>4. UNCHANGED <<status, storage, tab, nonces, losses, committed, mishap>>
    BY <1>7 DEF StoreReveal
  <2> HIDE DEF Row, Tab
  <2>5. row' \in [Bidders -> Row]
    BY <1>1, <2>2, <2>3
  <2> QED
    BY <2>1, <2>4, <2>5
<1>8. CASE RevealAnswered(r)
  <2>1. /\ requests' \subseteq requests
        /\ UNCHANGED <<status, row, nonces, losses, committed, mishap>>
    BY <1>8 DEF RevealAnswered
  <2>2. storage' = storage \/ storage' = [storage EXCEPT ![r.bidder] = Nothing]
    BY <1>8 DEF RevealAnswered
  <2>3. tab' = tab \/ tab' = [tab EXCEPT ![r.bidder].stored = Nothing]
    BY <1>8 DEF RevealAnswered
  <2>4. storage' \in [Bidders -> Commitment \cup {Nothing}]
    BY <2>2
  <2>5. tab' \in [Bidders -> Tab]
    <3>1. [tab[r.bidder] EXCEPT !.stored = Nothing] \in Tab
      BY <1>1
    <3> HIDE DEF Tab
    <3> QED
      BY <1>1, <2>3, <3>1
  <2> QED
    BY <2>1, <2>4, <2>5
<1>9. CASE Lose(r)
  <2>1. losses' \in 0..MaxLosses
    BY <1>9, BoundsAssumption DEF Lose
  <2> QED
    BY <1>2, <1>9, <2>1 DEF Lose
<1> QED
  BY <1>3, <1>4, <1>5, <1>6, <1>7, <1>8, <1>9 DEF Serve

LEMMA StepsTyped ==
  ASSUME CommitmentsTypeOK, [Next]_vars
  PROVE  CommitmentsTypeOK'
<1>1. CASE UNCHANGED vars
  BY <1>1 DEF vars, CommitmentsTypeOK
<1>2. CASE EndAuction
  BY <1>2 DEF EndAuction, CommitmentsTypeOK
<1> QED
  BY <1>1, <1>2, PanelTyped, ServeTyped DEF Next

-----------------------------------------------------------------------------
(* Hiding and binding                                                      *)

\* The panel sends commits that are blind while the auction is open, and reveals that
\* have matched nothing yet.
LEMMA PanelKeeps ==
  ASSUME IInv, NEW u \in Bidders, Panel(u), CommitmentsTypeOK'
  PROVE  IInv'
<1>1. requests \subseteq Request
  BY DEF IInv, CommitmentsTypeOK
<1>2. CASE OpenPage(u) \/ RefreshPage(u) \/ ClickReplace(u)
  BY <1>1, <1>2, StayingMovesOn, MovingOnKeeps DEF OpenPage, RefreshPage, ClickReplace
<1>3. CASE ClosePage(u)
  <2>1. \A r \in requests : Continues([r EXCEPT !.awaited = FALSE], r) /\ Continues(r, r)
    BY <1>1 DEF Request, Continues
  <2>2. requests' \subseteq Request
    BY DEF CommitmentsTypeOK
  <2>3. MoveOn(requests, requests')
    BY <1>3, <2>1, <2>2 DEF ClosePage, MoveOn
  <2> QED
    BY <1>3, <2>3, MovingOnKeeps DEF ClosePage
<1>4. ASSUME NEW new, new.match = FALSE, new.step = "sent",
             \A q \in requests' : q = new \/ \E r \in requests : Continues(q, r),
             UNCHANGED <<status, row, committed>>,
             status = "ACTIVE" => (new.kind = "reveal" \/ new.blind)
      PROVE  IInv'
  <2>1. MatchCommitted'
    BY <1>4 DEF IInv, MatchCommitted, Continues
  <2>2. OpenIsHidden'
    BY <1>4 DEF IInv, OpenIsHidden, Continues
  <2>3. CheckedIsBlind'
    BY <1>4 DEF IInv, CheckedIsBlind, Continues
  <2>4. HashCommitted' /\ RevealedWasCommitted' /\ ChosenBlind'
    BY <1>4 DEF IInv, HashCommitted, RevealedWasCommitted, ChosenBlind
  <2> QED
    BY <2>1, <2>2, <2>3, <2>4 DEF IInv
<1>5. CASE \E amount \in Amounts : ClickCommit(u, amount)
  <2>1. PICK amount \in Amounts : ClickCommit(u, amount)
    BY <1>5
  <2> DEFINE new == [kind |-> "commit", bidder |-> u, pair |-> <<amount, nonces + 1>>,
                     step |-> "sent", awaited |-> TRUE,
                     alone |-> Underway(u, "commit") = {}, match |-> FALSE,
                     blind |-> NothingRevealed]
  <2>2. requests' = (requests \ Underway(u, "commit"))
                    \cup {[r EXCEPT !.alone = FALSE] : r \in Underway(u, "commit")} \cup {new}
    BY <2>1 DEF ClickCommit
  <2>3. \A r \in requests : Continues([r EXCEPT !.alone = FALSE], r) /\ Continues(r, r)
    BY <1>1 DEF Request, Continues
  <2>4. Underway(u, "commit") \subseteq requests
    BY DEF Underway
  <2>5. status = "ACTIVE" => NothingRevealed
    BY DEF IInv, OpenIsHidden, NothingRevealed
  <2>6. /\ new.match = FALSE /\ new.step = "sent" /\ new.kind = "commit"
        /\ new.blind = NothingRevealed
    OBVIOUS
  <2>7. UNCHANGED <<status, row, committed>>
    BY <2>1 DEF ClickCommit
  <2> HIDE DEF new
  <2>8. \A q \in requests' : q = new \/ \E r \in requests : Continues(q, r)
    BY <2>2, <2>3, <2>4
  <2>9. status = "ACTIVE" => new.blind
    BY <2>5, <2>6
  <2> QED
    BY <1>4, <2>6, <2>7, <2>8, <2>9
<1>6. CASE \E amount \in Amounts : ClickReveal(u, amount)
  <2>1. PICK amount \in Amounts : ClickReveal(u, amount)
    BY <1>6
  <2> DEFINE new == [kind |-> "reveal", bidder |-> u, pair |-> <<amount, tab[u].stored[2]>>,
                     step |-> "sent", awaited |-> TRUE, alone |-> TRUE, match |-> FALSE,
                     blind |-> TRUE]
  <2>2. requests' = requests \cup {new} /\ UNCHANGED <<status, row, committed>>
    BY <2>1 DEF ClickReveal
  <2>3. \A r \in requests : Continues(r, r)
    BY DEF Continues
  <2>4. new.match = FALSE /\ new.step = "sent" /\ new.kind = "reveal"
    OBVIOUS
  <2> HIDE DEF new
  <2> QED
    BY <1>4, <2>2, <2>3, <2>4
<1> QED
  BY <1>2, <1>3, <1>5, <1>6 DEF Panel

\* A commit that passes its check is blind; what it stores is committed.
LEMMA CommitKeeps ==
  ASSUME IInv, NEW r \in requests, CheckCommit(r) \/ StoreCommit(r), CommitmentsTypeOK'
  PROVE  IInv'
<1>1. requests \subseteq Request /\ r \in Request /\ r.bidder \in Bidders
  BY DEF IInv, CommitmentsTypeOK, Request
<1>2. CASE CheckCommit(r)
  <2>1. CASE status = "ACTIVE"
    <3> DEFINE checked == [r EXCEPT !.step = "checked"]
    <3>1. requests' = (requests \ {r}) \cup {checked} /\ UNCHANGED <<status, row, committed>>
      BY <1>2, <2>1 DEF CheckCommit, AcceptsCommits, Replace
    <3>2. /\ checked.kind = "commit" /\ checked.blind = r.blind /\ checked.match = r.match
          /\ checked.pair = r.pair /\ checked.bidder = r.bidder
      BY <1>1, <1>2 DEF CheckCommit, Request
    <3>3. r.blind
      BY <1>2, <2>1 DEF IInv, OpenIsHidden, CheckCommit
    <3> HIDE DEF checked
    <3>4. MatchCommitted'
      BY <3>1, <3>2 DEF IInv, MatchCommitted
    <3>5. OpenIsHidden'
      BY <3>1, <3>2, <3>3 DEF IInv, OpenIsHidden
    <3>6. CheckedIsBlind'
      BY <3>1, <3>2, <3>3 DEF IInv, CheckedIsBlind
    <3>7. HashCommitted' /\ RevealedWasCommitted' /\ ChosenBlind'
      BY <3>1 DEF IInv, HashCommitted, RevealedWasCommitted, ChosenBlind
    <3> QED
      BY <3>4, <3>5, <3>6, <3>7 DEF IInv
  <2>2. CASE status # "ACTIVE"
    <3>1. requests' = Answer(r, "failed") /\ UNCHANGED <<status, row, committed>>
      BY <1>2, <2>2 DEF CheckCommit, AcceptsCommits
    <3> QED
      BY <1>1, <3>1, AnswersMoveOn, MovingOnKeeps
  <2> QED
    BY <2>1, <2>2
<1>3. CASE StoreCommit(r)
  <2>1. MoveOn(requests, requests')
    BY <1>1, <1>3, AnswersMoveOn DEF StoreCommit
  <2>2. status' = status /\ r.blind
    BY <1>3 DEF StoreCommit, IInv, CheckedIsBlind
  <2>3. /\ \A u \in Bidders \ {r.bidder} : row'[u] = row[u] /\ committed'[u] = committed[u]
        /\ row'[r.bidder].hash = r.pair /\ row'[r.bidder].isValid = "null"
        /\ row'[r.bidder].blind = r.blind
        /\ committed'[r.bidder] = committed[r.bidder] \cup {r.pair}
    BY <1>1, <1>3 DEF StoreCommit, NoRow, IInv, CommitmentsTypeOK
  <2>4. HashCommitted'
    BY <1>1, <2>3 DEF IInv, HashCommitted
  <2>5. MatchCommitted'
    <3>1. \A u \in Bidders : committed[u] \subseteq committed'[u]
      BY <1>1, <2>3
    <3>2. \A q \in requests : q.bidder \in Bidders
      BY <1>1 DEF Request
    <3> QED
      BY <2>1, <3>1, <3>2 DEF IInv, MatchCommitted, MoveOn, Continues
  <2>6. RevealedWasCommitted'
    BY <1>1, <2>3 DEF IInv, RevealedWasCommitted
  <2>7. OpenIsHidden'
    BY <1>1, <2>1, <2>2, <2>3 DEF IInv, OpenIsHidden, MoveOn, Continues
  <2>8. CheckedIsBlind'
    BY <2>1 DEF IInv, CheckedIsBlind, MoveOn, Continues
  <2>9. ChosenBlind'
    BY <1>1, <2>2, <2>3 DEF IInv, ChosenBlind
  <2> QED
    BY <2>4, <2>5, <2>6, <2>7, <2>8, <2>9 DEF IInv
<1> QED
  BY <1>2, <1>3

\* A reveal matches a commitment of its bidder, after the auction has ended; what it
\* writes later was committed, whatever the row holds by then.
LEMMA RevealKeeps ==
  ASSUME IInv, NEW r \in requests, CheckReveal(r) \/ StoreReveal(r), CommitmentsTypeOK'
  PROVE  IInv'
<1>1. requests \subseteq Request /\ r \in Request /\ r.bidder \in Bidders
  BY DEF IInv, CommitmentsTypeOK, Request
<1> DEFINE accepted == /\ status = "ENDED" /\ row[r.bidder].hash # Nothing
                       /\ row[r.bidder].isValid = "null"
<1>2. CASE CheckReveal(r) /\ accepted
  <2> DEFINE checked == [r EXCEPT !.step = "checked",
                                  !.match = Matches(r.pair, row[r.bidder].hash)]
  <2>1. /\ requests' = (requests \ {r}) \cup {checked} /\ UNCHANGED <<status, row, committed>>
        /\ status # "ACTIVE" /\ r.kind = "reveal"
    BY <1>2 DEF CheckReveal
  <2>2. /\ checked.kind = "reveal" /\ checked.pair = r.pair /\ checked.bidder = r.bidder
        /\ checked.match = (r.pair = row[r.bidder].hash)
    BY <1>1, <2>1 DEF Request, Matches
  <2>3. r.pair = row[r.bidder].hash => r.pair \in committed[r.bidder]
    BY <1>1, <1>2 DEF IInv, HashCommitted
  <2> HIDE DEF checked
  <2>4. MatchCommitted'
    BY <2>1, <2>2, <2>3 DEF IInv, MatchCommitted
  <2>5. OpenIsHidden' /\ CheckedIsBlind'
    BY <2>1, <2>2 DEF IInv, OpenIsHidden, CheckedIsBlind
  <2>6. HashCommitted' /\ RevealedWasCommitted' /\ ChosenBlind'
    BY <2>1 DEF IInv, HashCommitted, RevealedWasCommitted, ChosenBlind
  <2> QED
    BY <2>4, <2>5, <2>6 DEF IInv
<1>3. CASE CheckReveal(r) /\ ~accepted
  <2>1. requests' = Answer(r, "failed") /\ UNCHANGED <<status, row, committed>>
    BY <1>3 DEF CheckReveal
  <2> QED
    BY <1>1, <2>1, AnswersMoveOn, MovingOnKeeps
<1>4. CASE StoreReveal(r)
  <2>1. MoveOn(requests, requests')
    <3>1. CASE r.match
      BY <1>1, <1>4, <3>1, AnswersMoveOn DEF StoreReveal
    <3>2. CASE ~r.match
      BY <1>1, <1>4, <3>2, AnswersMoveOn DEF StoreReveal
    <3> QED
      BY <3>1, <3>2
  <2>2. status' = status /\ committed' = committed /\ status # "ACTIVE"
    BY <1>4 DEF StoreReveal, IInv, OpenIsHidden
  <2>3. row' = [row EXCEPT ![r.bidder] = [row[r.bidder] EXCEPT
                  !.isValid = IF r.match THEN "yes" ELSE "no",
                  !.amount  = IF r.match THEN r.pair[1] ELSE 0]]
    BY <1>1, <1>4 DEF StoreReveal, IInv, CommitmentsTypeOK
  <2>4. row \in [Bidders -> Row] /\ row[r.bidder] \in Row
    BY <1>1 DEF IInv, CommitmentsTypeOK
  <2>5. /\ \A u \in Bidders \ {r.bidder} : row'[u] = row[u]
        /\ row'[r.bidder].hash = row[r.bidder].hash
        /\ row'[r.bidder].blind = row[r.bidder].blind
        /\ row'[r.bidder].isValid = IF r.match THEN "yes" ELSE "no"
        /\ row'[r.bidder].amount = IF r.match THEN r.pair[1] ELSE 0
    BY <1>1, <2>3, <2>4 DEF Row
  <2>6. HashCommitted' /\ ChosenBlind'
    BY <1>1, <2>2, <2>5 DEF IInv, HashCommitted, ChosenBlind
  <2>7. MatchCommitted'
    BY <2>1, <2>2 DEF IInv, MatchCommitted, MoveOn, Continues
  <2>8. RevealedWasCommitted'
    BY <1>1, <2>2, <2>5 DEF IInv, RevealedWasCommitted, MatchCommitted
  <2>9. OpenIsHidden' /\ CheckedIsBlind'
    BY <2>1, <2>2 DEF IInv, OpenIsHidden, CheckedIsBlind, MoveOn, Continues
  <2> QED
    BY <2>6, <2>7, <2>8, <2>9 DEF IInv
<1> QED
  BY <1>2, <1>3, <1>4

\* Answers, losses and the end of the auction change nothing on the server's side.
LEMMA OthersKeep ==
  ASSUME IInv, CommitmentsTypeOK',
         \/ EndAuction
         \/ UNCHANGED vars
         \/ \E r \in requests : CommitAnswered(r) \/ RevealAnswered(r) \/ Lose(r)
  PROVE  IInv'
<1>1. requests \subseteq Request
  BY DEF IInv, CommitmentsTypeOK
<1>2. CASE EndAuction
  BY <1>1, <1>2, StayingMovesOn, MovingOnKeeps DEF EndAuction
<1>3. CASE UNCHANGED vars
  BY <1>1, <1>3, StayingMovesOn, MovingOnKeeps DEF vars
<1>4. CASE \E r \in requests : CommitAnswered(r) \/ RevealAnswered(r) \/ Lose(r)
  <2>1. PICK r \in requests : CommitAnswered(r) \/ RevealAnswered(r) \/ Lose(r)
    BY <1>4
  <2>2. requests' = requests \ {r} \/ requests' = Answer(r, "failed")
    BY <2>1 DEF CommitAnswered, RevealAnswered, Lose
  <2>3. UNCHANGED <<status, row, committed>>
    BY <2>1 DEF CommitAnswered, RevealAnswered, Lose
  <2>4. MoveOn(requests, requests')
    BY <1>1, <2>2, AnswersMoveOn
  <2> QED
    BY <2>3, <2>4, MovingOnKeeps
<1> QED
  BY <1>2, <1>3, <1>4

LEMMA StartsHidden == Init => IInv
<1> SUFFICES ASSUME Init
             PROVE  IInv
  OBVIOUS
<1>1. CommitmentsTypeOK
  BY BoundsAssumption DEF Init, CommitmentsTypeOK, NoRow, Closed, Row, Tab
<1>2. HashCommitted /\ MatchCommitted /\ RevealedWasCommitted
  BY DEF Init, HashCommitted, MatchCommitted, RevealedWasCommitted, NoRow
<1>3. OpenIsHidden /\ CheckedIsBlind /\ ChosenBlind
  BY DEF Init, OpenIsHidden, CheckedIsBlind, ChosenBlind, NoRow
<1> QED
  BY <1>1, <1>2, <1>3 DEF IInv

LEMMA StepsHidden == IInv /\ [Next]_vars => IInv'
<1> SUFFICES ASSUME IInv, [Next]_vars
             PROVE  IInv'
  OBVIOUS
<1>1. CommitmentsTypeOK'
  BY StepsTyped DEF IInv
<1>2. CASE \E u \in Bidders : Panel(u)
  BY <1>1, <1>2, PanelKeeps
<1>3. CASE \E r \in requests : Serve(r)
  BY <1>1, <1>3, CommitKeeps, RevealKeeps, OthersKeep DEF Serve
<1>4. CASE EndAuction \/ UNCHANGED vars
  BY <1>1, <1>4, OthersKeep
<1> QED
  BY <1>2, <1>3, <1>4 DEF Next

-----------------------------------------------------------------------------
(* The nonce                                                               *)

\* A commit sent while no other was under way is the only one, and reveals are sent
\* one by one.
AloneIsOnly(u) == \A r, s \in Underway(u, "commit") : r.alone => s = r
OneReveal(u)   == \A r, s \in Underway(u, "reveal") : r = s

\* Answers are on their way to pages that wait for them.
AnswersAwaited(u) ==
  \A r \in requests : r.bidder = u /\ r.step \in {"done", "failed"} => r.awaited

\* The page that waits for a single commit is open, has nothing stored and has sent no
\* reveal; any other commit is a mishap.
CommitWaits(u) ==
  \A r \in Underway(u, "commit") :
    IF r.alone /\ r.awaited
    THEN tab[u].open /\ tab[u].stored = Nothing /\ Underway(u, "reveal") = {}
    ELSE mishap[u]

\* A page that shows the auction ended never shows it open again.
RevealsAreLate(u) ==
  /\ tab[u].open /\ tab[u].status = "ENDED" => status = "ENDED"
  /\ Underway(u, "reveal") # {} =>
       status = "ENDED" /\ (tab[u].open => tab[u].status = "ENDED")

\* What the answers under way say is what the row holds.
DoneIsStored(u) ==
  \A r \in Underway(u, "commit") : r.step = "done" /\ r.alone => row[u].hash = r.pair
DoneIsRevealed(u) ==
  ~mishap[u] => \A r \in Underway(u, "reveal") : r.step = "done" => row[u].isValid = "yes"

\* CanStillReveal, also while requests are under way.
NonceKept(u) ==
  /\ ~mishap[u]
  /\ \A r \in Underway(u, "commit") : r.step # "done"
  /\ row[u].hash # Nothing /\ row[u].isValid = "null"
  => storage[u] = row[u].hash

RequestsInOrder(u) == AloneIsOnly(u) /\ OneReveal(u) /\ AnswersAwaited(u)
PageInOrder(u)     == CommitWaits(u) /\ RevealsAreLate(u)
NonceSound(u) ==
  /\ RequestsInOrder(u) /\ PageInOrder(u)
  /\ DoneIsStored(u) /\ DoneIsRevealed(u) /\ NonceKept(u)

NonceInv == CommitmentsTypeOK /\ \A u \in Bidders : NonceSound(u)

\* A step that leaves a bidder's requests, page and row alone.
LEMMA OtherBidder ==
  ASSUME NEW u \in Bidders, NonceSound(u),
         \A kind \in {"commit", "reveal"} : Underway(u, kind)' = Underway(u, kind),
         \A r \in requests' : r.bidder = u => r \in requests,
         row'[u] = row[u], storage'[u] = storage[u], tab'[u] = tab[u], mishap'[u] = mishap[u],
         status' \in {status, "ENDED"}
  PROVE  NonceSound(u)'
<1>1. RequestsInOrder(u)'
  BY DEF NonceSound, RequestsInOrder, AloneIsOnly, OneReveal, AnswersAwaited
<1>2. PageInOrder(u)'
  BY DEF NonceSound, PageInOrder, CommitWaits, RevealsAreLate
<1>3. DoneIsStored(u)' /\ DoneIsRevealed(u)' /\ NonceKept(u)'
  BY DEF NonceSound, DoneIsStored, DoneIsRevealed, NonceKept
<1> QED BY <1>1, <1>2, <1>3 DEF NonceSound

\* The requests of others, when u does something on its page.
LEMMA OthersOnPage ==
  ASSUME NonceInv, NEW u \in Bidders, Panel(u), NEW v \in Bidders \ {u}
  PROVE  NonceSound(v)'
<1> USE DEF NonceInv, CommitmentsTypeOK
<1>1. \A r \in requests : r.bidder \in Bidders /\ r.kind \in {"commit", "reveal"}
  BY DEF Request
<1>2. ASSUME \A r : r.bidder = v => (r \in requests' <=> r \in requests)
      PROVE  /\ \A kind \in {"commit", "reveal"} : Underway(v, kind)' = Underway(v, kind)
             /\ \A r \in requests' : r.bidder = v => r \in requests
  BY <1>2 DEF Underway
<1>3. \A r : r.bidder = v => (r \in requests' <=> r \in requests)
  <2>1. CASE OpenPage(u) \/ RefreshPage(u) \/ ClickReplace(u)
    BY <2>1 DEF OpenPage, RefreshPage, ClickReplace
  <2>2. CASE ClosePage(u)
    <3>1. \A r \in requests : [r EXCEPT !.awaited = FALSE].bidder = r.bidder
      BY DEF Request
    <3> QED BY <2>2, <3>1 DEF ClosePage
  <2>3. CASE \E amount \in Amounts : ClickCommit(u, amount)
    <3>1. PICK amount \in Amounts : ClickCommit(u, amount)
      BY <2>3
    <3> DEFINE new == [kind |-> "commit", bidder |-> u, pair |-> <<amount, nonces + 1>>,
                       step |-> "sent", awaited |-> TRUE,
                       alone |-> Underway(u, "commit") = {}, match |-> FALSE,
                       blind |-> NothingRevealed]
    <3>2. requests' = (requests \ Underway(u, "commit"))
                      \cup {[r EXCEPT !.alone = FALSE] : r \in Underway(u, "commit")} \cup {new}
      BY <3>1 DEF ClickCommit
    <3>3. \A r \in Underway(u, "commit") : r.bidder = u /\ [r EXCEPT !.alone = FALSE].bidder = u
      BY DEF Underway, Request
    <3>4. new.bidder = u
      OBVIOUS
    <3> HIDE DEF new
    <3> QED BY <3>2, <3>3, <3>4
  <2>4. CASE \E amount \in Amounts : ClickReveal(u, amount)
    BY <2>4 DEF ClickReveal
  <2> QED BY <2>1, <2>2, <2>3, <2>4 DEF Panel
<1>4. /\ row' = row /\ status' = status /\ storage'[v] = storage[v]
      /\ tab'[v] = tab[v] /\ mishap'[v] = mishap[v]
  <2>1. CASE OpenPage(u) \/ RefreshPage(u) \/ ClickReplace(u)
    BY <2>1 DEF OpenPage, RefreshPage, ClickReplace
  <2>2. CASE ClosePage(u)
    BY <2>2 DEF ClosePage
  <2>3. CASE \E amount \in Amounts : ClickCommit(u, amount) \/ ClickReveal(u, amount)
    BY <2>3 DEF ClickCommit, ClickReveal
  <2> QED BY <2>1, <2>2, <2>3 DEF Panel
<1> QED BY <1>2, <1>3, <1>4, OtherBidder

\* What a bidder does on its page.
LEMMA OwnPage ==
  ASSUME NonceInv, NEW u \in Bidders, Panel(u)
  PROVE  NonceSound(u)'
<1> USE DEF NonceInv, CommitmentsTypeOK
<1>1. NonceSound(u) /\ requests \subseteq Request /\ row \in [Bidders -> Row]
  OBVIOUS
<1>2. CASE OpenPage(u)
  <2>1. /\ UNCHANGED <<requests, row, storage, mishap, status>>
        /\ ~tab[u].open /\ tab'[u].status = status
    BY <1>2 DEF OpenPage
  <2>2. \A kind \in {"commit", "reveal"} : Underway(u, kind)' = Underway(u, kind)
    BY <2>1 DEF Underway
  <2>3. RequestsInOrder(u)' /\ DoneIsStored(u)' /\ DoneIsRevealed(u)' /\ NonceKept(u)'
    BY <1>1, <2>1, <2>2 DEF NonceSound, RequestsInOrder, AloneIsOnly, OneReveal, AnswersAwaited,
                            DoneIsStored, DoneIsRevealed, NonceKept
  <2>4. PageInOrder(u)'
    BY <1>1, <2>1, <2>2 DEF NonceSound, PageInOrder, CommitWaits, RevealsAreLate
  <2> QED BY <2>3, <2>4 DEF NonceSound
<1>3. CASE RefreshPage(u)
  <2>1. /\ UNCHANGED <<requests, row, storage, mishap, status>>
        /\ tab[u] \in Tab /\ tab[u].status # status
        /\ tab'[u] = [tab[u] EXCEPT !.status = status]
    BY <1>3 DEF RefreshPage
  <2>2. /\ tab'[u].open = tab[u].open /\ tab'[u].stored = tab[u].stored
        /\ tab'[u].status = status
    BY <2>1 DEF Tab
  <2>3. \A kind \in {"commit", "reveal"} : Underway(u, kind)' = Underway(u, kind)
    BY <2>1 DEF Underway
  <2>4. RequestsInOrder(u)' /\ DoneIsStored(u)' /\ DoneIsRevealed(u)' /\ NonceKept(u)'
    BY <1>1, <2>1, <2>3 DEF NonceSound, RequestsInOrder, AloneIsOnly, OneReveal, AnswersAwaited,
                            DoneIsStored, DoneIsRevealed, NonceKept
  <2>5. PageInOrder(u)'
    BY <1>1, <2>1, <2>2, <2>3 DEF NonceSound, PageInOrder, CommitWaits, RevealsAreLate
  <2> QED BY <2>4, <2>5 DEF NonceSound
<1>4. CASE ClickReplace(u)
  <2>1. /\ UNCHANGED <<requests, row, status>> /\ mishap'[u]
        /\ tab[u] \in Tab /\ tab[u].stored # Nothing
        /\ tab'[u] = [tab[u] EXCEPT !.stored = Nothing]
    BY <1>4 DEF ClickReplace
  <2>2. /\ tab'[u].open = tab[u].open /\ tab'[u].stored = Nothing
        /\ tab'[u].status = tab[u].status
    BY <2>1 DEF Tab
  <2>3. \A kind \in {"commit", "reveal"} : Underway(u, kind)' = Underway(u, kind)
    BY <2>1 DEF Underway
  <2>4. RequestsInOrder(u)' /\ DoneIsStored(u)' /\ DoneIsRevealed(u)' /\ NonceKept(u)'
    BY <1>1, <2>1, <2>3 DEF NonceSound, RequestsInOrder, AloneIsOnly, OneReveal, AnswersAwaited,
                            DoneIsStored, DoneIsRevealed, NonceKept
  <2>5. PageInOrder(u)'
    BY <1>1, <2>1, <2>2, <2>3 DEF NonceSound, PageInOrder, CommitWaits, RevealsAreLate
  <2> QED BY <2>4, <2>5 DEF NonceSound
<1>5. CASE ClosePage(u)
  <2> DEFINE left(r) == [r EXCEPT !.awaited = FALSE]
  <2>1. /\ UNCHANGED <<row, storage, status>> /\ ~tab'[u].open
        /\ mishap'[u] = (mishap[u] \/ Underway(u, "commit") # {})
    BY <1>5 DEF ClosePage, Closed
  <2>2. \A r \in requests : /\ left(r).kind = r.kind /\ left(r).bidder = r.bidder
                            /\ left(r).step = r.step /\ left(r).alone = r.alone
                            /\ ~left(r).awaited
    BY DEF Request
  <2>3. requests' = {IF r.bidder = u THEN left(r) ELSE r :
                       r \in {q \in requests : q.bidder # u \/ q.step \in {"sent", "checked"}}}
    BY <1>5 DEF ClosePage
  <2> HIDE DEF left
  <2>4. \A q \in requests' : q.bidder = u =>
          \E r \in requests : r.bidder = u /\ r.step \in {"sent", "checked"} /\ q = left(r)
    BY <2>2, <2>3
  <2>5. \A kind \in {"commit", "reveal"} : \A q \in Underway(u, kind)' :
          \E r \in Underway(u, kind) : r.step \in {"sent", "checked"} /\ q = left(r)
    BY <2>2, <2>4 DEF Underway
  <2>6. \A kind \in {"commit", "reveal"} : \A r \in Underway(u, kind) : r \in requests
    BY DEF Underway
  <2>7. AloneIsOnly(u)'
    <3> SUFFICES ASSUME NEW q \in Underway(u, "commit")', NEW s \in Underway(u, "commit")',
                        q.alone
                 PROVE  s = q
      BY DEF AloneIsOnly
    <3>1. PICK r \in Underway(u, "commit") : q = left(r)
      BY <2>5
    <3>2. PICK t \in Underway(u, "commit") : s = left(t)
      BY <2>5
    <3> QED BY <1>1, <2>2, <2>6, <3>1, <3>2 DEF NonceSound, RequestsInOrder, AloneIsOnly
  <2>8. OneReveal(u)'
    <3> SUFFICES ASSUME NEW q \in Underway(u, "reveal")', NEW s \in Underway(u, "reveal")'
                 PROVE  q = s
      BY DEF OneReveal
    <3>1. PICK r \in Underway(u, "reveal") : q = left(r)
      BY <2>5
    <3>2. PICK t \in Underway(u, "reveal") : s = left(t)
      BY <2>5
    <3> QED BY <1>1, <3>1, <3>2 DEF NonceSound, RequestsInOrder, OneReveal
  <2>9. AnswersAwaited(u)'
    BY <2>2, <2>4 DEF AnswersAwaited
  <2>10. CommitWaits(u)' /\ RevealsAreLate(u)'
    <3>1. \A q \in Underway(u, "commit")' : ~q.awaited /\ mishap'[u]
      BY <2>1, <2>2, <2>5, <2>6
    <3>2. Underway(u, "reveal")' # {} => status' = "ENDED"
      BY <1>1, <2>1, <2>5 DEF NonceSound, PageInOrder, RevealsAreLate
    <3> QED BY <2>1, <3>1, <3>2 DEF CommitWaits, RevealsAreLate
  <2>11. DoneIsStored(u)' /\ DoneIsRevealed(u)'
    BY <2>2, <2>5, <2>6 DEF DoneIsStored, DoneIsRevealed
  <2>12. NonceKept(u)'
    BY <1>1, <2>1 DEF NonceSound, NonceKept
  <2> QED BY <2>7, <2>8, <2>9, <2>10, <2>11, <2>12 DEF NonceSound, RequestsInOrder, PageInOrder
<1>6. CASE \E amount \in Amounts : ClickCommit(u, amount)
  <2>1. PICK amount \in Amounts : ClickCommit(u, amount)
    BY <1>6
  <2> DEFINE earlier == Underway(u, "commit")
             doubled(r) == [r EXCEPT !.alone = FALSE]
             new == [kind |-> "commit", bidder |-> u, pair |-> <<amount, nonces + 1>>,
                     step |-> "sent", awaited |-> TRUE, alone |-> earlier = {},
                     match |-> FALSE, blind |-> NothingRevealed]
  <2>2. /\ requests' = (requests \ earlier) \cup {doubled(r) : r \in earlier} \cup {new}
        /\ tab[u].open /\ tab[u].status = "ACTIVE" /\ tab[u].stored = Nothing
        /\ mishap'[u] = (mishap[u] \/ earlier # {})
        /\ UNCHANGED <<status, row, storage, tab>>
    BY <2>1 DEF ClickCommit
  <2>3. /\ new.kind = "commit" /\ new.bidder = u /\ new.step = "sent" /\ new.awaited
        /\ new.alone <=> earlier = {}
    OBVIOUS
  <2>4. \A r \in earlier : /\ r \in requests /\ r.bidder = u
                           /\ doubled(r).kind = "commit" /\ doubled(r).bidder = u
                           /\ doubled(r).step = r.step /\ ~doubled(r).alone
                           /\ doubled(r).awaited = r.awaited
    BY DEF Underway, Request
  <2> HIDE DEF new, doubled
  <2>5. Underway(u, "reveal") = {}
    BY <1>1, <2>2 DEF NonceSound, PageInOrder, RevealsAreLate
  <2>6. Underway(u, "reveal")' = {}
    <3>1. ASSUME NEW q \in requests', q.bidder = u, q.kind = "reveal"
          PROVE  FALSE
      <4>1. q \in requests
        BY <2>2, <2>3, <2>4, <3>1
      <4> QED BY <2>5, <3>1, <4>1 DEF Underway
    <3> QED BY <3>1 DEF Underway
  <2>7. \A q \in Underway(u, "commit")' : q = new \/ \E r \in earlier : q = doubled(r)
    BY <2>2 DEF Underway
  <2>8. RequestsInOrder(u)'
    <3>1. AloneIsOnly(u)'
      BY <2>3, <2>4, <2>7 DEF AloneIsOnly
    <3>2. OneReveal(u)'
      BY <2>6 DEF OneReveal
    <3>3. AnswersAwaited(u)'
      <4> SUFFICES ASSUME NEW q \in requests', q.bidder = u, q.step \in {"done", "failed"}
                   PROVE  q.awaited
        BY DEF AnswersAwaited
      <4>1. \A r \in requests : r.bidder = u /\ r.step \in {"done", "failed"} => r.awaited
        BY <1>1 DEF NonceSound, RequestsInOrder, AnswersAwaited
      <4>2. CASE \E r \in earlier : q = doubled(r)
        BY <2>4, <4>1, <4>2
      <4>3. CASE q = new
        BY <2>3, <4>3
      <4>4. CASE q \in requests
        BY <4>1, <4>4
      <4> QED BY <2>2, <4>2, <4>3, <4>4
    <3> QED BY <3>1, <3>2, <3>3 DEF RequestsInOrder
  <2>9. PageInOrder(u)'
    <3>1. CommitWaits(u)'
      BY <2>2, <2>3, <2>4, <2>6, <2>7 DEF CommitWaits
    <3>2. RevealsAreLate(u)'
      BY <1>1, <2>2, <2>6 DEF NonceSound, PageInOrder, RevealsAreLate
    <3> QED BY <3>1, <3>2 DEF PageInOrder
  <2>10. DoneIsStored(u)'
    BY <2>3, <2>4, <2>7 DEF DoneIsStored
  <2>11. DoneIsRevealed(u)' /\ NonceKept(u)'
    BY <1>1, <2>2, <2>6 DEF NonceSound, NonceKept, DoneIsRevealed
  <2> QED BY <2>8, <2>9, <2>10, <2>11 DEF NonceSound
<1>7. CASE \E amount \in Amounts : ClickReveal(u, amount)
  <2>1. PICK amount \in Amounts : ClickReveal(u, amount)
    BY <1>7
  <2> DEFINE new == [kind |-> "reveal", bidder |-> u, pair |-> <<amount, tab[u].stored[2]>>,
                     step |-> "sent", awaited |-> TRUE, alone |-> TRUE, match |-> FALSE,
                     blind |-> TRUE]
  <2>2. /\ requests' = requests \cup {new}
        /\ tab[u].open /\ tab[u].status = "ENDED" /\ tab[u].stored # Nothing
        /\ Underway(u, "reveal") = {}
        /\ UNCHANGED <<status, row, storage, tab, mishap>>
    BY <2>1 DEF ClickReveal
  <2>3. new.kind = "reveal" /\ new.bidder = u /\ new.step = "sent"
    OBVIOUS
  <2> HIDE DEF new
  <2>4. Underway(u, "commit")' = Underway(u, "commit") /\ Underway(u, "reveal")' = {new}
    BY <2>2, <2>3 DEF Underway
  <2>5. RequestsInOrder(u)'
    BY <1>1, <2>2, <2>3, <2>4
       DEF NonceSound, RequestsInOrder, AloneIsOnly, OneReveal, AnswersAwaited
  <2>6. PageInOrder(u)'
    BY <1>1, <2>2, <2>4 DEF NonceSound, PageInOrder, CommitWaits, RevealsAreLate
  <2>7. DoneIsStored(u)' /\ DoneIsRevealed(u)' /\ NonceKept(u)'
    BY <1>1, <2>2, <2>3, <2>4 DEF NonceSound, DoneIsStored, DoneIsRevealed, NonceKept
  <2> QED BY <2>5, <2>6, <2>7 DEF NonceSound
<1> QED BY <1>2, <1>3, <1>4, <1>5, <1>6, <1>7 DEF Panel

-----------------------------------------------------------------------------
(* One request moves on                                                    *)

\* q is a later stage of the request r.
Succeeds(q, r) ==
  /\ q \in Request /\ q.kind = r.kind /\ q.bidder = r.bidder /\ q.pair = r.pair
  /\ q.alone = r.alone /\ q.awaited = r.awaited

\* r becomes q, an answer only if it is awaited, or is gone.
Becomes(r, q) ==
  /\ Succeeds(q, r)
  /\ \/ requests' = requests \ {r}
     \/ /\ requests' = (requests \ {r}) \cup {q}
        /\ q.step \in {"done", "failed"} => q.awaited

LEMMA Later ==
  ASSUME NEW r \in Request, NEW step \in {"sent", "checked", "done", "failed"},
         NEW match \in BOOLEAN
  PROVE  /\ Succeeds([r EXCEPT !.step = step], r) /\ [r EXCEPT !.step = step].step = step
         /\ LET q == [r EXCEPT !.step = step, !.match = match]
            IN  Succeeds(q, r) /\ q.step = step
BY DEF Request, Succeeds

LEMMA AnswerBecomes ==
  ASSUME NEW r \in requests, requests \subseteq Request, NEW step \in {"done", "failed"},
         requests' = Answer(r, step)
  PROVE  Becomes(r, [r EXCEPT !.step = step])
<1> DEFINE q == [r EXCEPT !.step = step]
<1>1. Succeeds(q, r)
  BY Later
<1>2. r.awaited => q.awaited
  BY <1>1 DEF Succeeds
<1>3. r.awaited => requests' = (requests \ {r}) \cup {q}
  BY DEF Answer, Replace
<1>4. ~r.awaited => requests' = requests \ {r}
  BY DEF Answer
<1> HIDE DEF q
<1>5. Becomes(r, q)
  BY <1>1, <1>2, <1>3, <1>4 DEF Becomes
<1> QED BY <1>5 DEF q

\* The requests of its bidder after r became q.
LEMMA OwnRequests ==
  ASSUME NEW r \in requests, NEW q, Becomes(r, q), NEW kind
  PROVE  /\ \A s \in Underway(r.bidder, kind)' :
              (s = q /\ r \in Underway(r.bidder, kind)) \/ s \in Underway(r.bidder, kind) \ {r}
         /\ r.kind # kind => Underway(r.bidder, kind)' = Underway(r.bidder, kind)
BY DEF Becomes, Succeeds, Underway

\* They stay in order, and so does the page if it does not change.
LEMMA StaysInOrder ==
  ASSUME NEW r \in requests, NEW q, Becomes(r, q), RequestsInOrder(r.bidder)
  PROVE  RequestsInOrder(r.bidder)'
<1> DEFINE u == r.bidder
<1>1. AloneIsOnly(u)'
  <2> SUFFICES ASSUME NEW s \in Underway(u, "commit")', NEW t \in Underway(u, "commit")',
                      s.alone
               PROVE  t = s
    BY DEF AloneIsOnly
  <2>1. q.alone = r.alone
    BY DEF Becomes, Succeeds
  <2>2. /\ (s = q /\ r \in Underway(u, "commit")) \/ s \in Underway(u, "commit") \ {r}
        /\ (t = q /\ r \in Underway(u, "commit")) \/ t \in Underway(u, "commit") \ {r}
    BY OwnRequests
  <2> QED BY <2>1, <2>2 DEF RequestsInOrder, AloneIsOnly
<1>2. OneReveal(u)'
  <2> SUFFICES ASSUME NEW s \in Underway(u, "reveal")', NEW t \in Underway(u, "reveal")'
               PROVE  s = t
    BY DEF OneReveal
  <2>1. /\ (s = q /\ r \in Underway(u, "reveal")) \/ s \in Underway(u, "reveal") \ {r}
        /\ (t = q /\ r \in Underway(u, "reveal")) \/ t \in Underway(u, "reveal") \ {r}
    BY OwnRequests
  <2> QED BY <2>1 DEF RequestsInOrder, OneReveal
<1>3. AnswersAwaited(u)'
  BY DEF RequestsInOrder, AnswersAwaited, Becomes
<1> QED BY <1>1, <1>2, <1>3 DEF RequestsInOrder

LEMMA StaysOnPage ==
  ASSUME NEW r \in requests, NEW q, Becomes(r, q), PageInOrder(r.bidder),
         r.kind \in {"commit", "reveal"},
         tab'[r.bidder] = tab[r.bidder], status' = status,
         mishap[r.bidder] => mishap'[r.bidder]
  PROVE  PageInOrder(r.bidder)'
<1> DEFINE u == r.bidder
<1>1. CommitWaits(u)'
  <2> SUFFICES ASSUME NEW s \in Underway(u, "commit")'
               PROVE  IF s.alone /\ s.awaited
                      THEN /\ tab'[u].open /\ tab'[u].stored = Nothing
                           /\ Underway(u, "reveal")' = {}
                      ELSE mishap'[u]
    BY DEF CommitWaits
  <2>1. PICK t \in Underway(u, "commit") : t.alone = s.alone /\ t.awaited = s.awaited
    <3>1. q.alone = r.alone /\ q.awaited = r.awaited
      BY DEF Becomes, Succeeds
    <3>2. (s = q /\ r \in Underway(u, "commit")) \/ s \in Underway(u, "commit") \ {r}
      BY OwnRequests
    <3> QED BY <3>1, <3>2
  <2>2. Underway(u, "reveal") = {} => Underway(u, "reveal")' = {}
    BY OwnRequests
  <2> QED BY <2>1, <2>2 DEF PageInOrder, CommitWaits
<1>2. RevealsAreLate(u)'
  <2>1. Underway(u, "reveal") = {} => Underway(u, "reveal")' = {}
    BY OwnRequests
  <2> QED BY <2>1 DEF PageInOrder, RevealsAreLate
<1> QED BY <1>1, <1>2 DEF PageInOrder

\* A step that stores nothing, on the server or in the browser; a lost answer to a commit
\* is a mishap.
LEMMA NothingStored ==
  ASSUME NEW r \in requests, NEW q, Becomes(r, q), NonceSound(r.bidder),
         r.kind \in {"commit", "reveal"}, q.step # "done",
         UNCHANGED <<row, storage, tab, status>>,
         mishap[r.bidder] => mishap'[r.bidder],
         r.kind = "commit" /\ r.step = "done" => mishap'[r.bidder]
  PROVE  NonceSound(r.bidder)'
<1> DEFINE u == r.bidder
<1>1. RequestsInOrder(u)' /\ PageInOrder(u)'
  BY StaysInOrder, StaysOnPage DEF NonceSound
<1>2. \A kind \in {"commit", "reveal"} : \A s \in Underway(u, kind)' :
        s.step = "done" => s \in Underway(u, kind)
  BY OwnRequests
<1>3. DoneIsStored(u)' /\ DoneIsRevealed(u)'
  BY <1>2 DEF NonceSound, DoneIsStored, DoneIsRevealed
<1>4. NonceKept(u)'
  <2>1. \A s \in Underway(u, "commit") : s # r => s \in Underway(u, "commit")'
    BY DEF Underway, Becomes
  <2>2. r \in Underway(u, "commit") => r.kind = "commit"
    BY DEF Underway
  <2> QED BY <2>1, <2>2 DEF NonceSound, NonceKept
<1> QED BY <1>1, <1>3, <1>4 DEF NonceSound

-----------------------------------------------------------------------------
(* The steps of a request                                                  *)

LEMMA ChecksBecome ==
  ASSUME CommitmentsTypeOK, NEW r \in requests, CheckCommit(r) \/ CheckReveal(r)
  PROVE  \E q : Becomes(r, q) /\ q.step # "done"
<1>1. r \in Request /\ requests \subseteq Request
  BY DEF CommitmentsTypeOK
<1>2. CASE requests' = Answer(r, "failed")
  BY <1>1, <1>2, AnswerBecomes, Later
<1>3. CASE requests' = Replace(r, "checked")
  <2> DEFINE q == [r EXCEPT !.step = "checked"]
  <2>1. Succeeds(q, r) /\ q.step = "checked"
    BY <1>1, Later
  <2>2. requests' = (requests \ {r}) \cup {q}
    BY <1>3 DEF Replace
  <2> HIDE DEF q
  <2> QED BY <2>1, <2>2 DEF Becomes
<1>4. ASSUME NEW match \in BOOLEAN,
             requests' = (requests \ {r}) \cup {[r EXCEPT !.step = "checked", !.match = match]}
      PROVE  \E q : Becomes(r, q) /\ q.step # "done"
  <2> DEFINE q == [r EXCEPT !.step = "checked", !.match = match]
  <2>1. Succeeds(q, r) /\ q.step = "checked"
    BY <1>1, Later
  <2>2. requests' = (requests \ {r}) \cup {q}
    BY <1>4
  <2> HIDE DEF q
  <2> QED BY <2>1, <2>2 DEF Becomes
<1> QED BY <1>2, <1>3, <1>4 DEF CheckCommit, CheckReveal, Matches

LEMMA ChecksKeepNonce ==
  ASSUME NonceInv, NEW r \in requests, CheckCommit(r) \/ CheckReveal(r)
  PROVE  NonceSound(r.bidder)'
<1> USE DEF NonceInv, CommitmentsTypeOK
<1>1. r \in Request /\ r.bidder \in Bidders /\ r.kind \in {"commit", "reveal"}
  BY DEF Request
<1>2. UNCHANGED <<row, storage, tab, status, mishap>> /\ r.step = "sent"
  BY DEF CheckCommit, CheckReveal
<1> QED BY <1>1, <1>2, ChecksBecome, NothingStored

LEMMA LossKeepsNonce ==
  ASSUME NonceInv, NEW r \in requests, Lose(r)
  PROVE  NonceSound(r.bidder)'
<1> USE DEF NonceInv, CommitmentsTypeOK
<1>1. r \in Request /\ r.bidder \in Bidders /\ r.kind \in {"commit", "reveal"}
  BY DEF Request
<1>2. /\ UNCHANGED <<row, storage, tab, status>>
      /\ mishap'[r.bidder] = (mishap[r.bidder] \/ (r.kind = "commit" /\ r.step = "done"))
  BY <1>1 DEF Lose
<1>3. \E q : Becomes(r, q) /\ q.step # "done"
  BY <1>1, AnswerBecomes, Later DEF Lose
<1> QED BY <1>1, <1>2, <1>3, NothingStored

\* The row is written before the answer is sent.
LEMMA StoresKeepNonce ==
  ASSUME NonceInv, NEW r \in requests, StoreCommit(r) \/ StoreReveal(r)
  PROVE  NonceSound(r.bidder)'
<1> USE DEF NonceInv, CommitmentsTypeOK
<1> DEFINE u == r.bidder
<1>1. /\ r \in Request /\ u \in Bidders /\ NonceSound(u)
      /\ row \in [Bidders -> Row] /\ row[u] \in Row
  BY DEF Request
<1>2. CASE StoreCommit(r)
  <2> DEFINE q == [r EXCEPT !.step = "done"]
  <2>1. /\ UNCHANGED <<status, storage, tab, mishap>> /\ r.kind = "commit"
        /\ row'[u].hash = r.pair /\ r \in Underway(u, "commit")
    BY <1>1, <1>2 DEF StoreCommit, NoRow, Underway
  <2>2. requests' = Answer(r, "done")
    BY <1>2 DEF StoreCommit
  <2>3. Succeeds(q, r) /\ q.step = "done" /\ Becomes(r, q)
    BY <1>1, <2>2, Later, AnswerBecomes
  <2>4. ~mishap[u] => /\ q \in requests' /\ Underway(u, "reveal") = {}
                      /\ q.kind = "commit" /\ q.bidder = u
    BY <1>1, <2>1, <2>2, <2>3
       DEF NonceSound, PageInOrder, CommitWaits, Answer, Replace, Succeeds
  <2> HIDE DEF q
  <2>5. RequestsInOrder(u)' /\ PageInOrder(u)'
    BY <1>1, <2>1, <2>3, StaysInOrder, StaysOnPage DEF NonceSound
  <2>6. DoneIsStored(u)'
    <3>1. \A s \in Underway(u, "commit") : s.alone => s = r
      BY <1>1, <2>1 DEF NonceSound, RequestsInOrder, AloneIsOnly
    <3>2. \A s \in Underway(u, "commit")' : s = q \/ s \in Underway(u, "commit") \ {r}
      BY <2>3, OwnRequests
    <3> QED BY <2>1, <2>3, <3>1, <3>2 DEF DoneIsStored, Succeeds
  <2>7. DoneIsRevealed(u)'
    BY <2>1, <2>3, <2>4, OwnRequests DEF DoneIsRevealed
  <2>8. NonceKept(u)'
    BY <2>1, <2>3, <2>4 DEF NonceKept, Underway
  <2> QED BY <2>5, <2>6, <2>7, <2>8 DEF NonceSound
<1>3. CASE StoreReveal(r)
  <2>1. PICK step \in {"done", "failed"} :
          /\ requests' = Answer(r, step)
          /\ step = "done" => r.match
    BY <1>3 DEF StoreReveal
  <2> DEFINE q == [r EXCEPT !.step = step]
  <2>2. /\ UNCHANGED <<status, storage, tab, mishap>> /\ r.kind = "reveal"
        /\ r \in Underway(u, "reveal")
    BY <1>3 DEF StoreReveal, Underway
  <2>3. row' = [row EXCEPT ![u] = [row[u] EXCEPT
                  !.isValid = IF r.match THEN "yes" ELSE "no",
                  !.amount  = IF r.match THEN r.pair[1] ELSE 0]]
    BY <1>1, <1>3 DEF StoreReveal
  <2>4. /\ row'[u].hash = row[u].hash
        /\ row'[u].isValid = IF r.match THEN "yes" ELSE "no"
    BY <1>1, <2>3 DEF Row
  <2>5. Succeeds(q, r) /\ q.step = step /\ Becomes(r, q)
    <3>1. Succeeds(q, r) /\ q.step = step
      BY <1>1 DEF Request, Succeeds
    <3>2. Becomes(r, q)
      BY <1>1, <2>1, AnswerBecomes
    <3> QED BY <3>1, <3>2
  <2> HIDE DEF q
  <2>6. RequestsInOrder(u)' /\ PageInOrder(u)'
    BY <1>1, <2>2, <2>5, StaysInOrder, StaysOnPage DEF NonceSound
  <2>7. DoneIsStored(u)'
    BY <1>1, <2>2, <2>4, <2>5, OwnRequests DEF NonceSound, DoneIsStored
  <2>8. DoneIsRevealed(u)'
    <3>1. \A s \in Underway(u, "reveal") : s = r
      BY <1>1, <2>2 DEF NonceSound, RequestsInOrder, OneReveal
    <3>2. \A s \in Underway(u, "reveal")' : s = q
      BY <2>5, <3>1, OwnRequests
    <3> QED BY <2>1, <2>4, <2>5, <3>2 DEF DoneIsRevealed
  <2>9. NonceKept(u)'
    BY <2>4 DEF NonceKept
  <2> QED BY <2>6, <2>7, <2>8, <2>9 DEF NonceSound
<1> QED BY <1>2, <1>3

\* The nonce is stored when the page hears that its commitment is, and forgotten when it
\* hears of the reveal.
LEMMA AnswersKeepNonce ==
  ASSUME NonceInv, NEW r \in requests, CommitAnswered(r) \/ RevealAnswered(r)
  PROVE  NonceSound(r.bidder)'
<1> USE DEF NonceInv, CommitmentsTypeOK
<1> DEFINE u == r.bidder
<1>1. /\ r \in Request /\ u \in Bidders /\ NonceSound(u) /\ r.kind \in {"commit", "reveal"}
      /\ Succeeds(r, r) /\ tab[u] \in Tab
  BY DEF Request, Succeeds
<1>2. requests' = requests \ {r} /\ Becomes(r, r) /\ UNCHANGED <<row, status>>
  BY <1>1 DEF CommitAnswered, RevealAnswered, Becomes
<1>3. RequestsInOrder(u)'
  BY <1>1, <1>2, StaysInOrder DEF NonceSound
<1>4. \A kind \in {"commit", "reveal"} : Underway(u, kind)' = Underway(u, kind) \ {r}
  BY <1>2 DEF Underway
<1>5. CASE r.step # "done"
  BY <1>1, <1>2, <1>5, NothingStored DEF CommitAnswered, RevealAnswered, ClearsStored
<1>6. CASE CommitAnswered(r) /\ r.step = "done"
  <2>1. /\ storage'[u] = r.pair /\ mishap'[u] = (mishap[u] /\ ~r.alone)
        /\ tab'[u] = [tab[u] EXCEPT !.stored = r.pair]
        /\ r \in Underway(u, "commit") /\ r \notin Underway(u, "reveal")
    BY <1>1, <1>6 DEF CommitAnswered, Underway
  <2>2. tab'[u].open = tab[u].open /\ tab'[u].status = tab[u].status
    BY <1>1, <2>1 DEF Tab
  <2>3. r.awaited /\ (r.alone => row[u].hash = r.pair)
    BY <1>1, <1>6, <2>1 DEF NonceSound, RequestsInOrder, AnswersAwaited, DoneIsStored
  <2>4. r.alone => Underway(u, "commit")' = {} /\ Underway(u, "reveal")' = {}
    BY <1>1, <1>4, <2>1, <2>3
       DEF NonceSound, RequestsInOrder, AloneIsOnly, PageInOrder, CommitWaits
  <2>5. ~r.alone => /\ mishap[u] /\ mishap'[u]
                    /\ \A s \in Underway(u, "commit") : ~s.alone
    BY <1>1, <2>1 DEF NonceSound, RequestsInOrder, AloneIsOnly, PageInOrder, CommitWaits
  <2>6. PageInOrder(u)'
    <3>1. CommitWaits(u)'
      BY <1>4, <2>4, <2>5 DEF CommitWaits
    <3>2. RevealsAreLate(u)'
      BY <1>1, <1>2, <1>4, <2>2 DEF NonceSound, PageInOrder, RevealsAreLate
    <3> QED BY <3>1, <3>2 DEF PageInOrder
  <2>7. DoneIsStored(u)'
    BY <1>1, <1>2, <1>4 DEF NonceSound, DoneIsStored
  <2>8. DoneIsRevealed(u)' /\ NonceKept(u)'
    BY <1>2, <2>1, <2>3, <2>4, <2>5 DEF DoneIsRevealed, NonceKept
  <2> QED BY <1>3, <2>6, <2>7, <2>8 DEF NonceSound
<1>7. CASE RevealAnswered(r) /\ r.step = "done"
  <2>1. /\ mishap' = mishap
        /\ tab'[u] = [tab[u] EXCEPT !.stored = Nothing]
        /\ r \in Underway(u, "reveal") /\ r \notin Underway(u, "commit")
    BY <1>1, <1>7 DEF RevealAnswered, ClearsStored, Underway
  <2>2. /\ tab'[u].open = tab[u].open /\ tab'[u].status = tab[u].status
        /\ tab'[u].stored = Nothing
    BY <1>1, <2>1 DEF Tab
  <2>3. Underway(u, "commit")' = Underway(u, "commit") /\ Underway(u, "reveal")' = {}
    <3>1. \A s \in Underway(u, "reveal") : s = r
      BY <1>1, <2>1 DEF NonceSound, RequestsInOrder, OneReveal
    <3>2. /\ Underway(u, "commit")' = Underway(u, "commit") \ {r}
          /\ Underway(u, "reveal")' = Underway(u, "reveal") \ {r}
      BY <1>4
    <3>3. Underway(u, "commit") \ {r} = Underway(u, "commit")
      BY <2>1
    <3> QED BY <3>1, <3>2, <3>3
  <2>4. PageInOrder(u)'
    BY <1>1, <1>2, <2>1, <2>2, <2>3 DEF NonceSound, PageInOrder, CommitWaits, RevealsAreLate
  <2>5. DoneIsStored(u)' /\ DoneIsRevealed(u)'
    BY <1>1, <1>2, <2>3 DEF NonceSound, DoneIsStored, DoneIsRevealed
  <2>6. NonceKept(u)'
    BY <1>1, <1>2, <1>7, <2>1 DEF NonceSound, DoneIsRevealed, NonceKept
  <2> QED BY <1>3, <2>4, <2>5, <2>6 DEF NonceSound
<1> QED BY <1>5, <1>6, <1>7

\* A request of one bidder is no concern of another's.
LEMMA OthersServed ==
  ASSUME NonceInv, NEW r \in requests, Serve(r), NEW v \in Bidders \ {r.bidder}
  PROVE  NonceSound(v)'
<1> USE DEF NonceInv, CommitmentsTypeOK
<1>1. r \in Request /\ r.bidder \in Bidders
  BY DEF Request
<1>2. \E q : Becomes(r, q)
  <2>1. CASE CheckCommit(r) \/ CheckReveal(r)
    BY <2>1, ChecksBecome
  <2>2. CASE StoreCommit(r) \/ StoreReveal(r) \/ Lose(r)
    <3>1. \E step \in {"done", "failed"} : requests' = Answer(r, step)
      BY <2>2 DEF StoreCommit, StoreReveal, Lose
    <3> QED BY <3>1, AnswerBecomes
  <2>3. CASE CommitAnswered(r) \/ RevealAnswered(r)
    BY <1>1, <2>3 DEF CommitAnswered, RevealAnswered, Becomes, Succeeds
  <2> QED BY <2>1, <2>2, <2>3 DEF Serve
<1>3. /\ \A kind \in {"commit", "reveal"} : Underway(v, kind)' = Underway(v, kind)
      /\ \A s \in requests' : s.bidder = v => s \in requests
  BY <1>2 DEF Underway, Becomes, Succeeds
<1>4. /\ row'[v] = row[v] /\ storage'[v] = storage[v] /\ tab'[v] = tab[v]
      /\ mishap'[v] = mishap[v] /\ status' = status
  <2>1. CASE CheckCommit(r) \/ StoreCommit(r)
    BY <2>1 DEF CheckCommit, StoreCommit
  <2>2. CASE CheckReveal(r) \/ StoreReveal(r)
    BY <2>2 DEF CheckReveal, StoreReveal
  <2>3. CASE CommitAnswered(r)
    BY <2>3 DEF CommitAnswered
  <2>4. CASE RevealAnswered(r)
    BY <2>4 DEF RevealAnswered
  <2>5. CASE Lose(r)
    BY <2>5 DEF Lose
  <2> QED BY <2>1, <2>2, <2>3, <2>4, <2>5 DEF Serve
<1> QED BY <1>3, <1>4, OtherBidder

LEMMA NonceInit == Init => NonceInv
<1> SUFFICES ASSUME Init PROVE NonceInv
  OBVIOUS
<1>1. CommitmentsTypeOK
  BY StartsHidden DEF IInv
<1>2. \A u \in Bidders : NonceSound(u)
  BY DEF Init, NoRow, Closed, Underway, NonceSound, RequestsInOrder, AloneIsOnly, OneReveal,
         AnswersAwaited, PageInOrder, CommitWaits, RevealsAreLate, DoneIsStored, DoneIsRevealed,
         NonceKept
<1> QED BY <1>1, <1>2 DEF NonceInv

LEMMA NonceNext == NonceInv /\ [Next]_vars => NonceInv'
<1> SUFFICES ASSUME NonceInv, [Next]_vars PROVE NonceInv'
  OBVIOUS
<1>1. CommitmentsTypeOK'
  BY StepsTyped DEF NonceInv
<1>2. CASE \E u \in Bidders : Panel(u)
  BY <1>1, <1>2, OwnPage, OthersOnPage DEF NonceInv
<1>3. CASE \E r \in requests : Serve(r)
  BY <1>1, <1>3, ChecksKeepNonce, LossKeepsNonce, StoresKeepNonce, AnswersKeepNonce,
     OthersServed DEF NonceInv, Serve
<1>4. CASE EndAuction \/ UNCHANGED vars
  <2>1. /\ UNCHANGED <<requests, row, storage, tab, mishap>> /\ status' \in {status, "ENDED"}
    BY <1>4 DEF EndAuction, vars
  <2>2. \A u \in Bidders : \A kind \in {"commit", "reveal"} :
          Underway(u, kind)' = Underway(u, kind)
    BY <2>1 DEF Underway
  <2> QED BY <1>1, <2>1, <2>2, OtherBidder DEF NonceInv
<1> QED BY <1>2, <1>3, <1>4 DEF Next

-----------------------------------------------------------------------------
\* The rows, the stored nonces and the requests are what the schema and the panel allow.
THEOREM CommitmentsTyped == Spec => []CommitmentsTypeOK
<1>1. Init => CommitmentsTypeOK
  BY StartsHidden DEF IInv
<1>2. CommitmentsTypeOK /\ [Next]_vars => CommitmentsTypeOK'
  BY StepsTyped
<1> QED
  BY <1>1, <1>2, PTL DEF Spec

\* Hiding: whatever the number of bidders and requests, a commitment that counts was
\* sent before anything was revealed (commitment.service.ts:55-84).
THEOREM CommitmentsHide == Spec => []ChosenBlind
<1>1. IInv => ChosenBlind
  BY DEF IInv
<1> QED
  BY <1>1, StartsHidden, StepsHidden, PTL DEF Spec

\* Binding: an amount revealed was committed to, in any interleaving of commits and
\* reveals (commitment.service.ts:86-134).
THEOREM CommitmentsBind == Spec => []RevealedWasCommitted
<1>1. IInv => RevealedWasCommitted
  BY DEF IInv
<1> QED
  BY <1>1, StartsHidden, StepsHidden, PTL DEF Spec

\* Whatever is lost, doubled or raced, a bidder whose last commit was neither doubled nor
\* cut short holds the nonce of the commitment on the server (CommitmentPanel.tsx:143-171).
THEOREM NonceNotLost == Spec => []CanStillReveal
<1>1. NonceInv => CanStillReveal
  BY DEF NonceInv, NonceSound, NonceKept, CanStillReveal
<1> QED
  BY <1>1, NonceInit, NonceNext, PTL DEF Spec
=============================================================================
