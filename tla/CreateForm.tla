----------------------------- MODULE CreateForm -----------------------------
(***************************************************************************)
(* The listing form of a seller and the handler that stores what it sends: *)
(* what the form accepts, what it sends of it, what the schema and the     *)
(* service accept, the jobs that are queued after the auction is stored,   *)
(* and which errors the form shows.  Prices, lengths and times are numbers,*)
(* a picture is 1 if it is a link and 0 if it is anything else.            *)
(***************************************************************************)
EXTENDS Integers, Sequences, FiniteSets

CONSTANTS
  Entries,      \* what may be typed: pairs of a field and a value
  Skew,         \* how far the clock of the seller is ahead of the server's
  MaxEdits,     \* bounds the entries and the uploads
  MaxSubmits,   \* bounds the requests
  MaxFaults,    \* bounds lost answers, failing queues and failing uploads
  MaxTime       \* bounds the time

Blank == -1     \* an empty field; undefined in a body
NaN   == -2     \* null, which JSON makes of NaN

VARIABLES
  now,          \* the clock of the server
  form, errors, \* the fields in error
  notice,       \* globalError
  loading,
  upload,       \* the upload of a picture: "none", or whether it saw an error of the field
  requests,     \* what was sent, and how far it is
  rows,         \* the auctions stored, with the jobs queued for them
  page,         \* "form", "pushed" once router.push was called, "left"
  edits, faults

vars == <<now, form, errors, notice, loading, upload, requests, rows, page, edits, faults>>

Client == now + Skew

-----------------------------------------------------------------------------
(* The form                                                                *)

Empty ==
  [title |-> 0, description |-> 0, imageUrl |-> Blank, type |-> "ENGLISH",
   startingPrice |-> Blank, reservePrice |-> Blank, buyNowPrice |-> Blank,
   minIncrement |-> 100, antiSnipingMins |-> 5, startTime |-> Blank, endTime |-> Blank,
   dutchPriceStep |-> Blank, dutchInterval |-> Blank]

Field == DOMAIN Empty

OnlyDutch  == {"dutchPriceStep", "dutchInterval"}
NeverDutch == {"minIncrement", "buyNowPrice", "antiSnipingMins", "endTime"}

\* The fields of a type, and those that can show an error: the window has no place for one.
Rendered(type) == Field \ (IF type = "DUTCH" THEN NeverDutch ELSE OnlyDutch)
Highlightable(type) == Rendered(type) \ {"type", "antiSnipingMins"}

\* set: another type empties the fields of the old one.
Changed(f, k, v) ==
  LET g == [f EXCEPT ![k] = v]
  IN  IF k # "type" THEN g
      ELSE IF v = "DUTCH"
           THEN [x \in Field |-> IF x \in NeverDutch THEN Blank ELSE g[x]]
           ELSE [g EXCEPT !.dutchPriceStep = Blank, !.dutchInterval = Blank,
                          !.minIncrement = IF @ = Blank THEN 100 ELSE @,
                          !.antiSnipingMins = IF @ = Blank THEN 5 ELSE @]

Unacceptable(f, k) ==
  CASE k = "title"          -> f[k] \notin 3 .. 200
    [] k = "description"    -> f[k] \in 1 .. 9
    [] k = "imageUrl"       -> f[k] = 0
    [] k = "startingPrice"  -> f[k] <= 0
    [] k = "reservePrice"   -> f[k] < 0 /\ f[k] # Blank
    [] k = "minIncrement"   -> f.type # "DUTCH" /\ f[k] <= 0
    [] k = "buyNowPrice"    -> f.type # "DUTCH" /\ f[k] <= 0 /\ f[k] # Blank
    [] k = "endTime"        -> f.type # "DUTCH" /\ (f[k] <= Client \/ f.startTime >= f[k])
    [] k = "dutchPriceStep" -> f.type = "DUTCH" /\ f[k] <= 0
    [] k = "dutchInterval"  -> f.type = "DUTCH" /\ f[k] < 60
    [] OTHER                -> FALSE

validate(f) == {k \in Field : Unacceptable(f, k)}

CeilDiv(a, b) == -((-a) \div b)
Positive(v) == IF v > 0 THEN v ELSE 0

\* DutchDurationHint: how long the form says that the auction will last, 0 if it says nothing.
Hint(f) ==
  IF f.type = "DUTCH" /\ f.startingPrice # Blank /\ f.dutchPriceStep > 0 /\ f.dutchInterval > 0
  THEN CeilDiv(f.startingPrice - Positive(f.reservePrice), f.dutchPriceStep) * f.dutchInterval
  ELSE 0

\* The body of the request: undefined members are left out of it.
Body(f) ==
  [x \in Field |->
     CASE x = "description"      -> IF f[x] = 0 THEN Blank ELSE f[x]
       [] x = "reservePrice"     -> IF f[x] = 0 THEN Blank ELSE f[x]
       [] x = "startTime"        -> IF f[x] = Blank THEN Client ELSE f[x]
       [] x = "antiSnipingMins"  -> IF f[x] = Blank /\ f.type # "DUTCH" THEN NaN ELSE f[x]
       [] OTHER                  -> IF x \in Rendered(f.type) THEN f[x] ELSE Blank]

Edit(k, v) ==
  /\ page # "left"
  /\ edits < MaxEdits
  /\ edits' = edits + 1
  /\ form[k] # v /\ k \in Rendered(form.type)
  /\ form' = Changed(form, k, v)
  /\ errors' = errors \ {k}
  /\ UNCHANGED <<now, notice, loading, upload, requests, rows, page, faults>>

\* The upload keeps the callback of the render in which the file was chosen.
ChooseFile ==
  /\ page # "left" /\ upload = "none"
  /\ edits < MaxEdits
  /\ edits' = edits + 1
  /\ upload' = IF "imageUrl" \in errors THEN "clears" ELSE "keeps"
  /\ UNCHANGED <<now, form, errors, notice, loading, requests, rows, page, faults>>

Uploaded ==
  /\ upload # "none"
  /\ upload' = "none"
  /\ form' = [form EXCEPT !.imageUrl = 1]
  /\ errors' = IF upload = "clears" THEN errors \ {"imageUrl"} ELSE errors
  /\ UNCHANGED <<now, notice, loading, requests, rows, page, edits, faults>>

UploadFailed ==
  /\ upload # "none" /\ faults < MaxFaults
  /\ faults' = faults + 1
  /\ upload' = "none"
  /\ UNCHANGED <<now, form, errors, notice, loading, requests, rows, page, edits>>

\* The button is disabled while a request is awaited, and only then.
onSubmit ==
  /\ page # "left" /\ ~loading
  /\ Len(requests) < MaxSubmits
  /\ notice' = "none"
  /\ errors' = validate(form)
  /\ IF validate(form) # {}
     THEN UNCHANGED <<loading, requests>>
     ELSE /\ loading' = TRUE
          /\ requests' = Append(requests,
               [body |-> Body(form), blank |-> form.startTime = Blank, hint |-> Hint(form),
                at |-> "sent", row |-> 0, awaited |-> TRUE, refused |-> {}])
  /\ UNCHANGED <<now, form, upload, rows, page, edits, faults>>

-----------------------------------------------------------------------------
(* The handler                                                             *)

\* createAuctionSchema of the controller.
Invalid(b) ==
  {k \in Field :
     CASE k = "title"           -> b[k] \notin 3 .. 200
       [] k = "description"     -> b[k] < 10
       [] k = "imageUrl"        -> b[k] = 0
       [] k = "startingPrice"   -> b[k] <= 0
       [] k \in {"reservePrice", "buyNowPrice", "dutchPriceStep", "dutchInterval",
                 "minIncrement"} -> b[k] # Blank /\ b[k] <= 0
       [] k = "antiSnipingMins" -> b[k] # Blank /\ b[k] \notin 0 .. 30
       [] OTHER                 -> FALSE}

Ends(b) ==
  IF b.endTime = Blank
  THEN b.startTime + CeilDiv(b.startingPrice - Positive(b.reservePrice), b.dutchPriceStep) * b.dutchInterval
  ELSE b.endTime

Storable(b) == b.startTime < Ends(b)

\* The auction is stored, and its jobs are queued one after the other.
Stored(b, blank, hint) ==
  [type |-> b.type, start |-> b.startTime, end |-> Ends(b), blank |-> blank, hint |-> hint,
   status |-> IF b.startTime <= now THEN "ACTIVE" ELSE "PENDING", jobs |-> {}]

Serve(i) ==
  /\ requests[i].at = "sent"
  /\ LET q == requests[i]
     IN  IF Invalid(q.body) = {} /\ Storable(q.body)
         THEN /\ rows' = Append(rows, Stored(q.body, q.blank, q.hint))
              /\ requests' = [requests EXCEPT ![i].at = "stored", ![i].row = Len(rows) + 1]
         ELSE /\ requests' = [requests EXCEPT ![i].at = "refused", ![i].refused = Invalid(q.body)]
              /\ UNCHANGED rows
  /\ UNCHANGED <<now, form, errors, notice, loading, upload, page, edits, faults>>

\* Delays are measured from the moment after the auction was stored.
Due(r) ==
  (IF r.start > now THEN {"start"} ELSE IF r.type = "DUTCH" THEN {"drop"} ELSE {})
    \cup (IF r.end > now THEN {"end"} ELSE {})

Queue(i) ==
  /\ requests[i].at = "stored"
  /\ LET r == rows[requests[i].row]
     IN  rows' = [rows EXCEPT ![requests[i].row].jobs = Due(r)]
  /\ requests' = [requests EXCEPT ![i].at = "created"]
  /\ UNCHANGED <<now, form, errors, notice, loading, upload, page, edits, faults>>

\* Redis takes none of the jobs, or only the first one.
QueueFails(i, taken) ==
  /\ requests[i].at = "stored"
  /\ Due(rows[requests[i].row]) # {}
  /\ taken \in SUBSET (Due(rows[requests[i].row]) \ {"end"})
  /\ faults < MaxFaults
  /\ faults' = faults + 1
  /\ rows' = [rows EXCEPT ![requests[i].row].jobs = taken]
  /\ requests' = [requests EXCEPT ![i].at = "failed"]
  /\ UNCHANGED <<now, form, errors, notice, loading, upload, page, edits>>

-----------------------------------------------------------------------------
(* The answer                                                              *)

Answered(i) ==
  /\ requests[i].awaited
  /\ requests' = [requests EXCEPT ![i].awaited = FALSE]
  /\ loading' = FALSE
  /\ UNCHANGED <<now, form, upload, rows, edits>>

Created(i) ==
  /\ requests[i].at = "created"
  /\ Answered(i)
  /\ page' = "pushed"
  /\ UNCHANGED <<errors, notice, faults>>

Refused(i) ==
  /\ requests[i].at \in {"refused", "failed"}
  /\ Answered(i)
  /\ errors' = IF requests[i].refused # {} THEN requests[i].refused ELSE errors
  /\ notice' = IF requests[i].refused # {} THEN "check the fields" ELSE "message"
  /\ UNCHANGED <<page, faults>>

\* The connection fails: the request goes on without its form.
Lose(i) ==
  /\ faults < MaxFaults
  /\ faults' = faults + 1
  /\ Answered(i)
  /\ notice' = "message"
  /\ UNCHANGED <<errors, page>>

\* The router has loaded the page of the auction.
Leave ==
  /\ page = "pushed"
  /\ page' = "left"
  /\ UNCHANGED <<now, form, errors, notice, loading, upload, requests, rows, edits, faults>>

Pass ==
  /\ now < MaxTime
  /\ now' = now + 1
  /\ UNCHANGED <<form, errors, notice, loading, upload, requests, rows, page, edits, faults>>

Init ==
  /\ now = 1
  /\ form = Empty
  /\ errors = {}
  /\ notice = "none"
  /\ loading = FALSE
  /\ upload = "none"
  /\ requests = <<>>
  /\ rows = <<>>
  /\ page = "form"
  /\ edits = 0
  /\ faults = 0

Next ==
  \/ \E e \in Entries : Edit(e[1], e[2])
  \/ ChooseFile \/ Uploaded \/ UploadFailed
  \/ onSubmit
  \/ \E i \in DOMAIN requests :
       Serve(i) \/ Queue(i) \/ Created(i) \/ Refused(i) \/ Lose(i)
         \/ \E taken \in SUBSET {"start", "drop"} : QueueFails(i, taken)
  \/ Leave \/ Pass

Spec == Init /\ [][Next]_vars

-----------------------------------------------------------------------------
(* Properties                                                              *)

\* "End time is auto-computed": a Dutch auction lasts as long as the form said when it was
\* submitted, whatever was typed before, and however the reserve was left out.
LastsAsHinted == \A i \in DOMAIN rows : rows[i].type = "DUTCH" => rows[i].end - rows[i].start = rows[i].hint

-----------------------------------------------------------------------------
(* What documents and comments say and the code does not do                *)

\* "Description must be at least 10 characters (or leave it empty)."
EmptyIsFine == "description" \in errors => form.description # 0

\* "Leave blank to start immediately."
BlankStartsNow == \A i \in DOMAIN rows : rows[i].blank => rows[i].status = "ACTIVE"

\* "Please fix the highlighted fields below": one is.
SomethingHighlighted == errors # {} => errors \cap Highlightable(form.type) # {}

\* "BullMQ job enqueued: end-auction with delay = endTime - now" when an auction was created.
EndIsQueued ==
  \A i \in DOMAIN requests : requests[i].at = "created" => "end" \in rows[requests[i].row].jobs

\* "At startTime, the start-auction job fires": an auction created PENDING has one.
PendingWillStart ==
  \A i \in DOMAIN requests :
    requests[i].at = "created" /\ rows[requests[i].row].status = "PENDING"
      => "start" \in rows[requests[i].row].jobs
=============================================================================
