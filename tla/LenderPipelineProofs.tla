------------------------- MODULE LenderPipelineProofs --------------------------
(***************************************************************************)
(* The lender's pipeline for any number of concurrent requests of the      *)
(* customer, offers, polls, failures, crashes and replays: no push of the  *)
(* profile is dropped, and a decision that is due is requested.  For a     *)
(* customer who makes one request at a time and submits once, every        *)
(* verdict is honoured for the request it was given on.                    *)
(***************************************************************************)
EXTENDS LenderPipeline, TLAPS

OfferOrNone == Offers \cup {NoOffer}
WorkerPlaces ==
  {"idle", "loaded", "calling", "answered", "followUp", "followWrite", "deciding", "retrying",
   "failing", "settleRetry", "settleFailed"}
Workers ==
  [pc : WorkerPlaces, key : Keys, link : Links, status : AppStatus, offer : OfferOrNone,
   answer : [stage : 0..2, verdict : Verdicts \cup {"none"}]]
ClientPlaces ==
  {"idle", "enqueueUpdate", "writeUpdate", "enqueueConsents", "enqueueDecision", "writeDecision",
   "writeOffer"}
Requests == [pc : ClientPlaces, version : Versions, link : Links, offer : OfferOrNone]
Lenders == [update : 0..4, offer : OfferOrNone, stage : 0..2]

Shape ==
  /\ row \in [Keys -> RowStatus]
  /\ link \in Links
  /\ app \in [status : AppStatus, offer : OfferOrNone]
  /\ profile \in BOOLEAN /\ consents \in BOOLEAN /\ lost \in BOOLEAN
  /\ worker \in Workers
  /\ client \in [Clients -> Requests]
  /\ review \in {"idle", "approve", "reject"}
  /\ lender \in Lenders

-------------------------------------------------------------------------------
(* Keys, columns and upserts.                                               *)

\* A key is a stage with its version.
LEMMA KeyForms ==
  ASSUME NEW k \in Keys
  PROVE  /\ k = <<k[1], k[2]>>
         /\ k[1] \in {"CREATE", "CONSENT", "OTHER_CONSENT", "UPDATE", "DECISION", "STATUS"}
         /\ k[1] \in {"CREATE", "CONSENT", "OTHER_CONSENT"} => k[2] = 1
         /\ k[1] = "UPDATE" => k[2] \in Versions
         /\ k[1] = "DECISION" => k[2] \in 1..2
         /\ k[1] = "STATUS" => k[2] \in 1..MaxPolls
  BY DEF Keys

LEMMA KeysThere ==
  /\ \A v \in Versions : <<"UPDATE", v>> \in Keys
  /\ \A v \in 1..2 : <<"DECISION", v>> \in Keys
  /\ \A v \in 1..MaxPolls : <<"STATUS", v>> \in Keys
  /\ <<"CREATE", 1>> \in Keys /\ <<"CONSENT", 1>> \in Keys /\ <<"OTHER_CONSENT", 1>> \in Keys
  BY DEF Keys

\* The columns a stage owns, written together.
LEMMA ColumnsWritten ==
  ASSUME NEW l \in Links, NEW columns, "updateVersion" \notin columns,
         "decisionVersion" \notin columns, "asked" \notin columns, NEW st \in Column
  PROVE  SetColumns(l, columns, st) =
           [create |-> IF "create" \in columns THEN st ELSE l.create,
            consent |-> IF "consent" \in columns THEN st ELSE l.consent,
            update |-> IF "update" \in columns THEN st ELSE l.update,
            updateVersion |-> l.updateVersion,
            decision |-> IF "decision" \in columns THEN st ELSE l.decision,
            decisionVersion |-> l.decisionVersion,
            asked |-> l.asked]
  BY DEF SetColumns, Links

LEMMA ColumnsKept ==
  ASSUME NEW l \in Links, NEW columns, "updateVersion" \notin columns,
         "decisionVersion" \notin columns, "asked" \notin columns, NEW st \in Column
  PROVE  LET m == SetColumns(l, columns, st)
         IN  /\ m \in Links
             /\ m.updateVersion = l.updateVersion /\ m.decisionVersion = l.decisionVersion
             /\ m.asked = l.asked
             /\ "update" \notin columns => m.update = l.update
             /\ "update" \in columns => m.update = st
<1> DEFINE m == SetColumns(l, columns, st)
           a == IF "create" \in columns THEN st ELSE l.create
           b == IF "consent" \in columns THEN st ELSE l.consent
           c == IF "update" \in columns THEN st ELSE l.update
           d == IF "decision" \in columns THEN st ELSE l.decision
<1>1. m = [create |-> a, consent |-> b, update |-> c, updateVersion |-> l.updateVersion,
           decision |-> d, decisionVersion |-> l.decisionVersion, asked |-> l.asked]
  BY ColumnsWritten
<1>2. a \in Column /\ b \in Column /\ c \in Column /\ d \in Column
  BY DEF Links
<1>3. c = IF "update" \in columns THEN st ELSE l.update
  OBVIOUS
<1> HIDE DEF m, a, b, c, d
<1>4. m \in Links
  BY <1>1, <1>2 DEF Links
<1>5. /\ m.updateVersion = l.updateVersion /\ m.decisionVersion = l.decisionVersion
      /\ m.asked = l.asked /\ m.update = c
  BY <1>1
<1>6. QED
  BY <1>3, <1>4, <1>5 DEF m

LEMMA StageColumns ==
  ASSUME NEW k \in Keys
  PROVE  /\ "updateVersion" \notin ColumnOf(k) /\ "decisionVersion" \notin ColumnOf(k)
         /\ "asked" \notin ColumnOf(k)
         /\ "update" \in ColumnOf(k) <=> k[1] = "UPDATE"
  BY KeyForms DEF ColumnOf

\* An upsert adds a row and changes none.
LEMMA UpsertAdds ==
  ASSUME NEW rows \in [Keys -> RowStatus], NEW k \in Keys
  PROVE  /\ Upsert(rows, k) \in [Keys -> RowStatus]
         /\ Upsert(rows, k)[k] # "absent"
         /\ \A j \in Keys : rows[j] # "absent" => Upsert(rows, k)[j] = rows[j]
         /\ \A j \in Keys : Upsert(rows, k)[j] \in {rows[j], "PENDING"}
         /\ \A j \in Keys : j # k => Upsert(rows, k)[j] = rows[j]
  BY DEF Upsert, RowStatus

-------------------------------------------------------------------------------
(* Types.                                                                   *)

LEMMA Constants ==
  /\ 1 \in Versions /\ 2 \in Versions /\ Versions \subseteq 1..4
  /\ NewLink \in Links /\ Idle \in Workers /\ NoCall \in Requests
  /\ Idle.pc = "idle" /\ Idle.link = NewLink /\ NoCall.pc = "idle" /\ NoCall.version = 1
<1>1. 1 \in Versions /\ 2 \in Versions /\ Versions \subseteq 1..4
  BY PipelineAssumption
<1>2. NewLink \in Links
  BY <1>1 DEF NewLink, Links, Column
<1>3. Idle \in Workers
  BY <1>2, KeysThere DEF Idle, Workers, WorkerPlaces, AppStatus, OfferOrNone, NoVerdict, Verdicts
<1>4. NoCall \in Requests
  BY <1>1, <1>2 DEF NoCall, Requests, ClientPlaces, OfferOrNone
<1>5. Idle.pc = "idle" /\ Idle.link = NewLink /\ NoCall.pc = "idle" /\ NoCall.version = 1
  BY DEF Idle, NoCall
<1>6. QED
  BY <1>1, <1>2, <1>3, <1>4, <1>5

\* A worker that goes on keeps its event.
LEMMA WorkerGoes ==
  ASSUME NEW w \in Workers, NEW pc \in WorkerPlaces
  PROVE  LET u == [w EXCEPT !.pc = pc]
         IN  u \in Workers /\ u.pc = pc /\ u.key = w.key /\ u.link = w.link /\ u.answer = w.answer
  BY DEF Workers

\* So does a request.
LEMMA RequestGoes ==
  ASSUME NEW c \in Requests, NEW pc \in ClientPlaces
  PROVE  LET u == [c EXCEPT !.pc = pc]
         IN  u \in Requests /\ u.pc = pc /\ u.version = c.version
  BY DEF Requests

LEMMA ReceivedTyped ==
  ASSUME Shape, NEW k \in Keys
  PROVE  /\ Received(k) \in Lenders
         /\ Received(k).update >= lender.update
         /\ k[1] = "UPDATE" => Received(k).update >= k[2]
<1> DEFINE u == IF k[1] = "UPDATE" /\ k[2] > lender.update THEN k[2] ELSE lender.update
           o == IF k[1] = "UPDATE" /\ k[2] >= 2 THEN worker.offer ELSE lender.offer
           s == IF k[1] = "DECISION" /\ k[2] > lender.stage THEN k[2] ELSE lender.stage
<1>1. lender \in Lenders /\ worker.offer \in OfferOrNone
  BY DEF Shape, Workers
<1>2. /\ u \in 0..4 /\ u >= lender.update /\ (k[1] = "UPDATE" => u >= k[2])
      /\ o \in OfferOrNone /\ s \in 0..2
  BY <1>1, KeyForms, Constants DEF Lenders
<1>3. Received(k) = [lender EXCEPT !.update = u, !.offer = o, !.stage = s]
  BY DEF Received
<1> HIDE DEF u, o, s
<1>4. QED
  BY <1>1, <1>2, <1>3 DEF Lenders

\* What a queued update does to the link.
LEMMA LinkAfterUpdate ==
  ASSUME Shape, NEW l \in Links, NEW v \in Versions, writeUpdate(v, l)
  PROVE  /\ row' = Upsert(row, <<"UPDATE", v>>) /\ row' \in [Keys -> RowStatus]
         /\ link' \in Links /\ link'.asked = link.asked /\ link'.decisionVersion = link.decisionVersion
         /\ \/ link' = link
            \/ link'.update = "PENDING" /\ link'.updateVersion = v
<1>1. row' = Upsert(row, <<"UPDATE", v>>) /\ row' \in [Keys -> RowStatus]
  BY KeysThere, UpsertAdds DEF writeUpdate, Shape
<1> DEFINE m == [link EXCEPT !.update = "PENDING", !.updateVersion = v]
<1>2. link' = link \/ link' = m
  BY DEF writeUpdate
<1>3. /\ m \in Links /\ m.asked = link.asked /\ m.decisionVersion = link.decisionVersion
      /\ m.update = "PENDING" /\ m.updateVersion = v
  BY DEF Shape, Links, Column
<1> HIDE DEF m
<1>4. QED
  BY <1>1, <1>2, <1>3 DEF Shape

\* What a requested decision does to the link.
LEMMA LinkAfterDecision ==
  ASSUME Shape, NEW l \in Links, NEW v \in 1..2, writeDecision(v, l)
  PROVE  /\ row' = Upsert(row, <<"DECISION", v>>) /\ row' \in [Keys -> RowStatus]
         /\ link' \in Links /\ link'.update = link.update /\ link'.updateVersion = link.updateVersion
         /\ \/ link' = link
            \/ link'.decisionVersion = v
<1>1. row' = Upsert(row, <<"DECISION", v>>) /\ row' \in [Keys -> RowStatus]
  BY KeysThere, UpsertAdds DEF writeDecision, Shape
<1> DEFINE m == [link EXCEPT !.decision = "PENDING", !.decisionVersion = v, !.asked = TRUE]
<1>2. link' = link \/ link' = m
  BY DEF writeDecision
<1>3. /\ m \in Links /\ m.update = link.update /\ m.updateVersion = link.updateVersion
      /\ m.decisionVersion = v
  BY DEF Shape, Links, Column
<1> HIDE DEF m
<1>4. QED
  BY <1>1, <1>2, <1>3 DEF Shape

\* One lemma per action: types stay, and what the action does to link and rows.
LEMMA LoadTyped ==
  ASSUME Shape, NEW k \in Keys, loadEvent(k)
  PROVE  /\ Shape'
         /\ row' = [row EXCEPT ![k] = "PROCESSING"] /\ row[k] \in {"PENDING", "RETRY_PENDING"}
         /\ link'.update = link.update /\ link'.updateVersion = link.updateVersion
         /\ link'.asked = link.asked /\ link'.decisionVersion = link.decisionVersion
         /\ worker'.pc = "loaded" /\ worker'.key = k /\ worker'.link = link'
<1> DEFINE m == [link EXCEPT !.create = "PENDING"]
<1>1. /\ m \in Links /\ m.update = link.update /\ m.updateVersion = link.updateVersion
      /\ m.asked = link.asked /\ m.decisionVersion = link.decisionVersion
  BY DEF Shape, Links, Column
<1>2. link' = link \/ link' = m
  BY DEF loadEvent
<1> HIDE DEF m
<1>3. link' \in Links
  BY <1>1, <1>2 DEF Shape
<1>4. worker' \in Workers /\ worker'.pc = "loaded" /\ worker'.key = k /\ worker'.link = link'
  <2>1. worker' = [pc |-> "loaded", key |-> k, link |-> link', status |-> app.status,
                   offer |-> app.offer, answer |-> NoVerdict]
    BY DEF loadEvent
  <2>2. QED
    BY <1>3, <2>1 DEF Workers, Shape, WorkerPlaces, NoVerdict
<1>5. row' = [row EXCEPT ![k] = "PROCESSING"] /\ row[k] \in {"PENDING", "RETRY_PENDING"}
  BY DEF loadEvent
<1>6. row' \in [Keys -> RowStatus]
  BY <1>5 DEF Shape, RowStatus
<1>7. QED
  BY <1>1, <1>2, <1>3, <1>4, <1>5, <1>6 DEF loadEvent, Shape
LEMMA ReturnTyped ==
  ASSUME Shape, returnFalse
  PROVE  Shape' /\ row' = [row EXCEPT ![worker.key] = "COMPLETED"] /\ worker' = Idle
<1>1. row' \in [Keys -> RowStatus]
  BY DEF returnFalse, Shape, RowStatus
<1>2. QED
  BY <1>1, Constants DEF returnFalse, Shape

\* The worker goes on to another place of the same event, leaving link and rows alone.
LEMMA PlaceTyped ==
  ASSUME Shape, NEW pc \in WorkerPlaces, worker' = [worker EXCEPT !.pc = pc],
         row' \in [Keys -> RowStatus], link' \in Links, lender' \in Lenders,
         UNCHANGED <<app, profile, consents, client, review, lost>>
  PROVE  /\ Shape' /\ worker'.pc = pc /\ worker'.key = worker.key /\ worker'.link = worker.link
         /\ worker'.answer = worker.answer
  BY WorkerGoes DEF Shape

LEMMA CallTyped ==
  ASSUME Shape, callLender
  PROVE  /\ Shape' /\ worker.pc = "loaded" /\ worker'.pc = "calling" /\ worker'.key = worker.key /\ worker'.link = worker.link
         /\ UNCHANGED <<row, app, consents, client, review, lender, lost>>
         /\ link'.update \in {link.update, "PROCESSING"} /\ link'.updateVersion = link.updateVersion
         /\ link'.decisionVersion = link.decisionVersion
         /\ link'.asked = link.asked \/ worker.key[1] = "DECISION"
<1> DEFINE k == worker.key
           columns == IF k[1] = "STATUS" THEN {} ELSE ColumnOf(k)
           l == SetColumns(link, columns, "PROCESSING")
           m == [l EXCEPT !.asked = TRUE]
<1>1. k \in Keys /\ link \in Links /\ "PROCESSING" \in Column
  BY DEF Shape, Workers, Column
<1>2. "updateVersion" \notin columns /\ "decisionVersion" \notin columns /\ "asked" \notin columns
  BY <1>1, StageColumns
<1> HIDE DEF columns
<1>3. /\ l \in Links /\ l.update \in {link.update, "PROCESSING"} /\ l.updateVersion = link.updateVersion
      /\ l.decisionVersion = link.decisionVersion /\ l.asked = link.asked
  BY <1>1, <1>2, ColumnsKept
<1>4. link' = l \/ (link' = m /\ worker.key[1] = "DECISION")
  BY DEF callLender, columns
<1> HIDE DEF l
<1>5. /\ m \in Links /\ m.update = l.update /\ m.updateVersion = l.updateVersion
      /\ m.decisionVersion = l.decisionVersion
  BY <1>3 DEF Links
<1> HIDE DEF m
<1>6. link' \in Links
  BY <1>3, <1>4, <1>5
<1>7. /\ worker' = [worker EXCEPT !.pc = "calling"] /\ worker.pc = "loaded"
      /\ UNCHANGED <<row, app, profile, consents, client, review, lender, lost>>
  BY DEF callLender
<1>8. /\ Shape' /\ worker'.pc = "calling" /\ worker'.key = worker.key /\ worker'.link = worker.link
  BY <1>6, <1>7, PlaceTyped DEF Shape, WorkerPlaces
<1>9. QED
  BY <1>3, <1>4, <1>5, <1>7, <1>8

LEMMA AnswerTyped ==
  ASSUME Shape, NEW verdict \in Verdicts, lenderAnswers(verdict)
  PROVE  /\ Shape' /\ worker.pc = "calling" /\ worker'.pc = "answered"
         /\ worker'.key = worker.key /\ worker'.link = worker.link
         /\ lender' = Received(worker.key) /\ UNCHANGED <<row, link, app, consents, client, review, lost>>
<1>1. lender' = Received(worker.key) /\ lender' \in Lenders
  BY ReceivedTyped DEF lenderAnswers, Shape, Workers
<1> DEFINE a == [stage |-> lender'.stage, verdict |-> verdict]
           u == [worker EXCEPT !.pc = "answered", !.answer = a]
           v == [worker EXCEPT !.pc = "answered"]
<1>2. a \in [stage : 0..2, verdict : Verdicts \cup {"none"}]
  BY <1>1 DEF Lenders
<1>3. worker' = u \/ worker' = v
  BY DEF lenderAnswers
<1> HIDE DEF a
<1>4. /\ u \in Workers /\ v \in Workers /\ u.pc = "answered" /\ v.pc = "answered" /\ u.key = worker.key
      /\ v.key = worker.key /\ u.link = worker.link /\ v.link = worker.link
  BY <1>2 DEF Shape, Workers, WorkerPlaces
<1> HIDE DEF u, v
<1>5. QED
  BY <1>1, <1>3, <1>4 DEF lenderAnswers, Shape

LEMMA FailTyped ==
  ASSUME Shape, NEW retrying \in BOOLEAN, lenderFails(retrying)
  PROVE  /\ Shape' /\ worker.pc = "calling" /\ worker'.pc \in {"retrying", "failing"}
         /\ worker'.key = worker.key /\ worker'.link = worker.link
         /\ lender' \in {lender, Received(worker.key)}
         /\ UNCHANGED <<row, link, app, consents, client, review, lost>>
<1>1. lender' \in {lender, Received(worker.key)} /\ lender' \in Lenders
  BY ReceivedTyped DEF lenderFails, Shape, Workers
<1>2. PICK pc \in {"retrying", "failing"} : worker' = [worker EXCEPT !.pc = pc]
  BY DEF lenderFails
<1>3. /\ UNCHANGED <<row, link, app, profile, consents, client, review, lost>>
      /\ worker.pc = "calling"
  BY DEF lenderFails
<1>4. pc \in WorkerPlaces
  BY DEF WorkerPlaces
<1>5. QED
  BY <1>1, <1>2, <1>3, <1>4, PlaceTyped DEF Shape

LEMMA CreateTyped ==
  ASSUME Shape, completeCreate
  PROVE  /\ Shape' /\ worker.pc = "answered" /\ worker.key[1] = "CREATE" /\ worker'.pc = "followUp"
         /\ worker'.key = worker.key /\ worker'.link = worker.link
         /\ row' = Upsert([row EXCEPT ![worker.key] = "COMPLETED"], <<"CONSENT", 1>>)
         /\ link'.update = link.update /\ link'.updateVersion = link.updateVersion
         /\ link'.decisionVersion = link.decisionVersion /\ link'.asked = link.asked
         /\ UNCHANGED <<app, consents, client, review, lender, lost>>
<1> DEFINE m == [link EXCEPT !.create = "COMPLETED", !.consent = "PENDING"]
           rows == [row EXCEPT ![worker.key] = "COMPLETED"]
<1>1. /\ m \in Links /\ m.update = link.update /\ m.updateVersion = link.updateVersion
      /\ m.decisionVersion = link.decisionVersion /\ m.asked = link.asked
  BY DEF Shape, Links, Column
<1>2. rows \in [Keys -> RowStatus]
  BY DEF Shape, RowStatus
<1>3. /\ link' = m /\ row' = Upsert(rows, <<"CONSENT", 1>>) /\ worker' = [worker EXCEPT !.pc = "followUp"]
      /\ worker.pc = "answered" /\ worker.key[1] = "CREATE"
      /\ UNCHANGED <<app, profile, consents, client, review, lender, lost>>
  BY DEF completeCreate
<1> HIDE DEF m, rows
<1>4. row' \in [Keys -> RowStatus]
  BY <1>2, <1>3, KeysThere, UpsertAdds
<1>5. /\ Shape' /\ worker'.pc = "followUp" /\ worker'.key = worker.key /\ worker'.link = worker.link
  BY <1>1, <1>3, <1>4, PlaceTyped DEF Shape, WorkerPlaces
<1>6. QED
  BY <1>1, <1>3, <1>5 DEF rows

LEMMA ConsentTyped ==
  ASSUME Shape, completeConsent
  PROVE  /\ Shape' /\ worker.pc = "answered" /\ worker.key[1] \in {"CONSENT", "OTHER_CONSENT"}
         /\ worker'.pc = "followUp" /\ worker'.key = worker.key /\ worker'.link = worker.link
         /\ row' = [row EXCEPT ![worker.key] = "COMPLETED"]
         /\ link'.update = link.update /\ link'.updateVersion = link.updateVersion
         /\ link'.decisionVersion = link.decisionVersion /\ link'.asked = link.asked
         /\ UNCHANGED <<app, consents, client, review, lender, lost>>
<1>1. /\ link' = SetColumns(link, ColumnOf(worker.key), "COMPLETED")
      /\ row' = [row EXCEPT ![worker.key] = "COMPLETED"]
      /\ worker' = [worker EXCEPT !.pc = "followUp"]
      /\ worker.pc = "answered" /\ worker.key[1] \in {"CONSENT", "OTHER_CONSENT"}
      /\ UNCHANGED <<app, profile, consents, client, review, lender, lost>>
  BY DEF completeConsent
<1>2. worker.key \in Keys /\ link \in Links /\ "COMPLETED" \in Column
  BY DEF Shape, Workers, Column
<1>3. /\ link' \in Links /\ link'.update = link.update /\ link'.updateVersion = link.updateVersion
      /\ link'.decisionVersion = link.decisionVersion /\ link'.asked = link.asked
  BY <1>1, <1>2, StageColumns, ColumnsKept
<1>4. row' \in [Keys -> RowStatus]
  BY <1>1 DEF Shape, RowStatus
<1>5. /\ Shape' /\ worker'.pc = "followUp" /\ worker'.key = worker.key /\ worker'.link = worker.link
  BY <1>1, <1>3, <1>4, PlaceTyped DEF Shape, WorkerPlaces
<1>6. QED
  BY <1>1, <1>3, <1>5

LEMMA UpdateTyped ==
  ASSUME Shape, completeUpdate
  PROVE  /\ Shape' /\ worker.pc = "answered" /\ worker.key[1] = "UPDATE"
         /\ row' = [row EXCEPT ![worker.key] = "COMPLETED"]
         /\ link'.update = "COMPLETED" /\ link'.updateVersion = worker.key[2]
         /\ link'.decisionVersion = link.decisionVersion /\ link'.asked = link.asked
         /\ \/ /\ worker.key[2] <= 2 /\ worker'.pc = "followUp"
               /\ worker'.key = worker.key /\ worker'.link = worker.link
            \/ /\ worker.key[2] > 2 \/ (worker.link.asked /\ worker.link.decisionVersion >= worker.key[2])
               /\ worker' = Idle
         /\ UNCHANGED <<app, consents, client, review, lender, lost>>
<1> DEFINE v == worker.key[2]
           asks == v <= 2 /\ (~worker.link.asked \/ worker.link.decisionVersion < v)
           m == [link EXCEPT !.update = "COMPLETED", !.updateVersion = v]
<1>1. /\ link' = m /\ row' = [row EXCEPT ![worker.key] = "COMPLETED"]
      /\ worker.pc = "answered" /\ worker.key[1] = "UPDATE"
      /\ UNCHANGED <<app, profile, consents, client, review, lender, lost>>
      /\ worker' = IF asks THEN [worker EXCEPT !.pc = "followUp"] ELSE Idle
  BY DEF completeUpdate
<1>2. v \in Versions /\ v \in 1..4 /\ worker.link.decisionVersion \in 1..2
  BY <1>1, KeyForms, Constants DEF Shape, Workers, Links
<1>3. asks \/ v > 2 \/ (worker.link.asked /\ worker.link.decisionVersion >= v)
  BY <1>2
<1>4. asks => v <= 2
  OBVIOUS
<1>5. /\ m \in Links /\ m.update = "COMPLETED" /\ m.updateVersion = v
      /\ m.decisionVersion = link.decisionVersion /\ m.asked = link.asked
  BY <1>2 DEF Shape, Links, Column
<1>6. row' \in [Keys -> RowStatus]
  BY <1>1 DEF Shape, RowStatus
<1> HIDE DEF m, v, asks
<1>7. CASE asks
  <2>1. /\ Shape' /\ worker'.pc = "followUp" /\ worker'.key = worker.key /\ worker'.link = worker.link
    BY <1>1, <1>5, <1>6, <1>7, PlaceTyped DEF Shape, WorkerPlaces
  <2>2. QED
    BY <1>1, <1>4, <1>5, <1>7, <2>1 DEF v
<1>8. CASE ~asks
  <2>1. worker' = Idle /\ Shape'
    BY <1>1, <1>5, <1>6, <1>8, Constants DEF Shape
  <2>2. QED
    BY <1>1, <1>3, <1>5, <1>8, <2>1 DEF v
<1>9. QED
  BY <1>7, <1>8

LEMMA ReadTyped ==
  ASSUME Shape, readDecision
  PROVE  /\ Shape' /\ worker.pc = "answered" /\ worker.key[1] \in {"DECISION", "STATUS"}
         /\ worker'.pc = "deciding" /\ worker'.key = worker.key /\ worker'.link = link
         /\ UNCHANGED <<row, link, app, consents, client, review, lender, lost>>
<1> DEFINE w == [worker EXCEPT !.pc = "deciding", !.link = link, !.status = app.status, !.offer = app.offer]
<1>1. w \in Workers /\ w.pc = "deciding" /\ w.key = worker.key /\ w.link = link
  BY DEF Shape, Workers, WorkerPlaces
<1>2. worker' = w
  BY DEF readDecision
<1> HIDE DEF w
<1>3. QED
  BY <1>1, <1>2 DEF readDecision, Shape

\* A decision completes its row, may queue a poll, and settles column and status; approval
\* before and after the final request are told apart by the version the link had.
LEMMA CommitTyped ==
  ASSUME Shape, commitDecision
  PROVE  /\ Shape' /\ worker.pc = "deciding" /\ worker' = Idle
         /\ \/ row' = [row EXCEPT ![worker.key] = "COMPLETED"]
            \/ \E n \in 1..MaxPolls :
                 row' = Upsert([row EXCEPT ![worker.key] = "COMPLETED"], <<"STATUS", n>>)
         /\ link'.update = link.update /\ link'.updateVersion = link.updateVersion
         /\ link'.decisionVersion = link.decisionVersion /\ link'.asked = link.asked
         /\ \/ app'.status = app.status
            \/ app'.status \in {"LENDER_REJECTED", "LENDER_REVIEW", "LENDER_PRE_APPROVED"}
            \/ app'.status = "PENDING_CREDIT_REVIEW" /\ worker.link.decisionVersion >= 2
         /\ UNCHANGED <<consents, client, review, lender, lost>>
<1> DEFINE k == worker.key
           verdict == worker.answer.verdict
           final == IsFinal(worker.link)
           resolved == AlreadyResolved(final, worker.status)
           poll == IF k[1] = "STATUS" THEN k[2] + 1 ELSE 1
           completed == [row EXCEPT ![k] = "COMPLETED"]
           m == [link EXCEPT !.decision = IF verdict = "PENDING" THEN "ACKNOWLEDGED" ELSE "COMPLETED"]
           status == Outcome(final, verdict, app.status)
           a == [app EXCEPT !.status = status]
<1>1. /\ worker.pc = "deciding" /\ worker' = Idle
      /\ UNCHANGED <<profile, consents, client, review, lender, lost>>
      /\ \/ row' = completed
         \/ CanPoll /\ poll <= MaxPolls /\ row' = Upsert(completed, <<"STATUS", poll>>)
      /\ link' = link \/ link' = m
      /\ app' = app \/ app' = a
  BY DEF commitDecision
<1>2. k \in Keys /\ MaxPolls \in Nat
  BY PipelineAssumption DEF Shape, Workers
<1>3. poll \in Nat \ {0}
  BY <1>2, KeyForms
<1>4. completed \in [Keys -> RowStatus]
  BY DEF Shape, RowStatus
<1>5. /\ row' \in [Keys -> RowStatus]
      /\ \/ row' = completed
         \/ \E n \in 1..MaxPolls : row' = Upsert(completed, <<"STATUS", n>>)
  <2> HIDE DEF completed, poll
  <2>1. CASE row' = completed
    BY <1>4, <2>1
  <2>2. CASE poll <= MaxPolls /\ row' = Upsert(completed, <<"STATUS", poll>>)
    <3>1. poll \in 1..MaxPolls
      BY <1>2, <1>3, <2>2
    <3>2. QED
      BY <1>4, <2>2, <3>1, KeysThere, UpsertAdds
  <2>3. QED
    BY <1>1, <2>1, <2>2
<1>6. /\ m \in Links /\ m.update = link.update /\ m.updateVersion = link.updateVersion
      /\ m.decisionVersion = link.decisionVersion /\ m.asked = link.asked
  BY DEF Shape, Links, Column
<1>7. /\ status \in AppStatus
      /\ \/ status = app.status
         \/ status \in {"LENDER_REJECTED", "LENDER_REVIEW", "LENDER_PRE_APPROVED"}
         \/ status = "PENDING_CREDIT_REVIEW" /\ worker.link.decisionVersion >= 2
  BY DEF Outcome, IsFinal, Shape, AppStatus
<1> HIDE DEF status
<1>8. a \in [status : AppStatus, offer : OfferOrNone] /\ a.status = status
  BY <1>7 DEF Shape
<1> HIDE DEF m, a, completed, k, verdict, final, resolved, poll
<1>9. Shape'
  BY <1>1, <1>5, <1>6, <1>8, Constants DEF Shape
<1>10. QED
  BY <1>1, <1>5, <1>6, <1>7, <1>8, <1>9 DEF completed, k

LEMMA MarkTyped ==
  ASSUME Shape, markStageFailure
  PROVE  /\ Shape' /\ worker.pc \in {"retrying", "failing"} /\ worker'.pc \in {"settleRetry", "settleFailed"}
         /\ worker'.key = worker.key /\ worker'.link = worker.link
         /\ link'.update \in {link.update, "RETRY_PENDING", "FAILED"}
         /\ link'.updateVersion = link.updateVersion
         /\ link'.decisionVersion = link.decisionVersion /\ link'.asked = link.asked
         /\ UNCHANGED <<row, app, consents, client, review, lender, lost>>
<1>1. PICK st \in {"RETRY_PENDING", "FAILED"} : link' = SetColumns(link, ColumnOf(worker.key), st)
  BY DEF markStageFailure
<1>2. PICK pc \in {"settleRetry", "settleFailed"} : worker' = [worker EXCEPT !.pc = pc]
  BY DEF markStageFailure
<1>3. worker.key \in Keys /\ link \in Links /\ st \in Column /\ pc \in WorkerPlaces
  BY DEF Shape, Workers, Column, WorkerPlaces
<1>4. /\ link' \in Links /\ link'.update \in {link.update, st} /\ link'.updateVersion = link.updateVersion
      /\ link'.decisionVersion = link.decisionVersion /\ link'.asked = link.asked
  BY <1>1, <1>3, StageColumns, ColumnsKept
<1>5. /\ worker.pc \in {"retrying", "failing"}
      /\ UNCHANGED <<row, app, profile, consents, client, review, lender, lost>>
  BY DEF markStageFailure
<1>6. /\ Shape' /\ worker'.pc = pc /\ worker'.key = worker.key /\ worker'.link = worker.link
  BY <1>2, <1>3, <1>4, <1>5, PlaceTyped DEF Shape
<1>7. QED
  BY <1>4, <1>5, <1>6

LEMMA SettleTyped ==
  ASSUME Shape, settleFailure
  PROVE  /\ Shape' /\ worker.pc \in {"settleRetry", "settleFailed"} /\ worker' = Idle
         /\ \E st \in {"RETRY_PENDING", "FAILED"} : row' = [row EXCEPT ![worker.key] = st]
         /\ UNCHANGED <<link, app, consents, client, review, lender, lost>>
<1>1. PICK st \in {"RETRY_PENDING", "FAILED"} : row' = [row EXCEPT ![worker.key] = st]
  BY DEF settleFailure
<1>2. row' \in [Keys -> RowStatus]
  BY <1>1 DEF Shape, RowStatus
<1>3. /\ worker.pc \in {"settleRetry", "settleFailed"} /\ worker' = Idle
      /\ UNCHANGED <<link, app, profile, consents, client, review, lender, lost>>
  BY DEF settleFailure
<1>4. QED
  BY <1>1, <1>2, <1>3, Constants DEF Shape

\* What a follow-up finds: the other consents, an update or a decision to queue, or nothing.
LEMMA FollowTyped ==
  ASSUME Shape, followUp
  PROVE  /\ Shape' /\ worker.pc = "followUp"
         /\ UNCHANGED <<link, app, consents, client, review, lender, lost>>
         /\ row' = row \/ row' = Upsert(row, <<"OTHER_CONSENT", 1>>)
         /\ \/ worker' = Idle
            \/ worker'.pc = "followWrite" /\ worker'.key = worker.key /\ worker'.link = link
         /\ worker.key[1] = "UPDATE" =>
              \/ worker' = Idle /\ ~DecisionReady(worker.key[2], link)
              \/ worker'.pc = "followWrite" /\ DecisionReady(worker.key[2], link)
<1> DEFINE k == worker.key
           ready == IF k[1] = "UPDATE" THEN DecisionReady(k[2], link) ELSE UpdateReady(link)
           w == [worker EXCEPT !.pc = "followWrite", !.link = link]
<1>1. w \in Workers /\ w.pc = "followWrite" /\ w.key = worker.key /\ w.link = link
  BY DEF Shape, Workers, WorkerPlaces
<1>2. /\ worker.pc = "followUp" /\ UNCHANGED <<link, app, profile, consents, client, review, lender, lost>>
      /\ \/ /\ k[1] = "CREATE" /\ worker' = Idle
            /\ row' = row \/ row' = Upsert(row, <<"OTHER_CONSENT", 1>>)
         \/ /\ k[1] # "CREATE" /\ row' = row
            /\ (ready /\ worker' = w) \/ (~ready /\ worker' = Idle)
  <2> HIDE DEF w
  <2>1. /\ worker.pc = "followUp" /\ UNCHANGED <<link, app, profile, consents, client, review, lender, lost>>
        /\ IF k[1] = "CREATE"
           THEN /\ row' = IF consents THEN Upsert(row, <<"OTHER_CONSENT", 1>>) ELSE row
                /\ worker' = Idle
           ELSE /\ worker' = IF ready THEN w ELSE Idle
                /\ row' = row
    BY DEF followUp, w
  <2> HIDE DEF ready, k
  <2>2. QED
    BY <2>1
<1>3. row' \in [Keys -> RowStatus]
  BY <1>2, KeysThere, UpsertAdds DEF Shape
<1>4. k[1] = "UPDATE" => (ready <=> DecisionReady(k[2], link))
  OBVIOUS
<1> HIDE DEF w, ready
<1>5. Shape'
  BY <1>1, <1>2, <1>3, Constants DEF Shape
<1>6. QED
  <2>1. CASE k[1] = "CREATE"
    BY <1>2, <1>5, <2>1
  <2>2. CASE k[1] # "CREATE" /\ ready
    BY <1>1, <1>2, <1>4, <1>5, <2>2
  <2>3. CASE k[1] # "CREATE" /\ ~ready
    BY <1>2, <1>4, <1>5, <2>3
  <2>4. QED
    BY <2>1, <2>2, <2>3

LEMMA WriteTyped ==
  ASSUME Shape, followWrite, worker.key[1] = "UPDATE" => worker.key[2] <= 2
  PROVE  /\ Shape' /\ worker.pc = "followWrite" /\ worker' = Idle
         /\ UNCHANGED <<app, consents, client, review, lender, lost>>
         /\ \/ worker.key[1] = "UPDATE" /\ worker.key[2] \in 1..2 /\ writeDecision(worker.key[2], worker.link)
            \/ worker.key[1] # "UPDATE" /\ writeUpdate(1, worker.link)
<1>1. worker.key \in Keys /\ worker.link \in Links
  BY DEF Shape, Workers
<1>2. /\ worker.pc = "followWrite" /\ worker' = Idle
      /\ UNCHANGED <<app, profile, consents, client, review, lender, lost>>
      /\ IF worker.key[1] = "UPDATE" THEN writeDecision(worker.key[2], worker.link)
         ELSE writeUpdate(1, worker.link)
  BY DEF followWrite
<1>3. CASE worker.key[1] = "UPDATE"
  <2>1. worker.key[2] \in 1..2
    BY <1>1, <1>3, KeyForms, Constants
  <2>2. row' \in [Keys -> RowStatus] /\ link' \in Links
    BY <1>1, <1>2, <1>3, <2>1, LinkAfterDecision
  <2>3. QED
    BY <1>2, <1>3, <2>1, <2>2, Constants DEF Shape
<1>4. CASE worker.key[1] # "UPDATE"
  <2>1. row' \in [Keys -> RowStatus] /\ link' \in Links
    BY <1>1, <1>2, <1>4, LinkAfterUpdate, Constants
  <2>2. QED
    BY <1>2, <1>4, <2>1, Constants DEF Shape
<1>5. QED
  BY <1>3, <1>4

LEMMA CrashTyped ==
  ASSUME Shape, crash
  PROVE  /\ Shape' /\ worker' = Idle /\ UNCHANGED <<row, link, app, consents, client, review, lender>>
         /\ lost \/ worker.pc \in {"followUp", "followWrite"} => lost'
<1>1. lost' \in BOOLEAN
  BY DEF crash
<1>2. QED
  BY <1>1, Constants DEF crash, Shape

LEMMA SweepTyped ==
  ASSUME Shape, NEW k \in Keys, sweep(k)
  PROVE  /\ Shape' /\ row[k] = "PROCESSING" /\ row' = [row EXCEPT ![k] = "RETRY_PENDING"]
         /\ UNCHANGED <<link, app, consents, worker, client, review, lender, lost>>
<1>1. row' \in [Keys -> RowStatus]
  BY DEF sweep, Shape, RowStatus
<1>2. QED
  BY <1>1 DEF sweep, Shape

LEMMA ReplayTyped ==
  ASSUME Shape, NEW k \in Keys, replayFailedEvent(k)
  PROVE  /\ Shape' /\ row[k] \in {"FAILED", "RETRY_PENDING"} /\ row' = [row EXCEPT ![k] = "PENDING"]
         /\ link'.update \in {link.update, "PENDING"} /\ link'.updateVersion = link.updateVersion
         /\ link'.decisionVersion = link.decisionVersion /\ link'.asked = link.asked
         /\ UNCHANGED <<app, consents, worker, client, review, lender, lost>>
<1>1. link' = link \/ link' = SetColumns(link, ColumnOf(k), "PENDING")
  BY DEF replayFailedEvent
<1>2. link \in Links /\ "PENDING" \in Column
  BY DEF Shape, Column
<1>3. /\ link' \in Links /\ link'.update \in {link.update, "PENDING"} /\ link'.updateVersion = link.updateVersion
      /\ link'.decisionVersion = link.decisionVersion /\ link'.asked = link.asked
  BY <1>1, <1>2, StageColumns, ColumnsKept
<1>4. row' = [row EXCEPT ![k] = "PENDING"] /\ row[k] \in {"FAILED", "RETRY_PENDING"}
  BY DEF replayFailedEvent
<1>5. row' \in [Keys -> RowStatus]
  BY <1>4 DEF Shape, RowStatus
<1>6. QED
  BY <1>3, <1>4, <1>5 DEF replayFailedEvent, Shape

\* The permanent error leaves link and rows alone.
LEMMA RefuseTyped ==
  ASSUME Shape, refuse
  PROVE  /\ Shape' /\ worker.pc = "loaded" /\ worker'.pc = "failing" /\ worker'.key = worker.key
         /\ worker'.link = worker.link
         /\ UNCHANGED <<row, link, app, consents, client, review, lender, lost>>
<1>1. /\ worker' = [worker EXCEPT !.pc = "failing"] /\ worker.pc = "loaded"
      /\ UNCHANGED <<row, link, app, profile, consents, client, review, lender, lost>>
  BY DEF refuse
<1>2. "failing" \in WorkerPlaces
  BY DEF WorkerPlaces
<1>3. /\ Shape' /\ worker'.pc = "failing" /\ worker'.key = worker.key /\ worker'.link = worker.link
  BY <1>1, <1>2, PlaceTyped DEF Shape
<1>4. QED
  BY <1>1, <1>3

\* A step of one request leaves the others alone.
OthersKept(c) == \A d \in Clients : d # c => client'[d] = client[d]

LEMMA ClientPuts ==
  ASSUME Shape, NEW c \in Clients, NEW r \in Requests, client' = [client EXCEPT ![c] = r]
  PROVE  client' \in [Clients -> Requests] /\ client'[c] = r /\ OthersKept(c)
  BY DEF Shape, OthersKept

LEMMA SaveTyped ==
  ASSUME Shape, NEW c \in Clients, saveProfile(c)
  PROVE  /\ Shape' /\ OthersKept(c) /\ client[c].pc = "idle"
         /\ client'[c].pc = "enqueueUpdate" /\ client'[c].version = client[c].version
         /\ UNCHANGED <<row, link, app, consents, worker, review, lender, lost>>
<1> DEFINE r == [client[c] EXCEPT !.pc = "enqueueUpdate"]
<1>1. r \in Requests /\ r.pc = "enqueueUpdate" /\ r.version = client[c].version
  BY DEF Shape, Requests, ClientPlaces
<1>2. client' = [client EXCEPT ![c] = r]
  BY DEF saveProfile
<1> HIDE DEF r
<1>3. QED
  BY <1>1, <1>2, ClientPuts DEF saveProfile, CanCall, Shape

LEMMA PushTyped ==
  ASSUME Shape, NEW c \in Clients, NEW v \in Versions, stagePush(c, v)
  PROVE  /\ Shape' /\ OthersKept(c) /\ client[c].pc = "idle" /\ app.status = "LENDER_APPROVED"
         /\ client'[c].pc = "enqueueUpdate" /\ client'[c].version = v
         /\ UNCHANGED <<row, link, app, consents, worker, review, lender, lost>>
<1> DEFINE r == [client[c] EXCEPT !.pc = "enqueueUpdate", !.version = v]
<1>1. r \in Requests /\ r.pc = "enqueueUpdate" /\ r.version = v
  BY DEF Shape, Requests, ClientPlaces
<1>2. client' = [client EXCEPT ![c] = r]
  BY DEF stagePush
<1> HIDE DEF r
<1>3. QED
  BY <1>1, <1>2, ClientPuts DEF stagePush, CanCall, Shape

LEMMA EnqueueUpdateTyped ==
  ASSUME Shape, NEW c \in Clients, enqueueUpdateWhenReady(c)
  PROVE  /\ Shape' /\ OthersKept(c) /\ client[c].pc = "enqueueUpdate"
         /\ client'[c].pc \in {"writeUpdate", "idle"}
         /\ client'[c].version \in {1, client[c].version}
         /\ UNCHANGED <<row, link, app, consents, worker, review, lender, lost>>
<1> DEFINE u == [client[c] EXCEPT !.pc = "writeUpdate", !.link = link]
           r == IF UpdateReady(link) THEN u ELSE NoCall
<1>1. u \in Requests /\ u.pc = "writeUpdate" /\ u.version = client[c].version
  BY DEF Shape, Requests, ClientPlaces
<1>2. client' = [client EXCEPT ![c] = r]
  BY DEF enqueueUpdateWhenReady
<1> HIDE DEF u
<1>3. r \in Requests /\ r.pc \in {"writeUpdate", "idle"} /\ r.version \in {1, client[c].version}
  BY <1>1, Constants
<1> HIDE DEF r
<1>4. QED
  BY <1>2, <1>3, ClientPuts DEF enqueueUpdateWhenReady, Shape

LEMMA CommitUpdateTyped ==
  ASSUME Shape, NEW c \in Clients, commitUpdate(c)
  PROVE  /\ Shape' /\ OthersKept(c) /\ client[c].pc = "writeUpdate" /\ client'[c] = NoCall
         /\ client[c].version \in Versions /\ client[c].link \in Links
         /\ writeUpdate(client[c].version, client[c].link)
         /\ UNCHANGED <<app, consents, worker, review, lender, lost>>
<1>1. client[c].version \in Versions /\ client[c].link \in Links
  BY DEF Shape, Requests
<1>2. /\ client[c].pc = "writeUpdate" /\ writeUpdate(client[c].version, client[c].link)
      /\ client' = [client EXCEPT ![c] = NoCall]
      /\ UNCHANGED <<app, profile, consents, worker, review, lender, lost>>
  BY DEF commitUpdate
<1>3. row' \in [Keys -> RowStatus] /\ link' \in Links
  BY <1>1, <1>2, LinkAfterUpdate
<1>4. QED
  BY <1>1, <1>2, <1>3, ClientPuts, Constants DEF Shape

LEMMA RecordTyped ==
  ASSUME Shape, NEW c \in Clients, recordDecisionConsents(c)
  PROVE  /\ Shape' /\ OthersKept(c) /\ client[c].pc = "idle" /\ consents' = TRUE
         /\ client'[c].pc = "enqueueConsents" /\ client'[c].version = client[c].version
         /\ UNCHANGED <<row, link, app, worker, review, lender, lost>>
<1> DEFINE r == [client[c] EXCEPT !.pc = "enqueueConsents"]
<1>1. r \in Requests /\ r.pc = "enqueueConsents" /\ r.version = client[c].version
  BY DEF Shape, Requests, ClientPlaces
<1>2. client' = [client EXCEPT ![c] = r]
  BY DEF recordDecisionConsents
<1> HIDE DEF r
<1>3. QED
  BY <1>1, <1>2, ClientPuts DEF recordDecisionConsents, CanCall, Shape

LEMMA EnqueueConsentsTyped ==
  ASSUME Shape, NEW c \in Clients, enqueueConsentSubmissions(c)
  PROVE  /\ Shape' /\ OthersKept(c) /\ client[c].pc = "enqueueConsents"
         /\ client'[c].pc = "enqueueDecision" /\ client'[c].version = client[c].version
         /\ row' = row \/ row' = Upsert(row, <<"OTHER_CONSENT", 1>>)
         /\ UNCHANGED <<link, app, consents, worker, review, lender, lost>>
<1> DEFINE r == [client[c] EXCEPT !.pc = "enqueueDecision"]
<1>1. r \in Requests /\ r.pc = "enqueueDecision" /\ r.version = client[c].version
  BY DEF Shape, Requests, ClientPlaces
<1>2. /\ client' = [client EXCEPT ![c] = r]
      /\ row' = row \/ row' = Upsert(row, <<"OTHER_CONSENT", 1>>)
  BY DEF enqueueConsentSubmissions
<1> HIDE DEF r
<1>3. row' \in [Keys -> RowStatus]
  BY <1>2, KeysThere, UpsertAdds DEF Shape
<1>4. QED
  BY <1>1, <1>2, <1>3, ClientPuts DEF enqueueConsentSubmissions, Shape

LEMMA EnqueueDecisionTyped ==
  ASSUME Shape, NEW c \in Clients, enqueueDecisionWhenReady(c)
  PROVE  /\ Shape' /\ OthersKept(c) /\ client[c].pc = "enqueueDecision"
         /\ \/ /\ DecisionReady(1, link) /\ client'[c].pc = "writeDecision"
               /\ client'[c].version = client[c].version
            \/ ~DecisionReady(1, link) /\ client'[c] = NoCall
         /\ UNCHANGED <<row, link, app, consents, worker, review, lender, lost>>
<1> DEFINE ready == DecisionReady(1, link)
           u == [client[c] EXCEPT !.pc = "writeDecision", !.link = link]
           r == IF ready THEN u ELSE NoCall
<1>1. u \in Requests /\ u.pc = "writeDecision" /\ u.version = client[c].version
  BY DEF Shape, Requests, ClientPlaces
<1>2. client' = [client EXCEPT ![c] = r]
  BY DEF enqueueDecisionWhenReady
<1> HIDE DEF u, ready
<1>3. /\ r \in Requests
      /\ \/ ready /\ r.pc = "writeDecision" /\ r.version = client[c].version
         \/ ~ready /\ r = NoCall
  BY <1>1, Constants
<1> HIDE DEF r
<1>4. QED
  BY <1>2, <1>3, ClientPuts DEF enqueueDecisionWhenReady, Shape, ready

LEMMA CommitRequestTyped ==
  ASSUME Shape, NEW c \in Clients, commitDecisionRequest(c)
  PROVE  /\ Shape' /\ OthersKept(c) /\ client[c].pc = "writeDecision" /\ client'[c] = NoCall
         /\ client[c].link \in Links /\ writeDecision(1, client[c].link)
         /\ UNCHANGED <<app, consents, worker, review, lender, lost>>
<1>1. client[c].link \in Links
  BY DEF Shape, Requests
<1>2. /\ client[c].pc = "writeDecision" /\ writeDecision(1, client[c].link)
      /\ client' = [client EXCEPT ![c] = NoCall]
      /\ UNCHANGED <<app, profile, consents, worker, review, lender, lost>>
  BY DEF commitDecisionRequest
<1>3. row' \in [Keys -> RowStatus] /\ link' \in Links
  BY <1>1, <1>2, LinkAfterDecision
<1>4. QED
  BY <1>1, <1>2, <1>3, ClientPuts, Constants DEF Shape

LEMMA SelectTyped ==
  ASSUME Shape, NEW c \in Clients, NEW offer \in Offers, selectPreApprovalOffer(c, offer)
  PROVE  /\ Shape' /\ OthersKept(c) /\ client[c].pc = "idle" /\ app.status = "LENDER_PRE_APPROVED"
         /\ client'[c].pc = "writeOffer" /\ client'[c].version = client[c].version
         /\ UNCHANGED <<row, link, app, consents, worker, review, lender, lost>>
<1> DEFINE r == [client[c] EXCEPT !.pc = "writeOffer", !.offer = offer]
<1>1. r \in Requests /\ r.pc = "writeOffer" /\ r.version = client[c].version
  BY DEF Shape, Requests, ClientPlaces, OfferOrNone
<1>2. client' = [client EXCEPT ![c] = r]
  BY DEF selectPreApprovalOffer
<1> HIDE DEF r
<1>3. QED
  BY <1>1, <1>2, ClientPuts DEF selectPreApprovalOffer, CanCall, Shape

LEMMA WriteOfferTyped ==
  ASSUME Shape, NEW c \in Clients, writeOffer(c)
  PROVE  /\ Shape' /\ OthersKept(c) /\ client[c].pc = "writeOffer" /\ app'.status = app.status
         /\ client'[c].pc = "enqueueUpdate" /\ client'[c].version = 2
         /\ UNCHANGED <<row, link, consents, worker, review, lender, lost>>
<1> DEFINE r == [client[c] EXCEPT !.pc = "enqueueUpdate", !.version = 2]
           a == [app EXCEPT !.offer = client[c].offer]
<1>1. r \in Requests /\ r.pc = "enqueueUpdate" /\ r.version = 2
  BY Constants DEF Shape, Requests, ClientPlaces
<1>2. a \in [status : AppStatus, offer : OfferOrNone] /\ a.status = app.status
  BY DEF Shape, Requests
<1>3. client' = [client EXCEPT ![c] = r] /\ app' = a
  BY DEF writeOffer
<1> HIDE DEF r, a
<1>4. QED
  BY <1>1, <1>2, <1>3, ClientPuts DEF writeOffer, Shape

\* The webhook and the review move the status; neither touches the update column.
LEMMA WebhookTyped ==
  ASSUME Shape, processLenderRejectionWebhook
  PROVE  /\ Shape' /\ app'.status = "LENDER_REJECTED"
         /\ link'.update = link.update /\ link'.updateVersion = link.updateVersion
         /\ link'.decisionVersion = link.decisionVersion /\ link'.asked = link.asked
         /\ UNCHANGED <<row, consents, worker, client, review, lender, lost>>
<1> DEFINE m == [link EXCEPT !.decision = "COMPLETED"]
           a == [app EXCEPT !.status = "LENDER_REJECTED"]
<1>1. /\ m \in Links /\ m.update = link.update /\ m.updateVersion = link.updateVersion
      /\ m.decisionVersion = link.decisionVersion /\ m.asked = link.asked
  BY DEF Shape, Links, Column
<1>2. a \in [status : AppStatus, offer : OfferOrNone] /\ a.status = "LENDER_REJECTED"
  BY DEF Shape, AppStatus
<1>3. link' \in {link, m} /\ app' = a
  BY DEF processLenderRejectionWebhook
<1> HIDE DEF m, a
<1>4. QED
  BY <1>1, <1>2, <1>3 DEF processLenderRejectionWebhook, Shape

LEMMA ReviewTyped ==
  ASSUME Shape, NEW decision \in {"approve", "reject"}, startReview(decision)
  PROVE  /\ Shape' /\ app.status = "PENDING_CREDIT_REVIEW"
         /\ UNCHANGED <<row, link, app, consents, worker, client, lender, lost>>
  BY DEF startReview, Shape

LEMMA ReviewedTyped ==
  ASSUME Shape, commitApprove \/ commitReject
  PROVE  /\ Shape' /\ review' = "idle"
         /\ \/ review = "approve" /\ app'.status = "LENDER_APPROVED"
            \/ app'.status = "LENDER_REJECTED"
         /\ UNCHANGED <<row, link, consents, worker, client, lender, lost>>
<1> DEFINE a == [app EXCEPT !.status = "LENDER_APPROVED"]
           b == [app EXCEPT !.status = "LENDER_REJECTED"]
<1>1. /\ a \in [status : AppStatus, offer : OfferOrNone] /\ a.status = "LENDER_APPROVED"
      /\ b \in [status : AppStatus, offer : OfferOrNone] /\ b.status = "LENDER_REJECTED"
  BY DEF Shape, AppStatus
<1>2. (review = "approve" /\ app' = a) \/ app' = b
  BY DEF commitApprove, commitReject
<1> HIDE DEF a, b
<1>3. QED
  BY <1>1, <1>2 DEF commitApprove, commitReject, Shape

-------------------------------------------------------------------------------
(* The invariant.                                                           *)

\* What a column says of the lender: an update that a reader of the link finds done was
\* taken by the lender, at the version the link shows or at a later one.
Delivered ==
  /\ link.update \in Done => lender.update >= link.updateVersion
  /\ worker.link.update \in Done => lender.update >= worker.link.updateVersion
  /\ worker.pc = "answered" /\ worker.key[1] = "UPDATE" => lender.update >= worker.key[2]

FirstAsked == row[<<"DECISION", 1>>] # "absent"
FinalAsked == row[<<"DECISION", 2>>] # "absent"

\* What a row presupposes: the offer's update follows the first decision, the later ones
\* the final decision, and a decision the consents.
RowsBacked ==
  /\ FinalAsked => FirstAsked
  /\ FirstAsked => consents
  /\ \A v \in Versions :
       row[<<"UPDATE", v>>] # "absent" => (v >= 2 => FirstAsked) /\ (v >= 3 => FinalAsked)
  /\ \A n \in 1..MaxPolls : row[<<"STATUS", n>>] # "absent" => FirstAsked

LinkBacked ==
  /\ link.asked => FirstAsked
  /\ link.decisionVersion >= 2 => FinalAsked
  /\ worker.link.asked => FirstAsked
  /\ worker.link.decisionVersion >= 2 => FinalAsked

Following == worker.pc \in {"followUp", "followWrite"} /\ worker.key[1] = "UPDATE"

WorkerBacked ==
  /\ worker.pc # "idle" => row[worker.key] # "absent"
  /\ worker.pc = "deciding" => worker.key[1] \in {"DECISION", "STATUS"}
  /\ Following => worker.key[2] <= 2
  /\ Following /\ worker.pc = "followWrite" => consents
  /\ Following /\ link.update \in Done => link.updateVersion = worker.key[2]

StatusBacked ==
  /\ app.status = "LENDER_PRE_APPROVED" => FirstAsked
  /\ app.status \in {"PENDING_CREDIT_REVIEW", "LENDER_APPROVED"} => FinalAsked
  /\ review # "idle" => FinalAsked

ClientBacked ==
  \A c \in Clients :
    /\ client[c].pc = "writeOffer" \/ client[c].version >= 2 => FirstAsked
    /\ client[c].version >= 3 => FinalAsked
    /\ client[c].pc = "writeDecision" => consents

\* Requests of the customer that will still look whether a decision is due.
Submitting(c) == client[c].pc \in {"enqueueConsents", "enqueueDecision", "writeDecision"}

\* A decision that is due and not requested has somebody at work on it.
DecisionOwed ==
  /\ consents /\ link.update \in Done /\ ~FirstAsked =>
       lost \/ Following \/ \E c \in Clients : Submitting(c)
  /\ link.update \in Done /\ link.updateVersion >= 2 /\ ~FinalAsked =>
       lost \/ (Following /\ worker.key[2] = 2)

PipelineInv ==
  /\ Shape /\ Delivered /\ NoUpdateSkipped
  /\ RowsBacked /\ LinkBacked /\ WorkerBacked /\ StatusBacked /\ ClientBacked /\ DecisionOwed

-------------------------------------------------------------------------------
(* What a step leaves in place.                                             *)

\* Rows stay, and consents are not taken back.
Grows ==
  /\ \A j \in Keys : row[j] # "absent" => row'[j] # "absent"
  /\ FirstAsked => FirstAsked'
  /\ FinalAsked => FinalAsked'
  /\ consents => consents'

\* At most one row is added, and what it presupposes is there.
LEMMA Growing ==
  ASSUME RowsBacked, NEW k \in Keys, row'[k] # "absent",
         \A j \in Keys : j # k => (row'[j] = "absent" <=> row[j] = "absent"),
         consents => consents',
         row[k] # "absent"
           \/ /\ k[1] = "UPDATE" => (k[2] >= 2 => FirstAsked) /\ (k[2] >= 3 => FinalAsked)
              /\ k[1] = "DECISION" => consents' /\ (k[2] = 2 => FirstAsked)
              /\ k[1] = "STATUS" => FirstAsked
  PROVE  Grows /\ RowsBacked'
<1>1. \A j \in Keys : row[j] # "absent" => row'[j] # "absent"
  OBVIOUS
<1>2. (FirstAsked => FirstAsked') /\ (FinalAsked => FinalAsked')
  BY <1>1, KeysThere DEF FirstAsked, FinalAsked
<1>3. Grows
  BY <1>1, <1>2 DEF Grows
<1>4. FinalAsked' => FirstAsked'
  <2>1. CASE k = <<"DECISION", 2>> /\ row[k] = "absent"
    BY <1>2, <2>1
  <2>2. CASE ~(k = <<"DECISION", 2>> /\ row[k] = "absent")
    <3>1. FinalAsked' => FinalAsked
      BY <2>2, KeysThere DEF FinalAsked
    <3>2. QED
      BY <1>2, <3>1 DEF RowsBacked
  <2>3. QED
    BY <2>1, <2>2
<1>5. FirstAsked' => consents'
  <2>1. CASE k = <<"DECISION", 1>> /\ row[k] = "absent"
    BY <2>1
  <2>2. CASE ~(k = <<"DECISION", 1>> /\ row[k] = "absent")
    <3>1. FirstAsked' => FirstAsked
      BY <2>2, KeysThere DEF FirstAsked
    <3>2. QED
      BY <3>1 DEF RowsBacked
  <2>3. QED
    BY <2>1, <2>2
<1>6. ASSUME NEW v \in Versions, row'[<<"UPDATE", v>>] # "absent"
      PROVE  (v >= 2 => FirstAsked') /\ (v >= 3 => FinalAsked')
  <2>1. <<"UPDATE", v>> \in Keys /\ <<"UPDATE", v>>[1] = "UPDATE" /\ <<"UPDATE", v>>[2] = v
    BY KeysThere
  <2>2. CASE row[<<"UPDATE", v>>] # "absent"
    BY <1>2, <2>2 DEF RowsBacked
  <2>3. CASE row[<<"UPDATE", v>>] = "absent"
    BY <1>2, <1>6, <2>1, <2>3
  <2>4. QED
    BY <2>2, <2>3
<1>7. ASSUME NEW n \in 1..MaxPolls, row'[<<"STATUS", n>>] # "absent"
      PROVE  FirstAsked'
  <2>1. <<"STATUS", n>> \in Keys /\ <<"STATUS", n>>[1] = "STATUS"
    BY KeysThere
  <2>2. QED
    BY <1>2, <1>7, <2>1 DEF RowsBacked
<1>8. QED
  BY <1>3, <1>4, <1>5, <1>6, <1>7 DEF RowsBacked

\* No row is added.
LEMMA RowsKept ==
  ASSUME RowsBacked, \A j \in Keys : row'[j] = "absent" <=> row[j] = "absent", consents => consents'
  PROVE  Grows /\ RowsBacked'
<1>1. (FirstAsked <=> FirstAsked') /\ (FinalAsked <=> FinalAsked')
  BY KeysThere DEF FirstAsked, FinalAsked
<1>2. Grows
  BY <1>1 DEF Grows
<1>3. QED
  BY <1>1, <1>2, KeysThere DEF RowsBacked

\* One row that exists changes its status.
LEMMA RowMoves ==
  ASSUME Shape, RowsBacked, NEW k \in Keys, row[k] # "absent", NEW st, st # "absent",
         row' = [row EXCEPT ![k] = st], consents => consents'
  PROVE  Grows /\ RowsBacked'
<1>1. \A j \in Keys : row'[j] = "absent" <=> row[j] = "absent"
  BY DEF Shape
<1>2. QED
  BY <1>1, RowsKept

\* Columns, versions and closed rows: what holds of the link holds of the copies the worker
\* takes of it.
LEMMA ColumnsHold ==
  ASSUME PipelineInv, Shape', Grows, lender' = lender \/ lender'.update >= lender.update,
         \A v \in Versions : row'[<<"UPDATE", v>>] = "COMPLETED" =>
           row[<<"UPDATE", v>>] = "COMPLETED" \/ lender'.update >= v,
         link'.update \in Done =>
           \/ link.update \in Done /\ link'.updateVersion = link.updateVersion
           \/ lender'.update >= link'.updateVersion,
         link'.asked => link.asked \/ FirstAsked',
         link'.decisionVersion >= 2 => link.decisionVersion >= 2 \/ FinalAsked',
         worker'.link \in {NewLink, worker.link, link'},
         worker'.pc = "answered" /\ worker'.key[1] = "UPDATE" => lender'.update >= worker'.key[2]
  PROVE  Delivered' /\ NoUpdateSkipped' /\ LinkBacked'
<1>1. /\ lender.update \in Nat /\ lender'.update \in Nat /\ Versions \subseteq Nat
      /\ link.updateVersion \in Nat /\ worker.link.updateVersion \in Nat
  <2>1. lender \in Lenders /\ lender' \in Lenders /\ link \in Links /\ worker \in Workers
    BY DEF PipelineInv, Shape
  <2>2. Versions \subseteq Nat
    BY Constants
  <2>3. link.updateVersion \in Versions /\ worker.link.updateVersion \in Versions
    BY <2>1 DEF Links, Workers
  <2>4. lender.update \in Nat /\ lender'.update \in Nat
    BY <2>1 DEF Lenders
  <2>5. QED
    BY <2>2, <2>3, <2>4
<1>2. NoUpdateSkipped'
  <2>1. SUFFICES ASSUME NEW v \in Versions, row'[<<"UPDATE", v>>] = "COMPLETED"
                 PROVE  lender'.update >= v
    BY DEF NoUpdateSkipped
  <2>2. row[<<"UPDATE", v>>] = "COMPLETED" => lender.update >= v
    BY DEF PipelineInv, NoUpdateSkipped
  <2>3. QED
    BY <1>1, <2>1, <2>2
<1>3. link'.update \in Done => lender'.update >= link'.updateVersion
  <2>1. link.update \in Done => lender.update >= link.updateVersion
    BY DEF PipelineInv, Delivered
  <2>2. link.update \in Done => lender'.update >= link.updateVersion
    BY <1>1, <2>1
  <2>3. QED
    BY <2>2
<1>4. worker'.link.update \in Done => lender'.update >= worker'.link.updateVersion
  <2>1. NewLink.update \notin Done
    BY DEF NewLink, Done
  <2>2. worker.link.update \in Done => lender.update >= worker.link.updateVersion
    BY DEF PipelineInv, Delivered
  <2>3. worker.link.update \in Done => lender'.update >= worker.link.updateVersion
    BY <1>1, <2>2
  <2>4. QED
    BY <1>3, <2>1, <2>3
<1>5. (link'.asked => FirstAsked') /\ (link'.decisionVersion >= 2 => FinalAsked')
  BY DEF PipelineInv, LinkBacked, Grows
<1>6. (worker'.link.asked => FirstAsked') /\ (worker'.link.decisionVersion >= 2 => FinalAsked')
  <2>1. NewLink.asked = FALSE /\ ~(NewLink.decisionVersion >= 2)
    BY DEF NewLink
  <2>2. (worker.link.asked => FirstAsked') /\ (worker.link.decisionVersion >= 2 => FinalAsked')
    BY DEF PipelineInv, LinkBacked, Grows
  <2>3. QED
    BY <1>5, <2>1, <2>2
<1>7. QED
  BY <1>2, <1>3, <1>4, <1>5, <1>6 DEF Delivered, LinkBacked

\* The customer's requests stay where they are.
LEMMA ClientsKept ==
  ASSUME ClientBacked, Grows, client' = client
  PROVE  ClientBacked'
  BY DEF ClientBacked, Grows

\* One request moves to a place its rows allow.
LEMMA ClientMoves ==
  ASSUME ClientBacked, Grows, NEW c \in Clients, OthersKept(c),
         client'[c].pc = "writeOffer" \/ client'[c].version >= 2 => FirstAsked',
         client'[c].version >= 3 => FinalAsked',
         client'[c].pc = "writeDecision" => consents'
  PROVE  ClientBacked'
<1>1. SUFFICES ASSUME NEW d \in Clients
               PROVE  /\ client'[d].pc = "writeOffer" \/ client'[d].version >= 2 => FirstAsked'
                      /\ client'[d].version >= 3 => FinalAsked'
                      /\ client'[d].pc = "writeDecision" => consents'
  BY DEF ClientBacked
<1>2. CASE d = c
  BY <1>2
<1>3. CASE d # c
  <2>1. client'[d] = client[d]
    BY <1>3 DEF OthersKept
  <2>2. QED
    BY <2>1 DEF ClientBacked, Grows
<1>4. QED
  BY <1>2, <1>3

LEMMA StatusKept ==
  ASSUME StatusBacked, Grows, app'.status = app.status, review' \in {review, "idle"}
  PROVE  StatusBacked'
  BY DEF StatusBacked, Grows

\* What is owed stays owed to somebody, when no update is newly done and nobody gives up.
LEMMA OwedKept ==
  ASSUME DecisionOwed, Grows, lost => lost', consents' = consents,
         link'.update \in Done => link.update \in Done /\ link'.updateVersion = link.updateVersion,
         Following => Following' /\ worker'.key = worker.key,
         \A c \in Clients : Submitting(c) =>
           client'[c].pc \in {"enqueueConsents", "enqueueDecision", "writeDecision"}
  PROVE  DecisionOwed'
<1>1. (\E c \in Clients : Submitting(c)) => (\E c \in Clients : Submitting(c))'
  BY DEF Submitting
<1>2. QED
  BY <1>1 DEF DecisionOwed, Grows

LEMMA SubmittingKept ==
  ASSUME client' = client
  PROVE  \A c \in Clients : Submitting(c) =>
           client'[c].pc \in {"enqueueConsents", "enqueueDecision", "writeDecision"}
  BY DEF Submitting

\* The worker is done with its event, or goes on with it before the follow-up.
LEMMA WorkerIdles ==
  ASSUME worker' = Idle
  PROVE  WorkerBacked' /\ worker'.link = NewLink /\ worker'.pc = "idle"
  BY Constants DEF WorkerBacked, Following

LEMMA WorkerAdvances ==
  ASSUME WorkerBacked, Grows, worker \in Workers, worker.pc # "idle", worker'.key = worker.key,
         worker'.pc \in {"calling", "answered", "retrying", "failing", "settleRetry", "settleFailed"}
  PROVE  WorkerBacked'
  BY DEF WorkerBacked, Grows, Following, Workers

-------------------------------------------------------------------------------
(* The worker's steps.                                                      *)

LEMMA LoadHolds ==
  ASSUME PipelineInv, NEW k \in Keys, loadEvent(k)
  PROVE  PipelineInv'
<1>1. /\ Shape' /\ row' = [row EXCEPT ![k] = "PROCESSING"] /\ row[k] \in {"PENDING", "RETRY_PENDING"}
      /\ link'.update = link.update /\ link'.updateVersion = link.updateVersion
      /\ link'.asked = link.asked /\ link'.decisionVersion = link.decisionVersion
      /\ worker'.pc = "loaded" /\ worker'.key = k /\ worker'.link = link'
  BY LoadTyped DEF PipelineInv
<1>2. /\ worker.pc = "idle"
      /\ UNCHANGED <<app, consents, client, review, lender, lost>>
  BY DEF loadEvent
<1>3. Grows /\ RowsBacked'
  BY <1>1, <1>2, RowMoves DEF PipelineInv
<1>4. \A v \in Versions : row'[<<"UPDATE", v>>] = "COMPLETED" => row[<<"UPDATE", v>>] = "COMPLETED"
  BY <1>1, KeysThere DEF PipelineInv, Shape
<1>5. Delivered' /\ NoUpdateSkipped' /\ LinkBacked'
  BY <1>1, <1>2, <1>3, <1>4, ColumnsHold
<1>6. WorkerBacked'
  BY <1>1, <1>3 DEF WorkerBacked, Following, PipelineInv, Shape
<1>7. StatusBacked' /\ ClientBacked'
  BY <1>2, <1>3, StatusKept, ClientsKept DEF PipelineInv
<1>8. DecisionOwed'
  BY <1>1, <1>2, <1>3, OwedKept, SubmittingKept DEF PipelineInv, Following
<1>9. QED
  BY <1>1, <1>3, <1>5, <1>6, <1>7, <1>8 DEF PipelineInv

\* The early return closes an update only when the link it read shows that version done.
LEMMA ReturnHolds ==
  ASSUME PipelineInv, returnFalse
  PROVE  PipelineInv'
<1>1. Shape' /\ row' = [row EXCEPT ![worker.key] = "COMPLETED"] /\ worker' = Idle
  BY ReturnTyped DEF PipelineInv
<1>2. /\ worker.pc = "loaded" /\ AlreadyDone(worker.key, worker.link)
      /\ UNCHANGED <<link, app, consents, client, review, lender, lost>>
  BY DEF returnFalse
<1>3. worker.key \in Keys /\ row[worker.key] # "absent" /\ row \in [Keys -> RowStatus]
  BY <1>2 DEF PipelineInv, WorkerBacked, Shape, Workers
<1>4. Grows /\ RowsBacked'
  BY <1>1, <1>2, <1>3, RowMoves DEF PipelineInv
<1>5. ASSUME NEW v \in Versions, row'[<<"UPDATE", v>>] = "COMPLETED"
      PROVE  row[<<"UPDATE", v>>] = "COMPLETED" \/ lender'.update >= v
  <2>1. CASE worker.key = <<"UPDATE", v>>
    <3>1. worker.key[1] = "UPDATE" /\ worker.key[2] = v
      BY <2>1
    <3>2. worker.link.update \in Done /\ worker.link.updateVersion >= v
      BY <1>2, <3>1 DEF AlreadyDone
    <3>3. lender'.update >= worker.link.updateVersion
      BY <1>2, <3>2 DEF PipelineInv, Delivered
    <3>4. lender' \in Lenders /\ worker.link.updateVersion \in 1..4 /\ v \in 1..4
      BY <1>1, Constants DEF PipelineInv, Shape, Workers, Links
    <3>5. lender'.update \in Nat /\ worker.link.updateVersion \in Nat /\ v \in Nat
      BY <3>4 DEF Lenders
    <3>6. QED
      BY <3>2, <3>3, <3>5
  <2>2. CASE worker.key # <<"UPDATE", v>>
    BY <1>1, <1>3, <1>5, <2>2, KeysThere
  <2>3. QED
    BY <2>1, <2>2
<1>6. WorkerBacked' /\ worker'.link = NewLink /\ worker'.pc = "idle"
  BY <1>1, WorkerIdles
<1>7. Delivered' /\ NoUpdateSkipped' /\ LinkBacked'
  BY <1>1, <1>2, <1>4, <1>5, <1>6, ColumnsHold
<1>8. StatusBacked' /\ ClientBacked'
  BY <1>2, <1>4, StatusKept, ClientsKept DEF PipelineInv
<1>9. DecisionOwed'
  BY <1>2, <1>4, OwedKept, SubmittingKept DEF PipelineInv, Following
<1>10. QED
  BY <1>1, <1>4, <1>6, <1>7, <1>8, <1>9 DEF PipelineInv

\* Steps between the load and the answer that leave the rows alone.
LEMMA InFlightHolds ==
  ASSUME PipelineInv, Shape', UNCHANGED <<row, app, consents, client, review, lost>>,
         worker.pc \in {"loaded", "calling", "retrying", "failing"},
         worker'.pc \in {"calling", "answered", "retrying", "failing", "settleRetry", "settleFailed"},
         worker'.key = worker.key, worker'.link = worker.link,
         lender' = lender \/ lender'.update >= lender.update,
         link'.update \in Done => link.update \in Done /\ link'.updateVersion = link.updateVersion,
         link'.asked => link.asked \/ FirstAsked', link'.decisionVersion = link.decisionVersion,
         worker'.pc = "answered" /\ worker'.key[1] = "UPDATE" => lender'.update >= worker'.key[2]
  PROVE  PipelineInv'
<1>1. Grows /\ RowsBacked'
  BY RowsKept DEF PipelineInv
<1>2. Delivered' /\ NoUpdateSkipped' /\ LinkBacked'
  BY <1>1, ColumnsHold
<1>3. WorkerBacked'
  BY <1>1, WorkerAdvances DEF PipelineInv, Shape
<1>4. StatusBacked' /\ ClientBacked'
  BY <1>1, StatusKept, ClientsKept DEF PipelineInv
<1>5. DecisionOwed'
  BY <1>1, OwedKept, SubmittingKept DEF PipelineInv, Following
<1>6. QED
  BY <1>1, <1>2, <1>3, <1>4, <1>5 DEF PipelineInv

LEMMA RefuseHolds ==
  ASSUME PipelineInv, refuse
  PROVE  PipelineInv'
  BY RefuseTyped, InFlightHolds DEF PipelineInv

LEMMA CallHolds ==
  ASSUME PipelineInv, callLender
  PROVE  PipelineInv'
<1>1. /\ Shape' /\ worker.pc = "loaded" /\ worker'.pc = "calling" /\ worker'.key = worker.key
      /\ worker'.link = worker.link /\ UNCHANGED <<row, app, consents, client, review, lender, lost>>
      /\ link'.update \in {link.update, "PROCESSING"} /\ link'.updateVersion = link.updateVersion
      /\ link'.decisionVersion = link.decisionVersion
      /\ link'.asked = link.asked \/ worker.key[1] = "DECISION"
  BY CallTyped DEF PipelineInv
<1>2. worker.key[1] = "DECISION" => FirstAsked'
  <2>1. worker.key \in Keys /\ row[worker.key] # "absent"
    BY <1>1 DEF PipelineInv, WorkerBacked, Shape, Workers
  <2>2. worker.key[1] = "DECISION" =>
          worker.key = <<"DECISION", 1>> \/ worker.key = <<"DECISION", 2>>
    BY <2>1, KeyForms
  <2>3. worker.key[1] = "DECISION" => FirstAsked
    BY <2>1, <2>2 DEF PipelineInv, RowsBacked, FirstAsked, FinalAsked
  <2>4. QED
    BY <1>1, <2>3 DEF FirstAsked
<1>3. link'.update \in Done => link.update \in Done
  BY <1>1 DEF Done
<1>4. QED
  BY <1>1, <1>2, <1>3, InFlightHolds

LEMMA AnswerHolds ==
  ASSUME PipelineInv, NEW verdict \in Verdicts, lenderAnswers(verdict)
  PROVE  PipelineInv'
<1>1. /\ Shape' /\ worker.pc = "calling" /\ worker'.pc = "answered"
      /\ worker'.key = worker.key /\ worker'.link = worker.link
      /\ lender' = Received(worker.key) /\ UNCHANGED <<row, link, app, consents, client, review, lost>>
  BY AnswerTyped DEF PipelineInv
<1>2. /\ lender'.update >= lender.update
      /\ worker.key[1] = "UPDATE" => lender'.update >= worker.key[2]
  BY <1>1, ReceivedTyped DEF PipelineInv, Shape, Workers
<1>3. QED
  BY <1>1, <1>2, InFlightHolds

LEMMA FailHolds ==
  ASSUME PipelineInv, NEW retrying \in BOOLEAN, lenderFails(retrying)
  PROVE  PipelineInv'
<1>1. /\ Shape' /\ worker.pc = "calling" /\ worker'.pc \in {"retrying", "failing"}
      /\ worker'.key = worker.key /\ worker'.link = worker.link
      /\ lender' \in {lender, Received(worker.key)}
      /\ UNCHANGED <<row, link, app, consents, client, review, lost>>
  BY FailTyped DEF PipelineInv
<1>2. lender' = lender \/ lender'.update >= lender.update
  BY <1>1, ReceivedTyped DEF PipelineInv, Shape, Workers
<1>3. QED
  BY <1>1, <1>2, InFlightHolds

LEMMA MarkHolds ==
  ASSUME PipelineInv, markStageFailure
  PROVE  PipelineInv'
<1>1. /\ Shape' /\ worker.pc \in {"retrying", "failing"} /\ worker'.pc \in {"settleRetry", "settleFailed"}
      /\ worker'.key = worker.key /\ worker'.link = worker.link
      /\ link'.update \in {link.update, "RETRY_PENDING", "FAILED"}
      /\ link'.updateVersion = link.updateVersion
      /\ link'.decisionVersion = link.decisionVersion /\ link'.asked = link.asked
      /\ UNCHANGED <<row, app, consents, client, review, lender, lost>>
  BY MarkTyped DEF PipelineInv
<1>2. link'.update \in Done => link.update \in Done
  BY <1>1 DEF Done
<1>3. QED
  BY <1>1, <1>2, InFlightHolds

\* The completion of CREATE and of a consent.
LEMMA CreateHolds ==
  ASSUME PipelineInv, completeCreate
  PROVE  PipelineInv'
<1> DEFINE rows == [row EXCEPT ![worker.key] = "COMPLETED"]
           k == <<"CONSENT", 1>>
<1>1. /\ Shape' /\ worker.pc = "answered" /\ worker.key[1] = "CREATE" /\ worker'.pc = "followUp"
      /\ worker'.key = worker.key /\ worker'.link = worker.link
      /\ row' = Upsert(rows, k)
      /\ link'.update = link.update /\ link'.updateVersion = link.updateVersion
      /\ link'.decisionVersion = link.decisionVersion /\ link'.asked = link.asked
      /\ UNCHANGED <<app, consents, client, review, lender, lost>>
  BY CreateTyped DEF PipelineInv
<1>2. worker.key \in Keys /\ row[worker.key] # "absent" /\ row \in [Keys -> RowStatus]
  BY <1>1 DEF PipelineInv, WorkerBacked, Shape, Workers
<1>3. /\ rows \in [Keys -> RowStatus] /\ \A j \in Keys : rows[j] = "absent" <=> row[j] = "absent"
      /\ \A j \in Keys : j[1] = "UPDATE" => rows[j] = row[j]
  BY <1>1, <1>2 DEF RowStatus
<1> HIDE DEF rows
<1>4. k \in Keys /\ k[1] = "CONSENT"
  BY KeysThere
<1> HIDE DEF k
<1>5. /\ row'[k] # "absent" /\ \A j \in Keys : j # k => row'[j] = rows[j]
      /\ \A j \in Keys : row'[j] \in {rows[j], "PENDING"}
  BY <1>1, <1>3, <1>4, UpsertAdds
<1>6. Grows /\ RowsBacked'
  BY <1>1, <1>3, <1>4, <1>5, Growing DEF PipelineInv
<1>7. \A v \in Versions : row'[<<"UPDATE", v>>] = "COMPLETED" => row[<<"UPDATE", v>>] = "COMPLETED"
  <2>1. \A v \in Versions : <<"UPDATE", v>> \in Keys /\ <<"UPDATE", v>>[1] = "UPDATE"
    BY KeysThere
  <2>2. QED
    BY <2>1, <1>3, <1>5
<1>8. Delivered' /\ NoUpdateSkipped' /\ LinkBacked'
  BY <1>1, <1>6, <1>7, ColumnsHold
<1>9. WorkerBacked'
  BY <1>1, <1>2, <1>6 DEF WorkerBacked, Following, Grows
<1>10. StatusBacked' /\ ClientBacked'
  BY <1>1, <1>6, StatusKept, ClientsKept DEF PipelineInv
<1>11. DecisionOwed'
  BY <1>1, <1>6, OwedKept, SubmittingKept DEF PipelineInv, Following
<1>12. QED
  BY <1>1, <1>6, <1>8, <1>9, <1>10, <1>11 DEF PipelineInv

LEMMA ConsentHolds ==
  ASSUME PipelineInv, completeConsent
  PROVE  PipelineInv'
<1>1. /\ Shape' /\ worker.pc = "answered" /\ worker.key[1] \in {"CONSENT", "OTHER_CONSENT"}
      /\ worker'.pc = "followUp" /\ worker'.key = worker.key /\ worker'.link = worker.link
      /\ row' = [row EXCEPT ![worker.key] = "COMPLETED"]
      /\ link'.update = link.update /\ link'.updateVersion = link.updateVersion
      /\ link'.decisionVersion = link.decisionVersion /\ link'.asked = link.asked
      /\ UNCHANGED <<app, consents, client, review, lender, lost>>
  BY ConsentTyped DEF PipelineInv
<1>2. worker.key \in Keys /\ row[worker.key] # "absent" /\ row \in [Keys -> RowStatus]
  BY <1>1 DEF PipelineInv, WorkerBacked, Shape, Workers
<1>3. Grows /\ RowsBacked'
  BY <1>1, <1>2, RowMoves DEF PipelineInv
<1>4. \A v \in Versions : row'[<<"UPDATE", v>>] = row[<<"UPDATE", v>>]
  <2>1. ASSUME NEW v \in Versions
        PROVE  row'[<<"UPDATE", v>>] = row[<<"UPDATE", v>>]
    <3>1. <<"UPDATE", v>> \in Keys /\ <<"UPDATE", v>>[1] = "UPDATE"
      BY KeysThere
    <3>2. <<"UPDATE", v>> # worker.key
      BY <1>1, <3>1
    <3>3. QED
      BY <1>1, <1>2, <3>1, <3>2
  <2>2. QED
    BY <2>1
<1>5. Delivered' /\ NoUpdateSkipped' /\ LinkBacked'
  BY <1>1, <1>3, <1>4, ColumnsHold
<1>6. WorkerBacked'
  BY <1>1, <1>2, <1>3 DEF WorkerBacked, Following, Grows
<1>7. StatusBacked' /\ ClientBacked'
  BY <1>1, <1>3, StatusKept, ClientsKept DEF PipelineInv
<1>8. DecisionOwed'
  BY <1>1, <1>3, OwedKept, SubmittingKept DEF PipelineInv, Following
<1>9. QED
  BY <1>1, <1>3, <1>5, <1>6, <1>7, <1>8 DEF PipelineInv

\* A completed update is owed a decision, unless one was requested before.
LEMMA UpdateHolds ==
  ASSUME PipelineInv, completeUpdate
  PROVE  PipelineInv'
<1> DEFINE v == worker.key[2]
<1>1. /\ Shape' /\ worker.pc = "answered" /\ worker.key[1] = "UPDATE"
      /\ row' = [row EXCEPT ![worker.key] = "COMPLETED"]
      /\ link'.update = "COMPLETED" /\ link'.updateVersion = v
      /\ link'.decisionVersion = link.decisionVersion /\ link'.asked = link.asked
      /\ \/ v <= 2 /\ worker'.pc = "followUp" /\ worker'.key = worker.key /\ worker'.link = worker.link
         \/ /\ v > 2 \/ (worker.link.asked /\ worker.link.decisionVersion >= v)
            /\ worker' = Idle
      /\ UNCHANGED <<app, consents, client, review, lender, lost>>
  BY UpdateTyped DEF PipelineInv
<1>2. worker.key \in Keys /\ row[worker.key] # "absent" /\ row \in [Keys -> RowStatus]
  BY <1>1 DEF PipelineInv, WorkerBacked, Shape, Workers
<1>3. worker.key = <<"UPDATE", v>> /\ v \in Versions /\ v \in {1, 2, 3, 4}
  BY <1>1, <1>2, KeyForms, Constants
<1>4. lender.update >= v /\ lender' = lender
  BY <1>1 DEF PipelineInv, Delivered
<1> HIDE DEF v
<1>5. Grows /\ RowsBacked'
  BY <1>1, <1>2, RowMoves DEF PipelineInv
<1>6. ASSUME NEW u \in Versions, row'[<<"UPDATE", u>>] = "COMPLETED"
      PROVE  row[<<"UPDATE", u>>] = "COMPLETED" \/ lender'.update >= u
  <2>1. CASE u = v
    BY <1>4, <2>1
  <2>2. CASE u # v
    <3>1. <<"UPDATE", u>> \in Keys /\ <<"UPDATE", u>> # worker.key
      BY <1>3, <2>2, KeysThere
    <3>2. QED
      BY <1>1, <1>2, <1>6, <3>1
  <2>3. QED
    BY <2>1, <2>2
<1>7. worker'.link \in {NewLink, worker.link, link'} /\ worker'.pc # "answered"
  BY <1>1, Constants
<1>8. Delivered' /\ NoUpdateSkipped' /\ LinkBacked'
  BY <1>1, <1>4, <1>5, <1>6, <1>7, ColumnsHold
<1>9. WorkerBacked'
  <2>1. CASE worker' = Idle
    BY <2>1, WorkerIdles
  <2>2. CASE v <= 2 /\ worker'.pc = "followUp" /\ worker'.key = worker.key
    BY <1>1, <1>2, <1>3, <1>5, <2>2 DEF WorkerBacked, Following, Grows, v
  <2>3. QED
    BY <1>1, <2>1, <2>2
<1>10. StatusBacked' /\ ClientBacked'
  BY <1>1, <1>5, StatusKept, ClientsKept DEF PipelineInv
<1>11. DecisionOwed'
  <2>1. CASE worker' = Idle
    <3>1. (v >= 2 => FirstAsked) /\ (v >= 3 => FinalAsked)
      BY <1>2, <1>3 DEF PipelineInv, RowsBacked
    <3>2. v <= 2 => worker.link.asked /\ worker.link.decisionVersion >= v
      <4>1. worker'.pc # "followUp"
        BY <2>1, Constants
      <4>2. QED
        BY <1>1, <1>3, <4>1
    <3>3. v = 1 => FirstAsked
      BY <3>2 DEF PipelineInv, LinkBacked
    <3>4. v = 2 => FinalAsked
      BY <3>2 DEF PipelineInv, LinkBacked
    <3>5. FirstAsked' /\ (v >= 2 => FinalAsked')
      BY <1>3, <1>5, <3>1, <3>3, <3>4 DEF Grows
    <3>6. QED
      BY <1>1, <3>5 DEF DecisionOwed
  <2>2. CASE v <= 2 /\ worker'.pc = "followUp" /\ worker'.key = worker.key
    <3>1. Following'
      BY <1>1, <2>2 DEF Following
    <3>2. v >= 2 => worker'.key[2] = 2
      BY <1>3, <2>2 DEF v
    <3>3. QED
      BY <1>1, <3>1, <3>2 DEF DecisionOwed
  <2>3. QED
    BY <1>1, <2>1, <2>2
<1>12. QED
  BY <1>1, <1>5, <1>8, <1>9, <1>10, <1>11 DEF PipelineInv

LEMMA ReadHolds ==
  ASSUME PipelineInv, readDecision
  PROVE  PipelineInv'
<1>1. /\ Shape' /\ worker.pc = "answered" /\ worker.key[1] \in {"DECISION", "STATUS"}
      /\ worker'.pc = "deciding" /\ worker'.key = worker.key /\ worker'.link = link
      /\ UNCHANGED <<row, link, app, consents, client, review, lender, lost>>
  BY ReadTyped DEF PipelineInv
<1>2. Grows /\ RowsBacked'
  BY <1>1, RowsKept DEF PipelineInv
<1>3. Delivered' /\ NoUpdateSkipped' /\ LinkBacked'
  BY <1>1, <1>2, ColumnsHold
<1>4. WorkerBacked'
  BY <1>1, <1>2 DEF WorkerBacked, Following, Grows, PipelineInv
<1>5. StatusBacked' /\ ClientBacked'
  BY <1>1, <1>2, StatusKept, ClientsKept DEF PipelineInv
<1>6. DecisionOwed'
  BY <1>1, <1>2, OwedKept, SubmittingKept DEF PipelineInv, Following
<1>7. QED
  BY <1>1, <1>2, <1>3, <1>4, <1>5, <1>6 DEF PipelineInv

\* A verdict moves the status no further than the request that is behind it.
LEMMA CommitHolds ==
  ASSUME PipelineInv, commitDecision
  PROVE  PipelineInv'
<1> DEFINE rows == [row EXCEPT ![worker.key] = "COMPLETED"]
<1>1. /\ Shape' /\ worker.pc = "deciding" /\ worker' = Idle
      /\ \/ row' = rows
         \/ \E n \in 1..MaxPolls : row' = Upsert(rows, <<"STATUS", n>>)
      /\ link'.update = link.update /\ link'.updateVersion = link.updateVersion
      /\ link'.decisionVersion = link.decisionVersion /\ link'.asked = link.asked
      /\ \/ app'.status = app.status
         \/ app'.status \in {"LENDER_REJECTED", "LENDER_REVIEW", "LENDER_PRE_APPROVED"}
         \/ app'.status = "PENDING_CREDIT_REVIEW" /\ worker.link.decisionVersion >= 2
      /\ UNCHANGED <<consents, client, review, lender, lost>>
  BY CommitTyped DEF PipelineInv
<1>2. /\ worker.key \in Keys /\ worker.key[1] \in {"DECISION", "STATUS"}
      /\ row[worker.key] # "absent" /\ row \in [Keys -> RowStatus]
  BY <1>1 DEF PipelineInv, WorkerBacked, Shape, Workers
<1>3. FirstAsked
  <2>1. CASE worker.key[1] = "STATUS"
    <3>1. worker.key = <<"STATUS", worker.key[2]>> /\ worker.key[2] \in 1..MaxPolls
      BY <1>2, <2>1, KeyForms
    <3>2. QED
      BY <1>2, <3>1 DEF PipelineInv, RowsBacked
  <2>2. CASE worker.key[1] = "DECISION"
    <3>1. worker.key = <<"DECISION", 1>> \/ worker.key = <<"DECISION", 2>>
      BY <1>2, <2>2, KeyForms
    <3>2. QED
      BY <1>2, <3>1 DEF PipelineInv, RowsBacked, FirstAsked, FinalAsked
  <2>3. QED
    BY <1>2, <2>1, <2>2
<1>4. /\ rows \in [Keys -> RowStatus] /\ \A j \in Keys : rows[j] = "absent" <=> row[j] = "absent"
      /\ \A j \in Keys : j[1] = "UPDATE" => rows[j] = row[j]
  BY <1>2 DEF RowStatus
<1> HIDE DEF rows
<1>5. /\ Grows /\ RowsBacked'
      /\ \A j \in Keys : row'[j] \in {rows[j], "PENDING"}
  <2>1. CASE row' = rows
    BY <1>1, <1>4, <2>1, RowsKept DEF PipelineInv
  <2>2. ASSUME NEW n \in 1..MaxPolls, row' = Upsert(rows, <<"STATUS", n>>)
        PROVE  /\ Grows /\ RowsBacked'
               /\ \A j \in Keys : row'[j] \in {rows[j], "PENDING"}
    <3> DEFINE k == <<"STATUS", n>>
    <3>1. k \in Keys /\ k[1] = "STATUS"
      BY KeysThere
    <3>2. row' = Upsert(rows, k)
      BY <2>2
    <3> HIDE DEF k
    <3>3. /\ row'[k] # "absent" /\ \A j \in Keys : j # k => row'[j] = rows[j]
          /\ \A j \in Keys : row'[j] \in {rows[j], "PENDING"}
      BY <1>4, <3>1, <3>2, UpsertAdds
    <3>4. QED
      BY <1>1, <1>3, <1>4, <3>1, <3>3, Growing DEF PipelineInv
  <2>3. QED
    BY <1>1, <2>1, <2>2
<1>6. \A v \in Versions : row'[<<"UPDATE", v>>] = "COMPLETED" => row[<<"UPDATE", v>>] = "COMPLETED"
  <2>1. \A v \in Versions : <<"UPDATE", v>> \in Keys /\ <<"UPDATE", v>>[1] = "UPDATE"
    BY KeysThere
  <2>2. QED
    BY <2>1, <1>4, <1>5
<1>7. WorkerBacked' /\ worker'.link = NewLink /\ worker'.pc = "idle"
  BY <1>1, WorkerIdles
<1>8. Delivered' /\ NoUpdateSkipped' /\ LinkBacked'
  BY <1>1, <1>5, <1>6, <1>7, ColumnsHold
<1>9. StatusBacked'
  <2>1. worker.link.decisionVersion >= 2 => FinalAsked'
    BY <1>5 DEF PipelineInv, LinkBacked, Grows
  <2>2. QED
    BY <1>1, <1>3, <1>5, <2>1 DEF PipelineInv, StatusBacked, Grows
<1>10. ClientBacked'
  BY <1>1, <1>5, ClientsKept DEF PipelineInv
<1>11. DecisionOwed'
  BY <1>1, <1>5, OwedKept, SubmittingKept DEF PipelineInv, Following
<1>12. QED
  BY <1>1, <1>5, <1>7, <1>8, <1>9, <1>10, <1>11 DEF PipelineInv

LEMMA SettleHolds ==
  ASSUME PipelineInv, settleFailure
  PROVE  PipelineInv'
<1>1. /\ Shape' /\ worker.pc \in {"settleRetry", "settleFailed"} /\ worker' = Idle
      /\ \E st \in {"RETRY_PENDING", "FAILED"} : row' = [row EXCEPT ![worker.key] = st]
      /\ UNCHANGED <<link, app, consents, client, review, lender, lost>>
  BY SettleTyped DEF PipelineInv
<1>2. PICK st \in {"RETRY_PENDING", "FAILED"} : row' = [row EXCEPT ![worker.key] = st]
  BY <1>1
<1>3. worker.key \in Keys /\ row[worker.key] # "absent" /\ row \in [Keys -> RowStatus]
  BY <1>1 DEF PipelineInv, WorkerBacked, Shape, Workers
<1>4. Grows /\ RowsBacked'
  BY <1>1, <1>2, <1>3, RowMoves DEF PipelineInv
<1>5. \A v \in Versions : row'[<<"UPDATE", v>>] = "COMPLETED" => row[<<"UPDATE", v>>] = "COMPLETED"
  BY <1>2, <1>3, KeysThere
<1>6. WorkerBacked' /\ worker'.link = NewLink /\ worker'.pc = "idle"
  BY <1>1, WorkerIdles
<1>7. Delivered' /\ NoUpdateSkipped' /\ LinkBacked'
  BY <1>1, <1>4, <1>5, <1>6, ColumnsHold
<1>8. StatusBacked' /\ ClientBacked'
  BY <1>1, <1>4, StatusKept, ClientsKept DEF PipelineInv
<1>9. DecisionOwed'
  BY <1>1, <1>4, OwedKept, SubmittingKept DEF PipelineInv, Following
<1>10. QED
  BY <1>1, <1>4, <1>6, <1>7, <1>8, <1>9 DEF PipelineInv

\* The row of the other consents presupposes nothing.
LEMMA OtherConsentAdds ==
  ASSUME Shape, RowsBacked, consents' = consents,
         row' = row \/ row' = Upsert(row, <<"OTHER_CONSENT", 1>>)
  PROVE  /\ Grows /\ RowsBacked'
         /\ \A v \in Versions : row'[<<"UPDATE", v>>] = "COMPLETED" => row[<<"UPDATE", v>>] = "COMPLETED"
<1> DEFINE k == <<"OTHER_CONSENT", 1>>
<1>1. k \in Keys /\ k[1] = "OTHER_CONSENT" /\ row \in [Keys -> RowStatus]
  BY KeysThere DEF Shape
<1>2. row' = row \/ row' = Upsert(row, k)
  OBVIOUS
<1> HIDE DEF k
<1>3. CASE row' = row
  BY <1>3, RowsKept
<1>4. CASE row' = Upsert(row, k)
  <2>1. /\ row'[k] # "absent" /\ \A j \in Keys : j # k => row'[j] = row[j]
        /\ \A j \in Keys : row'[j] \in {row[j], "PENDING"}
    BY <1>1, <1>4, UpsertAdds
  <2>2. QED
    BY <1>1, <2>1, KeysThere, Growing
<1>5. QED
  BY <1>2, <1>3, <1>4

\* The follow-up of an update ends without a request only when none is due.
LEMMA FollowHolds ==
  ASSUME PipelineInv, followUp
  PROVE  PipelineInv'
<1>1. /\ Shape' /\ worker.pc = "followUp"
      /\ UNCHANGED <<link, app, consents, client, review, lender, lost>>
      /\ row' = row \/ row' = Upsert(row, <<"OTHER_CONSENT", 1>>)
      /\ \/ worker' = Idle
         \/ worker'.pc = "followWrite" /\ worker'.key = worker.key /\ worker'.link = link
      /\ worker.key[1] = "UPDATE" =>
           \/ worker' = Idle /\ ~DecisionReady(worker.key[2], link)
           \/ worker'.pc = "followWrite" /\ DecisionReady(worker.key[2], link)
  BY FollowTyped DEF PipelineInv
<1>2. /\ Grows /\ RowsBacked'
      /\ \A v \in Versions : row'[<<"UPDATE", v>>] = "COMPLETED" => row[<<"UPDATE", v>>] = "COMPLETED"
  BY <1>1, OtherConsentAdds DEF PipelineInv
<1>3. worker'.link \in {NewLink, worker.link, link'} /\ worker'.pc # "answered"
  BY <1>1, Constants
<1>4. Delivered' /\ NoUpdateSkipped' /\ LinkBacked'
  BY <1>1, <1>2, <1>3, ColumnsHold
<1>5. StatusBacked' /\ ClientBacked'
  BY <1>1, <1>2, StatusKept, ClientsKept DEF PipelineInv
<1>6. WorkerBacked' /\ DecisionOwed'
  <2>1. CASE worker' = Idle
    <3>1. WorkerBacked'
      BY <2>1, WorkerIdles
    <3>2. CASE worker.key[1] = "UPDATE" /\ link.update \in Done
      <4>1. link.updateVersion = worker.key[2] /\ worker.key[2] <= 2
        BY <1>1, <3>2 DEF PipelineInv, WorkerBacked, Following
      <4>2. worker'.pc # "followWrite"
        BY <2>1, Constants
      <4>3. ~DecisionReady(worker.key[2], link)
        BY <1>1, <3>2, <4>2
      <4>4. link.updateVersion \in Nat
        <5>1. link.updateVersion \in Versions
          BY DEF PipelineInv, Shape, Links
        <5>2. Versions \subseteq Nat
          BY Constants
        <5>3. QED
          BY <5>1, <5>2
      <4>5. ~consents
        BY <3>2, <4>1, <4>3, <4>4 DEF DecisionReady
      <4>6. worker.key \in Keys /\ row[worker.key] # "absent"
        BY <1>1 DEF PipelineInv, WorkerBacked, Shape, Workers
      <4>7. worker.key = <<"UPDATE", worker.key[2]>> /\ worker.key[2] \in Versions
        BY <3>2, <4>6, KeyForms
      <4>8. ~(link.updateVersion >= 2)
        BY <4>1, <4>5, <4>6, <4>7 DEF PipelineInv, RowsBacked
      <4>9. QED
        BY <1>1, <3>1, <4>5, <4>8 DEF DecisionOwed
    <3>3. CASE link.update \notin Done
      BY <1>1, <3>1, <3>3 DEF DecisionOwed
    <3>4. CASE worker.key[1] # "UPDATE"
      BY <1>1, <1>2, <3>1, <3>4, OwedKept, SubmittingKept DEF PipelineInv, Following
    <3>5. QED
      BY <3>2, <3>3, <3>4, <3>1
  <2>2. CASE worker'.pc = "followWrite" /\ worker'.key = worker.key
    <3>1. worker.key[1] = "UPDATE" => consents
      <4>1. worker' # Idle
        BY <2>2, Constants
      <4>2. QED
        BY <1>1, <4>1 DEF DecisionReady
    <3>2. WorkerBacked'
      BY <1>1, <1>2, <2>2, <3>1 DEF WorkerBacked, Following, Grows, PipelineInv, Shape, Workers
    <3>3. DecisionOwed'
      BY <1>1, <1>2, <2>2, OwedKept, SubmittingKept DEF PipelineInv, Following
    <3>4. QED
      BY <3>2, <3>3
  <2>3. QED
    BY <1>1, <2>1, <2>2
<1>7. QED
  BY <1>1, <1>2, <1>4, <1>5, <1>6 DEF PipelineInv

\* A crash between the completion and the write of a follow-up is what `lost' records.
LEMMA CrashHolds ==
  ASSUME PipelineInv, crash
  PROVE  PipelineInv'
<1>1. /\ Shape' /\ worker' = Idle /\ UNCHANGED <<row, link, app, consents, client, review, lender>>
      /\ lost \/ worker.pc \in {"followUp", "followWrite"} => lost'
  BY CrashTyped DEF PipelineInv
<1>2. Grows /\ RowsBacked'
  BY <1>1, RowsKept DEF PipelineInv
<1>3. WorkerBacked' /\ worker'.link = NewLink /\ worker'.pc = "idle"
  BY <1>1, WorkerIdles
<1>4. Delivered' /\ NoUpdateSkipped' /\ LinkBacked'
  BY <1>1, <1>2, <1>3, ColumnsHold
<1>5. StatusBacked' /\ ClientBacked'
  BY <1>1, <1>2, StatusKept, ClientsKept DEF PipelineInv
<1>6. DecisionOwed'
  <2>1. CASE Following
    <3>1. lost'
      BY <1>1, <2>1 DEF Following
    <3>2. QED
      BY <3>1 DEF DecisionOwed
  <2>2. CASE ~Following
    BY <1>1, <1>2, <2>2, OwedKept, SubmittingKept DEF PipelineInv
  <2>3. QED
    BY <2>1, <2>2
<1>7. QED
  BY <1>1, <1>2, <1>3, <1>4, <1>5, <1>6 DEF PipelineInv

LEMMA SweepHolds ==
  ASSUME PipelineInv, NEW k \in Keys, sweep(k)
  PROVE  PipelineInv'
<1>1. /\ Shape' /\ row[k] = "PROCESSING" /\ row' = [row EXCEPT ![k] = "RETRY_PENDING"]
      /\ UNCHANGED <<link, app, consents, worker, client, review, lender, lost>>
  BY SweepTyped DEF PipelineInv
<1>2. worker.pc = "idle"
  BY DEF sweep
<1>3. Grows /\ RowsBacked'
  BY <1>1, RowMoves DEF PipelineInv
<1>4. \A v \in Versions : row'[<<"UPDATE", v>>] = "COMPLETED" => row[<<"UPDATE", v>>] = "COMPLETED"
  BY <1>1, KeysThere DEF PipelineInv, Shape
<1>5. Delivered' /\ NoUpdateSkipped' /\ LinkBacked'
  BY <1>1, <1>2, <1>3, <1>4, ColumnsHold
<1>6. WorkerBacked'
  BY <1>1, <1>2 DEF WorkerBacked, Following
<1>7. StatusBacked' /\ ClientBacked'
  BY <1>1, <1>3, StatusKept, ClientsKept DEF PipelineInv
<1>8. DecisionOwed'
  BY <1>1, <1>2, <1>3, OwedKept, SubmittingKept DEF PipelineInv, Following
<1>9. QED
  BY <1>1, <1>3, <1>5, <1>6, <1>7, <1>8 DEF PipelineInv

\* What the worker knows of its event survives a step of somebody else that finds no
\* update newly done.
LEMMA WorkerKept ==
  ASSUME WorkerBacked, Grows, worker' = worker, worker \in Workers, consents => consents',
         link'.update \in Done => link.update \in Done /\ link'.updateVersion = link.updateVersion
  PROVE  WorkerBacked'
  BY DEF WorkerBacked, Grows, Following, Workers

LEMMA AnsweredKept ==
  ASSUME PipelineInv, worker' = worker, lender' = lender
  PROVE  worker'.pc = "answered" /\ worker'.key[1] = "UPDATE" => lender'.update >= worker'.key[2]
  BY DEF PipelineInv, Delivered

LEMMA ReplayHolds ==
  ASSUME PipelineInv, NEW k \in Keys, replayFailedEvent(k)
  PROVE  PipelineInv'
<1>1. /\ Shape' /\ row[k] \in {"FAILED", "RETRY_PENDING"} /\ row' = [row EXCEPT ![k] = "PENDING"]
      /\ link'.update \in {link.update, "PENDING"} /\ link'.updateVersion = link.updateVersion
      /\ link'.decisionVersion = link.decisionVersion /\ link'.asked = link.asked
      /\ UNCHANGED <<app, consents, worker, client, review, lender, lost>>
  BY ReplayTyped DEF PipelineInv
<1>2. link'.update \in Done => link.update \in Done /\ link'.updateVersion = link.updateVersion
  BY <1>1 DEF Done
<1>3. Grows /\ RowsBacked'
  BY <1>1, RowMoves DEF PipelineInv
<1>4. \A v \in Versions : row'[<<"UPDATE", v>>] = "COMPLETED" => row[<<"UPDATE", v>>] = "COMPLETED"
  BY <1>1, KeysThere DEF PipelineInv, Shape
<1>5. Delivered' /\ NoUpdateSkipped' /\ LinkBacked'
  BY <1>1, <1>2, <1>3, <1>4, AnsweredKept, ColumnsHold
<1>6. WorkerBacked'
  BY <1>1, <1>2, <1>3, WorkerKept DEF PipelineInv, Shape
<1>7. StatusBacked' /\ ClientBacked'
  BY <1>1, <1>3, StatusKept, ClientsKept DEF PipelineInv
<1>8. DecisionOwed'
  BY <1>1, <1>2, <1>3, OwedKept, SubmittingKept DEF PipelineInv, Following
<1>9. QED
  BY <1>1, <1>3, <1>5, <1>6, <1>7, <1>8 DEF PipelineInv

\* What queueing an update does: its row, and a column that is not done.
LEMMA UpdateQueued ==
  ASSUME PipelineInv, consents' = consents, NEW l \in Links, NEW v \in Versions, writeUpdate(v, l),
         v >= 2 => FirstAsked, v >= 3 => FinalAsked
  PROVE  /\ Grows /\ RowsBacked'
         /\ \A u \in Versions : row'[<<"UPDATE", u>>] = "COMPLETED" => row[<<"UPDATE", u>>] = "COMPLETED"
         /\ link'.update \in Done => link.update \in Done /\ link'.updateVersion = link.updateVersion
         /\ link'.asked = link.asked /\ link'.decisionVersion = link.decisionVersion
<1> DEFINE k == <<"UPDATE", v>>
<1>1. /\ row' = Upsert(row, k)
      /\ link'.asked = link.asked /\ link'.decisionVersion = link.decisionVersion
      /\ \/ link' = link
         \/ link'.update = "PENDING" /\ link'.updateVersion = v
  BY LinkAfterUpdate DEF PipelineInv
<1>2. link'.update \in Done => link.update \in Done /\ link'.updateVersion = link.updateVersion
  BY <1>1 DEF Done
<1>3. k \in Keys /\ k[1] = "UPDATE" /\ k[2] = v /\ row \in [Keys -> RowStatus]
  BY KeysThere DEF PipelineInv, Shape
<1> HIDE DEF k
<1>4. /\ row'[k] # "absent" /\ \A j \in Keys : j # k => row'[j] = row[j]
      /\ \A j \in Keys : row'[j] \in {row[j], "PENDING"}
  BY <1>1, <1>3, UpsertAdds
<1>5. Grows /\ RowsBacked'
  BY <1>3, <1>4, Growing DEF PipelineInv
<1>6. QED
  BY <1>1, <1>2, <1>4, <1>5, KeysThere

\* What requesting a decision does: its row, and the version in the link.
LEMMA DecisionQueued ==
  ASSUME PipelineInv, consents' = consents, NEW l \in Links, NEW v \in 1..2, writeDecision(v, l),
         consents, v = 2 => FirstAsked
  PROVE  /\ Grows /\ RowsBacked'
         /\ \A u \in Versions : row'[<<"UPDATE", u>>] = "COMPLETED" => row[<<"UPDATE", u>>] = "COMPLETED"
         /\ link'.update = link.update /\ link'.updateVersion = link.updateVersion
         /\ v = 2 => FinalAsked'
         /\ FirstAsked'
         /\ link'.decisionVersion >= 2 => link.decisionVersion >= 2 \/ FinalAsked'
<1> DEFINE k == <<"DECISION", v>>
<1>1. /\ row' = Upsert(row, k)
      /\ link'.update = link.update /\ link'.updateVersion = link.updateVersion
      /\ \/ link' = link
         \/ link'.decisionVersion = v
  BY LinkAfterDecision DEF PipelineInv
<1>2. k \in Keys /\ k[1] = "DECISION" /\ k[2] = v /\ row \in [Keys -> RowStatus]
  BY KeysThere DEF PipelineInv, Shape
<1>3. v = 1 => k = <<"DECISION", 1>>
  OBVIOUS
<1>4. v = 2 => k = <<"DECISION", 2>>
  OBVIOUS
<1> HIDE DEF k
<1>5. /\ row'[k] # "absent" /\ \A j \in Keys : j # k => row'[j] = row[j]
      /\ \A j \in Keys : row'[j] \in {row[j], "PENDING"}
  BY <1>1, <1>2, UpsertAdds
<1>6. Grows /\ RowsBacked'
  BY <1>2, <1>5, Growing DEF PipelineInv
<1>7. v = 1 => FirstAsked'
  BY <1>3, <1>5 DEF FirstAsked
<1>8. v = 2 => FinalAsked' /\ FirstAsked'
  BY <1>4, <1>5, <1>6 DEF FinalAsked, Grows
<1>9. \A u \in Versions : row'[<<"UPDATE", u>>] = "COMPLETED" => row[<<"UPDATE", u>>] = "COMPLETED"
  BY <1>5, KeysThere
<1>10. v = 1 \/ v = 2
  OBVIOUS
<1>11. QED
  BY <1>1, <1>6, <1>7, <1>8, <1>9, <1>10

LEMMA WriteHolds ==
  ASSUME PipelineInv, followWrite
  PROVE  PipelineInv'
<1>1. worker.pc = "followWrite"
  BY DEF followWrite
<1>2. /\ worker.key \in Keys /\ worker.link \in Links /\ row[worker.key] # "absent"
      /\ worker.key[1] = "UPDATE" => worker.key[2] <= 2 /\ consents
  BY <1>1 DEF PipelineInv, Shape, Workers, WorkerBacked, Following
<1>3. /\ Shape' /\ worker.pc = "followWrite" /\ worker' = Idle
      /\ UNCHANGED <<app, consents, client, review, lender, lost>>
      /\ \/ worker.key[1] = "UPDATE" /\ worker.key[2] \in 1..2 /\ writeDecision(worker.key[2], worker.link)
         \/ worker.key[1] # "UPDATE" /\ writeUpdate(1, worker.link)
  BY <1>2, WriteTyped DEF PipelineInv
<1>4. WorkerBacked' /\ worker'.link = NewLink /\ worker'.pc = "idle"
  BY <1>3, WorkerIdles
<1>5. CASE worker.key[1] = "UPDATE" /\ worker.key[2] \in 1..2 /\ writeDecision(worker.key[2], worker.link)
  <2> DEFINE v == worker.key[2]
  <2>1. worker.key = <<"UPDATE", v>> /\ v \in Versions /\ (v = 2 => v >= 2)
    BY <1>2, <1>5, KeyForms
  <2>2. v = 2 => FirstAsked
    BY <1>2, <2>1 DEF PipelineInv, RowsBacked
  <2>3. v \in 1..2 /\ writeDecision(v, worker.link) /\ consents /\ consents' = consents
    BY <1>2, <1>3, <1>5
  <2> HIDE DEF v
  <2>4. /\ Grows /\ RowsBacked'
        /\ \A u \in Versions : row'[<<"UPDATE", u>>] = "COMPLETED" => row[<<"UPDATE", u>>] = "COMPLETED"
        /\ link'.update = link.update /\ link'.updateVersion = link.updateVersion
        /\ v = 2 => FinalAsked'
        /\ FirstAsked'
        /\ link'.decisionVersion >= 2 => link.decisionVersion >= 2 \/ FinalAsked'
    BY <1>2, <2>2, <2>3, DecisionQueued
  <2>5. Delivered' /\ NoUpdateSkipped' /\ LinkBacked'
    BY <1>3, <1>4, <2>4, ColumnsHold
  <2>6. StatusBacked' /\ ClientBacked'
    BY <1>3, <2>4, StatusKept, ClientsKept DEF PipelineInv
  <2>7. link.update \in Done => link.updateVersion = v
    BY <1>1, <1>5 DEF PipelineInv, WorkerBacked, Following, v
  <2>8. link.update \in Done /\ link.updateVersion >= 2 => FinalAsked'
    BY <2>3, <2>4, <2>7
  <2>9. DecisionOwed'
    BY <2>4, <2>8 DEF DecisionOwed
  <2>10. QED
    BY <1>3, <1>4, <2>4, <2>5, <2>6, <2>9 DEF PipelineInv
<1>6. CASE worker.key[1] # "UPDATE" /\ writeUpdate(1, worker.link)
  <2>1. /\ Grows /\ RowsBacked'
        /\ \A u \in Versions : row'[<<"UPDATE", u>>] = "COMPLETED" => row[<<"UPDATE", u>>] = "COMPLETED"
        /\ link'.update \in Done => link.update \in Done /\ link'.updateVersion = link.updateVersion
        /\ link'.asked = link.asked /\ link'.decisionVersion = link.decisionVersion
    BY <1>2, <1>3, <1>6, Constants, UpdateQueued
  <2>2. Delivered' /\ NoUpdateSkipped' /\ LinkBacked'
    BY <1>3, <1>4, <2>1, ColumnsHold
  <2>3. StatusBacked' /\ ClientBacked'
    BY <1>3, <2>1, StatusKept, ClientsKept DEF PipelineInv
  <2>4. DecisionOwed'
    BY <1>3, <1>6, <2>1, OwedKept, SubmittingKept DEF PipelineInv, Following
  <2>5. QED
    BY <1>3, <1>4, <2>1, <2>2, <2>3, <2>4 DEF PipelineInv
<1>7. QED
  BY <1>3, <1>5, <1>6

-------------------------------------------------------------------------------
(* The customer, the lender's webhook and the review.                       *)

\* Steps that leave rows, link and worker alone.
LEMMA CustomerHolds ==
  ASSUME PipelineInv, Shape', UNCHANGED <<row, link, worker, lender, lost>>, consents => consents',
         StatusBacked', ClientBacked', DecisionOwed'
  PROVE  PipelineInv'
<1>1. Grows /\ RowsBacked'
  BY RowsKept DEF PipelineInv
<1>2. Delivered' /\ NoUpdateSkipped' /\ LinkBacked'
  BY <1>1, AnsweredKept, ColumnsHold
<1>3. WorkerBacked'
  BY <1>1, WorkerKept DEF PipelineInv, Shape
<1>4. QED
  BY <1>1, <1>2, <1>3 DEF PipelineInv

\* A request that has not recorded consents is nobody's hope of a decision.
LEMMA SubmittingElsewhere ==
  ASSUME NEW c \in Clients, OthersKept(c), ~Submitting(c)
  PROVE  \A d \in Clients : Submitting(d) =>
           client'[d].pc \in {"enqueueConsents", "enqueueDecision", "writeDecision"}
  BY DEF OthersKept, Submitting

\* A step of such a request.
LEMMA RequestHolds ==
  ASSUME PipelineInv, Shape', NEW c \in Clients, OthersKept(c), ~Submitting(c),
         UNCHANGED <<row, link, consents, worker, review, lender, lost>>, app'.status = app.status,
         client'[c].pc = "writeOffer" \/ client'[c].version >= 2 => FirstAsked,
         client'[c].version >= 3 => FinalAsked,
         client'[c].pc # "writeDecision"
  PROVE  PipelineInv'
<1>1. Grows /\ RowsBacked'
  BY RowsKept DEF PipelineInv
<1>2. ClientBacked'
  BY <1>1, ClientMoves DEF PipelineInv, Grows
<1>3. StatusBacked'
  BY <1>1, StatusKept DEF PipelineInv
<1>4. DecisionOwed'
  BY <1>1, SubmittingElsewhere, OwedKept DEF PipelineInv, Following
<1>5. QED
  BY <1>2, <1>3, <1>4, CustomerHolds

\* What a request's version presupposes.
LEMMA VersionBacked ==
  ASSUME PipelineInv, NEW c \in Clients
  PROVE  /\ client[c].version >= 2 => FirstAsked
         /\ client[c].version >= 3 => FinalAsked
         /\ client[c].version \in Versions
  BY DEF PipelineInv, ClientBacked, Shape, Requests

LEMMA SaveHolds ==
  ASSUME PipelineInv, NEW c \in Clients, saveProfile(c)
  PROVE  PipelineInv'
<1>1. /\ Shape' /\ OthersKept(c) /\ client[c].pc = "idle"
      /\ client'[c].pc = "enqueueUpdate" /\ client'[c].version = client[c].version
      /\ UNCHANGED <<row, link, app, consents, worker, review, lender, lost>>
  BY SaveTyped DEF PipelineInv
<1>2. ~Submitting(c)
  BY <1>1 DEF Submitting
<1>3. QED
  BY <1>1, <1>2, VersionBacked, RequestHolds

LEMMA PushHolds ==
  ASSUME PipelineInv, NEW c \in Clients, NEW v \in Versions, stagePush(c, v)
  PROVE  PipelineInv'
<1>1. /\ Shape' /\ OthersKept(c) /\ client[c].pc = "idle" /\ app.status = "LENDER_APPROVED"
      /\ client'[c].pc = "enqueueUpdate" /\ client'[c].version = v
      /\ UNCHANGED <<row, link, app, consents, worker, review, lender, lost>>
  BY PushTyped DEF PipelineInv
<1>2. ~Submitting(c)
  BY <1>1 DEF Submitting
<1>3. FinalAsked /\ FirstAsked
  BY <1>1 DEF PipelineInv, StatusBacked, RowsBacked
<1>4. QED
  BY <1>1, <1>2, <1>3, RequestHolds

LEMMA EnqueueUpdateHolds ==
  ASSUME PipelineInv, NEW c \in Clients, enqueueUpdateWhenReady(c)
  PROVE  PipelineInv'
<1>1. /\ Shape' /\ OthersKept(c) /\ client[c].pc = "enqueueUpdate"
      /\ client'[c].pc \in {"writeUpdate", "idle"}
      /\ client'[c].version \in {1, client[c].version}
      /\ UNCHANGED <<row, link, app, consents, worker, review, lender, lost>>
  BY EnqueueUpdateTyped DEF PipelineInv
<1>2. ~Submitting(c)
  BY <1>1 DEF Submitting
<1>3. /\ client'[c].version >= 2 => FirstAsked
      /\ client'[c].version >= 3 => FinalAsked
  <2>1. ~(1 >= 2) /\ ~(1 >= 3)
    OBVIOUS
  <2>2. QED
    BY <1>1, <2>1, VersionBacked
<1>4. QED
  BY <1>1, <1>2, <1>3, RequestHolds

LEMMA SelectHolds ==
  ASSUME PipelineInv, NEW c \in Clients, NEW offer \in Offers, selectPreApprovalOffer(c, offer)
  PROVE  PipelineInv'
<1>1. /\ Shape' /\ OthersKept(c) /\ client[c].pc = "idle" /\ app.status = "LENDER_PRE_APPROVED"
      /\ client'[c].pc = "writeOffer" /\ client'[c].version = client[c].version
      /\ UNCHANGED <<row, link, app, consents, worker, review, lender, lost>>
  BY SelectTyped DEF PipelineInv
<1>2. ~Submitting(c)
  BY <1>1 DEF Submitting
<1>3. FirstAsked
  BY <1>1 DEF PipelineInv, StatusBacked
<1>4. QED
  BY <1>1, <1>2, <1>3, VersionBacked, RequestHolds

LEMMA WriteOfferHolds ==
  ASSUME PipelineInv, NEW c \in Clients, writeOffer(c)
  PROVE  PipelineInv'
<1>1. /\ Shape' /\ OthersKept(c) /\ client[c].pc = "writeOffer" /\ app'.status = app.status
      /\ client'[c].pc = "enqueueUpdate" /\ client'[c].version = 2
      /\ UNCHANGED <<row, link, consents, worker, review, lender, lost>>
  BY WriteOfferTyped DEF PipelineInv
<1>2. ~Submitting(c)
  BY <1>1 DEF Submitting
<1>3. FirstAsked
  BY <1>1 DEF PipelineInv, ClientBacked
<1>4. QED
  BY <1>1, <1>2, <1>3, RequestHolds

LEMMA CommitUpdateHolds ==
  ASSUME PipelineInv, NEW c \in Clients, commitUpdate(c)
  PROVE  PipelineInv'
<1>1. /\ Shape' /\ OthersKept(c) /\ client[c].pc = "writeUpdate" /\ client'[c] = NoCall
      /\ client[c].version \in Versions /\ client[c].link \in Links
      /\ writeUpdate(client[c].version, client[c].link)
      /\ UNCHANGED <<app, consents, worker, review, lender, lost>>
  BY CommitUpdateTyped DEF PipelineInv
<1>2. /\ Grows /\ RowsBacked'
      /\ \A u \in Versions : row'[<<"UPDATE", u>>] = "COMPLETED" => row[<<"UPDATE", u>>] = "COMPLETED"
      /\ link'.update \in Done => link.update \in Done /\ link'.updateVersion = link.updateVersion
      /\ link'.asked = link.asked /\ link'.decisionVersion = link.decisionVersion
  BY <1>1, VersionBacked, UpdateQueued
<1>3. Delivered' /\ NoUpdateSkipped' /\ LinkBacked'
  BY <1>1, <1>2, AnsweredKept, ColumnsHold
<1>4. WorkerBacked'
  BY <1>1, <1>2, WorkerKept DEF PipelineInv, Shape
<1>5. StatusBacked'
  BY <1>1, <1>2, StatusKept DEF PipelineInv
<1>6. ClientBacked'
  BY <1>1, <1>2, Constants, ClientMoves DEF PipelineInv
<1>7. DecisionOwed'
  <2>1. ~Submitting(c)
    BY <1>1 DEF Submitting
  <2>2. QED
    BY <1>1, <1>2, <2>1, SubmittingElsewhere, OwedKept DEF PipelineInv, Following
<1>8. QED
  BY <1>1, <1>2, <1>3, <1>4, <1>5, <1>6, <1>7 DEF PipelineInv

\* From here on the request itself is the hope.
LEMMA RecordHolds ==
  ASSUME PipelineInv, NEW c \in Clients, recordDecisionConsents(c)
  PROVE  PipelineInv'
<1>1. /\ Shape' /\ OthersKept(c) /\ client[c].pc = "idle" /\ consents' = TRUE
      /\ client'[c].pc = "enqueueConsents" /\ client'[c].version = client[c].version
      /\ UNCHANGED <<row, link, app, worker, review, lender, lost>>
  BY RecordTyped DEF PipelineInv
<1>2. Grows /\ RowsBacked'
  BY <1>1, RowsKept DEF PipelineInv
<1>3. ClientBacked'
  BY <1>1, <1>2, VersionBacked, ClientMoves DEF PipelineInv, Grows
<1>4. StatusBacked'
  BY <1>1, <1>2, StatusKept DEF PipelineInv
<1>5. DecisionOwed'
  <2>1. Submitting(c)'
    BY <1>1 DEF Submitting
  <2>2. QED
    BY <1>1, <1>2, <2>1 DEF PipelineInv, DecisionOwed, Following, Grows
<1>6. QED
  BY <1>1, <1>3, <1>4, <1>5, CustomerHolds

LEMMA EnqueueConsentsHolds ==
  ASSUME PipelineInv, NEW c \in Clients, enqueueConsentSubmissions(c)
  PROVE  PipelineInv'
<1>1. /\ Shape' /\ OthersKept(c) /\ client[c].pc = "enqueueConsents"
      /\ client'[c].pc = "enqueueDecision" /\ client'[c].version = client[c].version
      /\ row' = row \/ row' = Upsert(row, <<"OTHER_CONSENT", 1>>)
      /\ UNCHANGED <<link, app, consents, worker, review, lender, lost>>
  BY EnqueueConsentsTyped DEF PipelineInv
<1>2. /\ Grows /\ RowsBacked'
      /\ \A v \in Versions : row'[<<"UPDATE", v>>] = "COMPLETED" => row[<<"UPDATE", v>>] = "COMPLETED"
  BY <1>1, OtherConsentAdds DEF PipelineInv
<1>3. Delivered' /\ NoUpdateSkipped' /\ LinkBacked'
  BY <1>1, <1>2, AnsweredKept, ColumnsHold
<1>4. WorkerBacked'
  BY <1>1, <1>2, WorkerKept DEF PipelineInv, Shape
<1>5. StatusBacked'
  BY <1>1, <1>2, StatusKept DEF PipelineInv
<1>6. ClientBacked'
  BY <1>1, <1>2, VersionBacked, ClientMoves DEF PipelineInv, Grows
<1>7. DecisionOwed'
  <2>1. \A d \in Clients : Submitting(d) =>
          client'[d].pc \in {"enqueueConsents", "enqueueDecision", "writeDecision"}
    BY <1>1 DEF OthersKept, Submitting
  <2>2. QED
    BY <1>1, <1>2, <2>1, OwedKept DEF PipelineInv, Following
<1>8. QED
  BY <1>1, <1>2, <1>3, <1>4, <1>5, <1>6, <1>7 DEF PipelineInv

\* The submit turns back only when no update is done: a completed one shows version 1 at least.
LEMMA EnqueueDecisionHolds ==
  ASSUME PipelineInv, NEW c \in Clients, enqueueDecisionWhenReady(c)
  PROVE  PipelineInv'
<1>1. /\ Shape' /\ OthersKept(c) /\ client[c].pc = "enqueueDecision"
      /\ \/ /\ DecisionReady(1, link) /\ client'[c].pc = "writeDecision"
            /\ client'[c].version = client[c].version
         \/ ~DecisionReady(1, link) /\ client'[c] = NoCall
      /\ UNCHANGED <<row, link, app, consents, worker, review, lender, lost>>
  BY EnqueueDecisionTyped DEF PipelineInv
<1>2. Grows /\ RowsBacked'
  BY <1>1, RowsKept DEF PipelineInv
<1>3. ClientBacked'
  BY <1>1, <1>2, VersionBacked, Constants, ClientMoves DEF PipelineInv, Grows, DecisionReady
<1>4. StatusBacked'
  BY <1>1, <1>2, StatusKept DEF PipelineInv
<1>5. DecisionOwed'
  <2>1. CASE client'[c].pc = "writeDecision"
    <3>1. \A d \in Clients : Submitting(d) =>
            client'[d].pc \in {"enqueueConsents", "enqueueDecision", "writeDecision"}
      BY <1>1, <2>1 DEF OthersKept, Submitting
    <3>2. QED
      BY <1>1, <1>2, <3>1, OwedKept DEF PipelineInv, Following
  <2>2. CASE ~DecisionReady(1, link)
    <3>1. link.updateVersion >= 1
      <4>1. link.updateVersion \in Versions
        BY DEF PipelineInv, Shape, Links
      <4>2. \A v \in Versions : v \in 1..4
        BY Constants
      <4>3. link.updateVersion \in 1..4
        BY <4>1, <4>2
      <4>4. QED
        BY <4>3
    <3>2. ~(consents /\ link.update \in Done)
      BY <2>2, <3>1 DEF DecisionReady
    <3>3. link.update \in Done /\ link.updateVersion >= 2 /\ ~FinalAsked =>
            lost \/ (Following /\ worker.key[2] = 2)
      BY DEF PipelineInv, DecisionOwed
    <3>4. QED
      BY <1>1, <3>2, <3>3 DEF DecisionOwed, Following, FinalAsked
  <2>3. QED
    BY <1>1, <2>1, <2>2
<1>6. QED
  BY <1>1, <1>3, <1>4, <1>5, CustomerHolds

LEMMA CommitRequestHolds ==
  ASSUME PipelineInv, NEW c \in Clients, commitDecisionRequest(c)
  PROVE  PipelineInv'
<1>1. /\ Shape' /\ OthersKept(c) /\ client[c].pc = "writeDecision" /\ client'[c] = NoCall
      /\ client[c].link \in Links /\ writeDecision(1, client[c].link)
      /\ UNCHANGED <<app, consents, worker, review, lender, lost>>
  BY CommitRequestTyped DEF PipelineInv
<1>2. consents
  BY <1>1 DEF PipelineInv, ClientBacked
<1>3. /\ Grows /\ RowsBacked'
      /\ \A u \in Versions : row'[<<"UPDATE", u>>] = "COMPLETED" => row[<<"UPDATE", u>>] = "COMPLETED"
      /\ link'.update = link.update /\ link'.updateVersion = link.updateVersion
      /\ FirstAsked'
      /\ link'.decisionVersion >= 2 => link.decisionVersion >= 2 \/ FinalAsked'
  BY <1>1, <1>2, DecisionQueued
<1>4. Delivered' /\ NoUpdateSkipped' /\ LinkBacked'
  BY <1>1, <1>3, AnsweredKept, ColumnsHold
<1>5. WorkerBacked'
  BY <1>1, <1>3, WorkerKept DEF PipelineInv, Shape
<1>6. StatusBacked'
  BY <1>1, <1>3, StatusKept DEF PipelineInv
<1>7. ClientBacked'
  BY <1>1, <1>3, Constants, ClientMoves DEF PipelineInv
<1>8. DecisionOwed'
  <2>1. link.update \in Done /\ link.updateVersion >= 2 /\ ~FinalAsked =>
          lost \/ (Following /\ worker.key[2] = 2)
    BY DEF PipelineInv, DecisionOwed
  <2>2. QED
    BY <1>1, <1>3, <2>1 DEF DecisionOwed, Following, Grows
<1>9. QED
  BY <1>1, <1>3, <1>4, <1>5, <1>6, <1>7, <1>8 DEF PipelineInv

LEMMA WebhookHolds ==
  ASSUME PipelineInv, processLenderRejectionWebhook
  PROVE  PipelineInv'
<1>1. /\ Shape' /\ app'.status = "LENDER_REJECTED"
      /\ link'.update = link.update /\ link'.updateVersion = link.updateVersion
      /\ link'.decisionVersion = link.decisionVersion /\ link'.asked = link.asked
      /\ UNCHANGED <<row, consents, worker, client, review, lender, lost>>
  BY WebhookTyped DEF PipelineInv
<1>2. Grows /\ RowsBacked'
  BY <1>1, RowsKept DEF PipelineInv
<1>3. Delivered' /\ NoUpdateSkipped' /\ LinkBacked'
  BY <1>1, <1>2, AnsweredKept, ColumnsHold
<1>4. WorkerBacked'
  BY <1>1, <1>2, WorkerKept DEF PipelineInv, Shape
<1>5. StatusBacked' /\ ClientBacked'
  BY <1>1, <1>2, ClientsKept DEF PipelineInv, StatusBacked, Grows
<1>6. DecisionOwed'
  BY <1>1, <1>2, SubmittingKept, OwedKept DEF PipelineInv, Following
<1>7. QED
  BY <1>1, <1>2, <1>3, <1>4, <1>5, <1>6 DEF PipelineInv

LEMMA ReviewHolds ==
  ASSUME PipelineInv,
         (\E decision \in {"approve", "reject"} : startReview(decision)) \/ commitApprove \/ commitReject
  PROVE  PipelineInv'
<1>1. /\ Shape' /\ UNCHANGED <<row, link, consents, worker, client, lender, lost>>
      /\ \/ app.status = "PENDING_CREDIT_REVIEW" /\ app' = app
         \/ /\ review' = "idle"
            /\ (review = "approve" /\ app'.status = "LENDER_APPROVED") \/ app'.status = "LENDER_REJECTED"
  BY ReviewTyped, ReviewedTyped DEF PipelineInv
<1>2. Grows /\ RowsBacked'
  BY <1>1, RowsKept DEF PipelineInv
<1>3. StatusBacked' /\ ClientBacked'
  BY <1>1, <1>2, ClientsKept DEF PipelineInv, StatusBacked, Grows
<1>4. DecisionOwed'
  BY <1>1, <1>2, SubmittingKept, OwedKept DEF PipelineInv, Following
<1>5. QED
  BY <1>1, <1>3, <1>4, CustomerHolds

-------------------------------------------------------------------------------
(* The theorems.                                                            *)

LEMMA PipelineStarts == Init => PipelineInv
<1> SUFFICES ASSUME Init PROVE PipelineInv
  OBVIOUS
<1> USE DEF Init
<1>1. Shape
  <2>1. row \in [Keys -> RowStatus]
    BY DEF RowStatus
  <2>2. app \in [status : AppStatus, offer : OfferOrNone]
    BY DEF AppStatus, OfferOrNone
  <2>3. lender \in Lenders
    BY DEF Lenders, OfferOrNone
  <2>4. QED
    BY <2>1, <2>2, <2>3, Constants DEF Shape
<1>2. /\ link.update = "NOT_STARTED" /\ link.asked = FALSE /\ ~(link.decisionVersion >= 2)
      /\ worker.link = link /\ worker.pc = "idle" /\ link.update \notin Done
  BY Constants DEF NewLink, Done
<1>3. Delivered
  BY <1>2 DEF Delivered
<1>4. \A k \in Keys : k[1] # "CREATE" => row[k] = "absent"
  OBVIOUS
<1>5. \A v \in Versions : row[<<"UPDATE", v>>] = "absent"
  BY KeysThere
<1>6. NoUpdateSkipped
  BY <1>5 DEF NoUpdateSkipped
<1>7. ~FirstAsked /\ ~FinalAsked
  BY KeysThere DEF FirstAsked, FinalAsked
<1>8. \A n \in 1..MaxPolls : row[<<"STATUS", n>>] = "absent"
  BY KeysThere
<1>9. RowsBacked
  BY <1>5, <1>7, <1>8 DEF RowsBacked
<1>10. LinkBacked /\ WorkerBacked /\ DecisionOwed
  BY <1>2 DEF LinkBacked, WorkerBacked, DecisionOwed, Following
<1>11. StatusBacked /\ ClientBacked
  BY Constants DEF StatusBacked, ClientBacked
<1>12. QED
  BY <1>1, <1>3, <1>6, <1>9, <1>10, <1>11 DEF PipelineInv

LEMMA PipelineKept == PipelineInv /\ [Next]_vars => PipelineInv'
<1> SUFFICES ASSUME PipelineInv, [Next]_vars PROVE PipelineInv'
  OBVIOUS
<1>1. CASE WorkerStep
  BY <1>1, LoadHolds, ReturnHolds, RefuseHolds, CallHolds, AnswerHolds, FailHolds, CreateHolds,
     ConsentHolds, UpdateHolds, ReadHolds, CommitHolds, MarkHolds, SettleHolds, FollowHolds, WriteHolds
  DEF WorkerStep
<1>2. CASE crash
  BY <1>2, CrashHolds
<1>3. CASE \E k \in Keys : sweep(k) \/ replayFailedEvent(k)
  BY <1>3, SweepHolds, ReplayHolds
<1>4. ASSUME NEW c \in Clients, ClientStep(c)
      PROVE  PipelineInv'
  BY <1>4, SaveHolds, EnqueueUpdateHolds, CommitUpdateHolds, RecordHolds, EnqueueConsentsHolds,
     EnqueueDecisionHolds, CommitRequestHolds, SelectHolds, WriteOfferHolds, PushHolds
  DEF ClientStep
<1>5. CASE processLenderRejectionWebhook
  BY <1>5, WebhookHolds
<1>6. CASE (\E decision \in {"approve", "reject"} : startReview(decision)) \/ commitApprove \/ commitReject
  BY <1>6, ReviewHolds
<1>7. CASE UNCHANGED vars
  BY <1>7 DEF vars, PipelineInv, Shape, Delivered, NoUpdateSkipped, RowsBacked, LinkBacked,
              WorkerBacked, StatusBacked, ClientBacked, DecisionOwed, FirstAsked, FinalAsked,
              Following, Submitting
<1>8. QED
  BY <1>1, <1>2, <1>3, <1>4, <1>5, <1>6, <1>7 DEF Next

\* Every variable keeps its type.
THEOREM PipelineTypeCorrect == Spec => []TypeOK
<1>1. PipelineInv => TypeOK
  BY DEF PipelineInv, Shape, TypeOK, OfferOrNone, Workers, Requests
<1>2. QED
  BY <1>1, PipelineStarts, PipelineKept, PTL DEF Spec

\* An UPDATE event is closed only when the lender has taken that version of the profile or a
\* later one: the version check that lets processUpdate return early drops no push.
THEOREM NoUpdateSkippedHolds == Spec => []NoUpdateSkipped
<1>1. PipelineInv => NoUpdateSkipped
  BY DEF PipelineInv
<1>2. QED
  BY <1>1, PipelineStarts, PipelineKept, PTL DEF Spec

\* With consents recorded, the update done and nobody at work, the decision event exists,
\* unless a crash dropped a follow-up: the customer's submit and the worker's UPDATE each
\* look for the other's trace after leaving their own.
THEOREM DecisionRequestedHolds == Spec => []DecisionRequested
<1>1. PipelineInv => DecisionRequested
  <2>1. SUFFICES ASSUME PipelineInv, Quiet, ~lost, consents, link.update \in Done,
                        NEW v \in 1..2, v <= link.updateVersion
                 PROVE  row[<<"DECISION", v>>] # "absent"
    BY DEF DecisionRequested
  <2>2. ~Following /\ ~(\E c \in Clients : Submitting(c))
    BY <2>1 DEF Quiet, Following, Submitting
  <2>3. FirstAsked
    BY <2>1, <2>2 DEF PipelineInv, DecisionOwed
  <2>4. link.updateVersion >= 2 => FinalAsked
    BY <2>1, <2>2 DEF PipelineInv, DecisionOwed
  <2>5. CASE v = 1
    BY <2>3, <2>5 DEF FirstAsked
  <2>6. CASE v = 2
    BY <2>1, <2>4, <2>6 DEF FinalAsked
  <2>7. QED
    BY <2>5, <2>6
<1>2. QED
  BY <1>1, PipelineStarts, PipelineKept, PTL DEF Spec

-------------------------------------------------------------------------------
(* Verdicts in turn: the customer makes one request at a time, and submits  *)
(* once.                                                                    *)

OneSubmit == (\E c : Clients = {c}) /\ CallLimit["submit"] <= 1

DecisionKeys == {k \in Keys : k[1] \in {"DECISION", "STATUS"}}
Open(k) == row[k] \notin {"absent", "COMPLETED"}
NoneOpen == \A k \in DecisionKeys : ~Open(k)
FirstClosed == row[<<"DECISION", 1>>] = "COMPLETED"
FinalClosed == row[<<"DECISION", 2>>] = "COMPLETED"
Said(s, v) == [stage |-> s, verdict |-> v] \in heard
Final(s) == Said(s, "APPROVED") \/ Said(s, "REJECTED")

\* The request whose verdict is awaited.
Turn == IF FinalAsked THEN 2 ELSE 1

\* One decision or poll is open at a time, the final one after the first was closed; the
\* lender answers for the final request once it was asked for it, and the link's version says
\* which request that is.
RowsInTurn ==
  /\ \A j, k \in DecisionKeys : Open(j) /\ Open(k) => j = k
  /\ FinalAsked => FirstClosed
  /\ \A n \in 1..MaxPolls : row[<<"STATUS", n>>] # "absent" => FirstClosed
  /\ FirstClosed => lender.stage >= 1
  /\ FinalClosed => lender.stage = 2
  /\ lender.stage = 2 => FinalAsked
  /\ FinalAsked => link.decisionVersion = 2

Judging == worker.key[1] \in {"DECISION", "STATUS"} /\ worker.pc \in {"answered", "deciding"}
Versioned == worker.pc = "deciding" \/ (worker.pc = "followWrite" /\ worker.key[1] = "UPDATE")

\* The row at work is PROCESSING, its answer is for the request in turn, and what the worker
\* read of the link's version and of the status is still so, but for a rejection.
WorkerInTurn ==
  /\ worker.pc \notin {"idle", "followUp", "followWrite"} => row[worker.key] = "PROCESSING"
  /\ Judging => worker.answer.stage = Turn /\ lender.stage = Turn /\ worker.answer.verdict \in Verdicts
  /\ Versioned => worker.link.decisionVersion = link.decisionVersion
  /\ worker.pc = "deciding" => app.status \in {worker.status, "LENDER_REJECTED"}

\* A final verdict leaves nothing open until the next request, and is the only one of its stage.
HeardInTurn ==
  /\ Final(1) => FirstAsked /\ (FinalAsked \/ NoneOpen)
  /\ Final(2) => FinalAsked /\ NoneOpen
  /\ FinalAsked => Said(1, "APPROVED")
  /\ \A s \in 1..2 : ~(Said(s, "APPROVED") /\ Said(s, "REJECTED"))

StatusInTurn ==
  /\ app.status = "LENDER_PRE_APPROVED" => Said(1, "APPROVED")
  /\ review # "idle" => Said(2, "APPROVED")
  /\ VerdictHonoured

\* Pushes after the first follow the pre-approval, and no submit is in flight with them.
PushesInTurn ==
  \A v \in Versions : v >= 2 /\ row[<<"UPDATE", v>>] # "absent" => Said(1, "APPROVED")
ClientsInTurn ==
  \A c \in Clients :
    /\ client[c].pc = "writeOffer" \/ client[c].version >= 2 => Said(1, "APPROVED")
    /\ client[c].pc = "idle" \/ Submitting(c) => client[c].version = 1
    /\ Submitting(c) =>
         /\ ~FinalAsked
         /\ \A v \in Versions : v >= 2 => row[<<"UPDATE", v>>] = "absent"

Kinds == DOMAIN CallLimit \cup {"failures", "crashes", "replays", "webhook"}
Spent == used \in [Kinds -> Nat] /\ (consents => used["submit"] >= 1)

VerdictInv ==
  /\ RowsInTurn /\ WorkerInTurn /\ HeardInTurn /\ StatusInTurn
  /\ PushesInTurn /\ ClientsInTurn /\ Spent

-------------------------------------------------------------------------------
(* What a step leaves in place.                                             *)

DecisionRowsStay ==
  \A k \in DecisionKeys :
    (row'[k] = "absent" <=> row[k] = "absent") /\ (row'[k] = "COMPLETED" <=> row[k] = "COMPLETED")
PushesStay ==
  \A v \in Versions : v >= 2 => (row'[<<"UPDATE", v>>] = "absent" <=> row[<<"UPDATE", v>>] = "absent")
UsedGoesOn == used' \in [Kinds -> Nat] /\ used'["submit"] >= used["submit"]

LEMMA DecisionKeysThere ==
  /\ <<"DECISION", 1>> \in DecisionKeys /\ <<"DECISION", 2>> \in DecisionKeys
  /\ \A n \in 1..MaxPolls : <<"STATUS", n>> \in DecisionKeys
  /\ \A k \in DecisionKeys : \/ k = <<"DECISION", 1>> \/ k = <<"DECISION", 2>>
                             \/ \E n \in 1..MaxPolls : k = <<"STATUS", n>>
<1>1. /\ <<"DECISION", 1>> \in DecisionKeys /\ <<"DECISION", 2>> \in DecisionKeys
      /\ \A n \in 1..MaxPolls : <<"STATUS", n>> \in DecisionKeys
  BY KeysThere DEF DecisionKeys
<1>2. ASSUME NEW k \in DecisionKeys
      PROVE  \/ k = <<"DECISION", 1>> \/ k = <<"DECISION", 2>>
             \/ \E n \in 1..MaxPolls : k = <<"STATUS", n>>
  <2>1. k \in Keys /\ k[1] \in {"DECISION", "STATUS"}
    BY DEF DecisionKeys
  <2>2. QED
    BY <2>1, KeyForms
<1>3. QED
  BY <1>1, <1>2

LEMMA SpendingGoesOn ==
  ASSUME Spent, (used' = used) \/ (\E what \in Kinds : Spend(what))
  PROVE  UsedGoesOn
<1>1. "submit" \in Kinds
  BY PipelineAssumption DEF Kinds
<1>2. used \in [Kinds -> Nat]
  BY DEF Spent
<1>3. CASE used' = used
  BY <1>1, <1>2, <1>3 DEF UsedGoesOn
<1>4. ASSUME NEW what \in Kinds, Spend(what)
      PROVE  UsedGoesOn
  <2>1. used' = [used EXCEPT ![what] = used[what] + 1]
    BY <1>4 DEF Spend
  <2>2. used[what] + 1 \in Nat /\ used["submit"] \in Nat
    BY <1>1, <1>2
  <2>3. used' \in [Kinds -> Nat]
    BY <1>2, <2>1, <2>2
  <2>4. used'["submit"] \in {used["submit"], used["submit"] + 1}
    BY <1>1, <1>2, <2>1
  <2>5. QED
    BY <2>2, <2>3, <2>4 DEF UsedGoesOn
<1>5. QED
  BY <1>3, <1>4

LEMMA SpentStays ==
  ASSUME Spent, UsedGoesOn, consents' = consents
  PROVE  Spent'
<1>1. used["submit"] \in Nat /\ used'["submit"] \in Nat
  BY PipelineAssumption DEF Spent, UsedGoesOn, Kinds
<1>2. QED
  BY <1>1 DEF Spent, UsedGoesOn

\* Rows that neither open nor close leave every turn as it is.
LEMMA TurnStays ==
  ASSUME DecisionRowsStay
  PROVE  /\ FirstAsked' <=> FirstAsked
         /\ FinalAsked' <=> FinalAsked
         /\ FirstClosed' <=> FirstClosed
         /\ FinalClosed' <=> FinalClosed
         /\ \A k \in DecisionKeys : (Open(k))' <=> Open(k)
         /\ NoneOpen' <=> NoneOpen
         /\ Turn' = Turn
         /\ \A n \in 1..MaxPolls : row'[<<"STATUS", n>>] = "absent" <=> row[<<"STATUS", n>>] = "absent"
<1>1. /\ FirstAsked' <=> FirstAsked
      /\ FinalAsked' <=> FinalAsked
      /\ FirstClosed' <=> FirstClosed
      /\ FinalClosed' <=> FinalClosed
  BY DecisionKeysThere DEF DecisionRowsStay, FirstAsked, FinalAsked, FirstClosed, FinalClosed
<1>2. \A k \in DecisionKeys : (Open(k))' <=> Open(k)
  BY DEF DecisionRowsStay, Open
<1>3. NoneOpen' <=> NoneOpen
  BY <1>2 DEF NoneOpen
<1>4. Turn' = Turn
  BY <1>1 DEF Turn
<1>5. QED
  BY <1>1, <1>2, <1>3, <1>4, DecisionKeysThere DEF DecisionRowsStay

LEMMA RowsInTurnStay ==
  ASSUME RowsInTurn, DecisionRowsStay, lender'.stage = lender.stage,
         link'.decisionVersion = link.decisionVersion
  PROVE  RowsInTurn'
<1>1. /\ FinalAsked' <=> FinalAsked
      /\ FirstClosed' <=> FirstClosed
      /\ FinalClosed' <=> FinalClosed
      /\ \A k \in DecisionKeys : (Open(k))' <=> Open(k)
      /\ \A n \in 1..MaxPolls : row'[<<"STATUS", n>>] = "absent" <=> row[<<"STATUS", n>>] = "absent"
  BY TurnStays
<1>2. \A j, k \in DecisionKeys : (Open(j))' /\ (Open(k))' => j = k
  BY <1>1 DEF RowsInTurn
<1>3. \A n \in 1..MaxPolls : row'[<<"STATUS", n>>] # "absent" => FirstClosed'
  BY <1>1 DEF RowsInTurn
<1>4. QED
  BY <1>1, <1>2, <1>3 DEF RowsInTurn

LEMMA HeardStays ==
  ASSUME HeardInTurn, DecisionRowsStay, heard' = heard
  PROVE  HeardInTurn'
<1>1. (FirstAsked' <=> FirstAsked) /\ (FinalAsked' <=> FinalAsked) /\ (NoneOpen' <=> NoneOpen)
  BY TurnStays
<1>2. \A s, v : (Said(s, v))' <=> Said(s, v)
  BY DEF Said
<1>3. QED
  BY <1>1, <1>2 DEF HeardInTurn, Final

LEMMA StatusStays ==
  ASSUME StatusInTurn, heard' = heard, app'.status = app.status, review' \in {review, "idle"}
  PROVE  StatusInTurn'
<1>1. VerdictHonoured'
  BY DEF StatusInTurn, VerdictHonoured
<1>2. QED
  BY <1>1 DEF StatusInTurn, Said

LEMMA PushesInTurnStay ==
  ASSUME PushesInTurn, PushesStay, heard' = heard
  PROVE  PushesInTurn'
  BY DEF PushesInTurn, PushesStay, Said

LEMMA ClientsInTurnStay ==
  ASSUME ClientsInTurn, PushesStay, FinalAsked' <=> FinalAsked, heard' = heard, client' = client
  PROVE  ClientsInTurn'
<1>1. SUFFICES ASSUME NEW c \in Clients
               PROVE  /\ client'[c].pc = "writeOffer" \/ client'[c].version >= 2 => Said(1, "APPROVED")'
                      /\ client'[c].pc = "idle" \/ Submitting(c)' => client'[c].version = 1
                      /\ Submitting(c)' =>
                           /\ ~FinalAsked'
                           /\ \A v \in Versions : v >= 2 => row'[<<"UPDATE", v>>] = "absent"
  BY DEF ClientsInTurn
<1>2. (Submitting(c)' <=> Submitting(c)) /\ (Said(1, "APPROVED")' <=> Said(1, "APPROVED"))
  BY DEF Submitting, Said
<1>3. QED
  BY <1>2 DEF ClientsInTurn, PushesStay

\* Steps of the worker that neither open nor close a decision, and touch no verdict.
LEMMA VerdictsStay ==
  ASSUME VerdictInv, DecisionRowsStay, PushesStay, UsedGoesOn, lender'.stage = lender.stage,
         link'.decisionVersion = link.decisionVersion,
         UNCHANGED <<app, review, heard, client, consents>>, WorkerInTurn'
  PROVE  VerdictInv'
<1>1. RowsInTurn' /\ HeardInTurn' /\ StatusInTurn'
  BY RowsInTurnStay, HeardStays, StatusStays DEF VerdictInv
<1>2. PushesInTurn' /\ ClientsInTurn'
  BY TurnStays, PushesInTurnStay, ClientsInTurnStay DEF VerdictInv
<1>3. Spent'
  BY SpentStays DEF VerdictInv
<1>4. QED
  BY <1>1, <1>2, <1>3 DEF VerdictInv

\* Every row stays as it is.
LEMMA SameRowsStay ==
  ASSUME row' = row
  PROVE  DecisionRowsStay /\ PushesStay
  BY DEF DecisionRowsStay, PushesStay

\* A row that is not COMPLETED moves to another status that is not.
LEMMA OneRowMoves ==
  ASSUME Shape, NEW k \in Keys, row[k] \notin {"absent", "COMPLETED"}, NEW st,
         st \notin {"absent", "COMPLETED"}, row' = [row EXCEPT ![k] = st]
  PROVE  DecisionRowsStay /\ PushesStay
<1>1. \A j \in Keys : (row'[j] = "absent" <=> row[j] = "absent")
                        /\ (row'[j] = "COMPLETED" <=> row[j] = "COMPLETED")
  BY DEF Shape
<1>2. QED
  BY <1>1, KeysThere DEF DecisionRowsStay, PushesStay, DecisionKeys

\* A worker that is done owes nothing here.
LEMMA IdleInTurn ==
  ASSUME worker' = Idle
  PROVE  WorkerInTurn'
  BY Constants DEF WorkerInTurn, Judging, Versioned

-------------------------------------------------------------------------------
(* The worker's steps.                                                      *)

LEMMA UnspentGoesOn ==
  ASSUME VerdictInv
  PROVE  /\ used' = used => UsedGoesOn
         /\ Spend("failures") \/ Spend("crashes") \/ Spend("replays") \/ Spend("webhook") => UsedGoesOn
         /\ \A what \in DOMAIN CallLimit : Spend(what) => UsedGoesOn
<1>1. Spent
  BY DEF VerdictInv
<1>2. /\ "failures" \in Kinds /\ "crashes" \in Kinds /\ "replays" \in Kinds /\ "webhook" \in Kinds
      /\ \A what \in DOMAIN CallLimit : what \in Kinds
  BY DEF Kinds
<1>3. QED
  BY <1>1, <1>2, SpendingGoesOn

LEMMA LoadInTurn ==
  ASSUME PipelineInv, VerdictInv, NEW k \in Keys, loadEvent(k)
  PROVE  VerdictInv'
<1>1. /\ row' = [row EXCEPT ![k] = "PROCESSING"] /\ row[k] \in {"PENDING", "RETRY_PENDING"}
      /\ link'.decisionVersion = link.decisionVersion
      /\ worker'.pc = "loaded" /\ worker'.key = k
  BY LoadTyped DEF PipelineInv
<1>2. UNCHANGED <<app, consents, client, review, used, lender, heard>>
  BY DEF loadEvent
<1>3. DecisionRowsStay /\ PushesStay
  BY <1>1, OneRowMoves DEF PipelineInv
<1>4. WorkerInTurn'
  <2>1. row'[k] = "PROCESSING"
    BY <1>1 DEF PipelineInv, Shape
  <2>2. QED
    BY <1>1, <2>1 DEF WorkerInTurn, Judging, Versioned
<1>5. UsedGoesOn
  BY <1>2, UnspentGoesOn
<1>6. QED
  BY <1>1, <1>2, <1>3, <1>4, <1>5, VerdictsStay

\* A row of the consents or of an update is closed.
LEMMA OtherRowCloses ==
  ASSUME Shape, NEW k \in Keys, k[1] \notin {"DECISION", "STATUS"}, row[k] # "absent",
         row' = [row EXCEPT ![k] = "COMPLETED"]
  PROVE  DecisionRowsStay /\ PushesStay
<1>1. \A j \in DecisionKeys : row'[j] = row[j]
  BY DEF Shape, DecisionKeys
<1>2. \A j \in Keys : row'[j] = "absent" <=> row[j] = "absent"
  BY DEF Shape
<1>3. QED
  BY <1>1, <1>2, KeysThere DEF DecisionRowsStay, PushesStay

\* The row at work exists.
LEMMA AtWork ==
  ASSUME PipelineInv, worker.pc # "idle"
  PROVE  worker.key \in Keys /\ row[worker.key] # "absent" /\ row \in [Keys -> RowStatus]
  BY DEF PipelineInv, WorkerBacked, Shape, Workers

LEMMA ReturnInTurn ==
  ASSUME PipelineInv, VerdictInv, returnFalse
  PROVE  VerdictInv'
<1>1. row' = [row EXCEPT ![worker.key] = "COMPLETED"] /\ worker' = Idle
  BY ReturnTyped DEF PipelineInv
<1>2. /\ worker.pc = "loaded" /\ AlreadyDone(worker.key, worker.link)
      /\ UNCHANGED <<link, app, consents, client, review, used, lender, heard>>
  BY DEF returnFalse
<1>3. worker.key \in Keys /\ row[worker.key] # "absent"
  BY <1>2, AtWork
<1>4. worker.key[1] \notin {"DECISION", "STATUS"}
  BY <1>2 DEF AlreadyDone
<1>5. DecisionRowsStay /\ PushesStay
  BY <1>1, <1>3, <1>4, OtherRowCloses DEF PipelineInv
<1>6. WorkerInTurn' /\ UsedGoesOn
  BY <1>1, <1>2, IdleInTurn, UnspentGoesOn
<1>7. QED
  BY <1>2, <1>5, <1>6, VerdictsStay

\* The worker goes on with its row to a place where it owes no more than that.
LEMMA AdvanceInTurn ==
  ASSUME PipelineInv, VerdictInv, UNCHANGED <<row, app, review, heard, client, consents>>,
         worker.pc \in {"loaded", "calling", "retrying", "failing"},
         worker'.pc \in {"calling", "retrying", "failing", "settleRetry", "settleFailed"},
         worker'.key = worker.key, lender'.stage = lender.stage,
         link'.decisionVersion = link.decisionVersion, UsedGoesOn
  PROVE  VerdictInv'
<1>1. row[worker.key] = "PROCESSING"
  BY DEF VerdictInv, WorkerInTurn
<1>2. WorkerInTurn'
  BY <1>1 DEF WorkerInTurn, Judging, Versioned
<1>3. QED
  BY <1>2, SameRowsStay, VerdictsStay

LEMMA RefuseInTurn ==
  ASSUME PipelineInv, VerdictInv, refuse
  PROVE  VerdictInv'
<1>1. /\ worker.pc = "loaded" /\ worker' = [worker EXCEPT !.pc = "failing"]
      /\ UNCHANGED <<row, link, app, review, heard, client, consents, used, lender>>
  BY DEF refuse
<1>2. worker'.pc = "failing" /\ worker'.key = worker.key
  BY <1>1 DEF PipelineInv, Shape, Workers
<1>3. QED
  BY <1>1, <1>2, UnspentGoesOn, AdvanceInTurn

LEMMA CallInTurn ==
  ASSUME PipelineInv, VerdictInv, callLender
  PROVE  VerdictInv'
<1>1. /\ worker.pc = "loaded" /\ worker'.pc = "calling" /\ worker'.key = worker.key
      /\ UNCHANGED <<row, app, consents, client, review, lender, lost>>
      /\ link'.decisionVersion = link.decisionVersion
  BY CallTyped DEF PipelineInv
<1>2. UNCHANGED <<used, heard>>
  BY DEF callLender
<1>3. QED
  BY <1>1, <1>2, UnspentGoesOn, AdvanceInTurn

LEMMA MarkInTurn ==
  ASSUME PipelineInv, VerdictInv, markStageFailure
  PROVE  VerdictInv'
<1>1. /\ worker.pc \in {"retrying", "failing"} /\ worker'.pc \in {"settleRetry", "settleFailed"}
      /\ worker'.key = worker.key /\ link'.decisionVersion = link.decisionVersion
      /\ UNCHANGED <<row, app, consents, client, review, lender, lost>>
  BY MarkTyped DEF PipelineInv
<1>2. UNCHANGED <<used, heard>>
  BY DEF markStageFailure
<1>3. QED
  BY <1>1, <1>2, UnspentGoesOn, AdvanceInTurn

\* Whatever decision or poll is open is for the request in turn, and once the lender has
\* taken it, the lender answers for that request.
LEMMA ReceivedInTurn ==
  ASSUME Shape, LinkBacked, RowsInTurn, NEW k \in Keys
  PROVE  /\ k \notin DecisionKeys => Received(k).stage = lender.stage
         /\ k \in DecisionKeys /\ Open(k) => Received(k).stage = Turn
<1>1. Received(k).stage = IF k[1] = "DECISION" /\ k[2] > lender.stage THEN k[2] ELSE lender.stage
  BY DEF Received, Shape, Lenders
<1>2. k \notin DecisionKeys => k[1] # "DECISION"
  BY DEF DecisionKeys
<1>3. lender.stage \in 0..2
  BY DEF Shape, Lenders
<1>4. ASSUME k \in DecisionKeys, Open(k)
      PROVE  Received(k).stage = Turn
  <2>1. CASE k = <<"DECISION", 1>>
    <3>1. ~FinalAsked
      BY <1>4, <2>1 DEF RowsInTurn, FirstClosed, Open
    <3>2. lender.stage # 2 /\ Turn = 1
      BY <3>1 DEF RowsInTurn, Turn
    <3>3. k[1] = "DECISION" /\ k[2] = 1
      BY <2>1
    <3>4. QED
      BY <1>1, <1>3, <3>2, <3>3
  <2>2. CASE k = <<"DECISION", 2>>
    <3>1. FinalAsked
      BY <1>4, <2>2 DEF FinalAsked, Open
    <3>2. Turn = 2
      BY <3>1 DEF Turn
    <3>3. k[1] = "DECISION" /\ k[2] = 2
      BY <2>2
    <3>4. QED
      BY <1>1, <1>3, <3>2, <3>3
  <2>3. ASSUME NEW n \in 1..MaxPolls, k = <<"STATUS", n>>
        PROVE  Received(k).stage = Turn
    <3>1. k[1] = "STATUS" /\ k # <<"DECISION", 2>>
      BY <2>3
    <3>2. FirstClosed
      BY <1>4, <2>3 DEF RowsInTurn, Open
    <3>3. FinalAsked => FinalClosed
      <4>1. FinalAsked /\ ~FinalClosed => Open(<<"DECISION", 2>>)
        BY DEF FinalAsked, FinalClosed, Open
      <4>2. QED
        BY <1>4, <3>1, <4>1, DecisionKeysThere DEF RowsInTurn
    <3>4. lender.stage >= 1 /\ (FinalAsked => lender.stage = 2) /\ (lender.stage = 2 => FinalAsked)
      BY <3>2, <3>3 DEF RowsInTurn
    <3>5. lender.stage = Turn
      BY <1>3, <3>4 DEF Turn
    <3>6. QED
      BY <1>1, <3>1, <3>5
  <2>4. QED
    BY <1>4, <2>1, <2>2, <2>3, DecisionKeysThere
<1>5. QED
  BY <1>1, <1>2, <1>4

LEMMA LenderInTurn ==
  ASSUME PipelineInv, VerdictInv, worker.pc = "calling", row' = row, link' = link,
         lender' = lender \/ lender' = Received(worker.key)
  PROVE  /\ RowsInTurn'
         /\ lender' = Received(worker.key) /\ worker.key \in DecisionKeys => lender'.stage = Turn
<1>1. worker.key \in Keys /\ row[worker.key] = "PROCESSING"
  BY AtWork DEF VerdictInv, WorkerInTurn
<1>2. Open(worker.key)
  BY <1>1 DEF Open
<1>3. lender' = Received(worker.key) =>
        IF worker.key \in DecisionKeys THEN lender'.stage = Turn ELSE lender'.stage = lender.stage
  BY <1>1, <1>2, ReceivedInTurn DEF PipelineInv, VerdictInv
<1>4. lender'.stage \in {lender.stage, Turn}
  BY <1>3
<1>5. DecisionRowsStay
  BY SameRowsStay
<1>6. RowsInTurn'
  <2>1. CASE lender'.stage = lender.stage
    BY <1>5, <2>1, RowsInTurnStay DEF VerdictInv
  <2>2. CASE lender'.stage = Turn
    <3>1. /\ FinalAsked' <=> FinalAsked
          /\ FirstClosed' <=> FirstClosed
          /\ FinalClosed' <=> FinalClosed
          /\ \A k \in DecisionKeys : (Open(k))' <=> Open(k)
      BY <1>5, TurnStays
    <3>2. RowsInTurn
      BY DEF VerdictInv
    <3>3. FinalClosed => FinalAsked
      BY DEF FinalClosed, FinalAsked
    <3>4. lender'.stage >= 1 /\ (FinalAsked => lender'.stage = 2) /\ (lender'.stage = 2 => FinalAsked)
      BY <2>2 DEF Turn
    <3>5. \A j, k \in DecisionKeys : (Open(j))' /\ (Open(k))' => j = k
      BY <3>1, <3>2 DEF RowsInTurn
    <3>6. \A n \in 1..MaxPolls : row'[<<"STATUS", n>>] # "absent" => FirstClosed'
      BY <3>1, <3>2 DEF RowsInTurn
    <3>7. (FinalAsked' => FirstClosed') /\ (FinalAsked' => link'.decisionVersion = 2)
      BY <3>1, <3>2 DEF RowsInTurn
    <3>8. QED
      BY <3>1, <3>3, <3>4, <3>5, <3>6, <3>7 DEF RowsInTurn
  <2>3. QED
    BY <1>4, <2>1, <2>2
<1>7. QED
  BY <1>3, <1>6

\* The lender's stage moves, and nothing else that the verdicts depend on.
LEMMA LenderStageMoves ==
  ASSUME VerdictInv, row' = row, RowsInTurn', WorkerInTurn', UsedGoesOn,
         UNCHANGED <<app, review, heard, client, consents>>
  PROVE  VerdictInv'
<1>1. DecisionRowsStay /\ PushesStay
  BY SameRowsStay
<1>2. HeardInTurn' /\ StatusInTurn' /\ PushesInTurn' /\ ClientsInTurn' /\ Spent'
  BY <1>1, TurnStays, HeardStays, StatusStays, PushesInTurnStay, ClientsInTurnStay, SpentStays
  DEF VerdictInv
<1>3. QED
  BY <1>2 DEF VerdictInv

LEMMA AnswerInTurn ==
  ASSUME PipelineInv, VerdictInv, NEW verdict \in Verdicts, lenderAnswers(verdict)
  PROVE  VerdictInv'
<1>1. /\ worker.pc = "calling" /\ worker'.pc = "answered" /\ worker'.key = worker.key
      /\ lender' = Received(worker.key)
  BY AnswerTyped DEF PipelineInv
<1>2. UNCHANGED <<row, link, app, consents, client, review, used, heard>>
  BY DEF lenderAnswers
<1>3. /\ RowsInTurn'
      /\ worker.key \in DecisionKeys => lender'.stage = Turn
  BY <1>1, <1>2, LenderInTurn
<1>4. worker.key \in Keys /\ row[worker.key] = "PROCESSING"
  BY <1>1, AtWork DEF VerdictInv, WorkerInTurn
<1>5. worker.key[1] \in {"DECISION", "STATUS"} =>
        worker'.answer = [stage |-> lender'.stage, verdict |-> verdict]
  BY DEF lenderAnswers, PipelineInv, Shape, Workers
<1>6. worker.key[1] \in {"DECISION", "STATUS"} =>
        /\ worker'.answer.stage = lender'.stage /\ worker'.answer.verdict = verdict
        /\ lender'.stage = Turn
  BY <1>3, <1>4, <1>5 DEF DecisionKeys
<1>7. Turn' = Turn
  BY <1>2, SameRowsStay, TurnStays
<1>8. WorkerInTurn'
  <2>1. row'[worker'.key] = "PROCESSING"
    BY <1>1, <1>2, <1>4
  <2>2. Judging' => worker'.answer.stage = Turn' /\ lender'.stage = Turn' /\ worker'.answer.verdict \in Verdicts
    BY <1>1, <1>6, <1>7 DEF Judging
  <2>3. ~Versioned' /\ worker'.pc # "deciding"
    BY <1>1 DEF Versioned
  <2>4. QED
    BY <2>1, <2>2, <2>3 DEF WorkerInTurn
<1>9. UsedGoesOn
  BY <1>2, UnspentGoesOn
<1>10. QED
  BY <1>2, <1>3, <1>8, <1>9, LenderStageMoves

LEMMA FailInTurn ==
  ASSUME PipelineInv, VerdictInv, NEW retrying \in BOOLEAN, lenderFails(retrying)
  PROVE  VerdictInv'
<1>1. /\ worker.pc = "calling" /\ worker'.pc \in {"retrying", "failing"} /\ worker'.key = worker.key
      /\ lender' \in {lender, Received(worker.key)}
  BY FailTyped DEF PipelineInv
<1>2. UNCHANGED <<row, link, app, consents, client, review, heard>> /\ Spend("failures")
  BY DEF lenderFails
<1>3. RowsInTurn'
  BY <1>1, <1>2, LenderInTurn
<1>4. row[worker.key] = "PROCESSING"
  BY <1>1 DEF VerdictInv, WorkerInTurn
<1>5. WorkerInTurn'
  BY <1>1, <1>2, <1>4 DEF WorkerInTurn, Judging, Versioned
<1>6. UsedGoesOn
  BY <1>2, UnspentGoesOn
<1>7. QED
  BY <1>2, <1>3, <1>5, <1>6, LenderStageMoves

\* Rows of the consents and of the profile's first update.
LEMMA EarlyRowsOnly ==
  ASSUME \A j \in Keys : j[1] \in {"DECISION", "STATUS"} => row'[j] = row[j],
         \A v \in Versions : v >= 2 =>
           (row'[<<"UPDATE", v>>] = "absent" <=> row[<<"UPDATE", v>>] = "absent")
  PROVE  DecisionRowsStay /\ PushesStay
  BY DEF DecisionRowsStay, PushesStay, DecisionKeys

LEMMA CreateInTurn ==
  ASSUME PipelineInv, VerdictInv, completeCreate
  PROVE  VerdictInv'
<1> DEFINE rows == [row EXCEPT ![worker.key] = "COMPLETED"]
           k == <<"CONSENT", 1>>
<1>1. /\ worker.pc = "answered" /\ worker.key[1] = "CREATE" /\ worker'.pc = "followUp"
      /\ worker'.key = worker.key /\ row' = Upsert(rows, k)
      /\ link'.decisionVersion = link.decisionVersion
  BY CreateTyped DEF PipelineInv
<1>2. UNCHANGED <<app, consents, client, review, used, lender, heard>>
  BY DEF completeCreate
<1>3. worker.key \in Keys /\ row[worker.key] # "absent" /\ row \in [Keys -> RowStatus]
  BY <1>1, AtWork
<1>4. /\ rows \in [Keys -> RowStatus]
      /\ \A j \in Keys : j[1] # "CREATE" => rows[j] = row[j]
  BY <1>1, <1>3 DEF RowStatus
<1>5. k \in Keys /\ k[1] = "CONSENT"
  BY KeysThere
<1> HIDE DEF rows, k
<1>6. \A j \in Keys : j # k => row'[j] = rows[j]
  BY <1>1, <1>4, <1>5, UpsertAdds
<1>7. \A j \in Keys : j[1] \in {"DECISION", "STATUS", "UPDATE"} => row'[j] = row[j]
  BY <1>4, <1>5, <1>6
<1>8. \A v \in Versions : row'[<<"UPDATE", v>>] = row[<<"UPDATE", v>>]
  BY <1>7, KeysThere
<1>9. DecisionRowsStay /\ PushesStay
  BY <1>7, <1>8, EarlyRowsOnly
<1>10. WorkerInTurn' /\ UsedGoesOn
  BY <1>1, <1>2, UnspentGoesOn DEF WorkerInTurn, Judging, Versioned
<1>11. QED
  BY <1>1, <1>2, <1>9, <1>10, VerdictsStay

LEMMA ConsentInTurn ==
  ASSUME PipelineInv, VerdictInv, completeConsent
  PROVE  VerdictInv'
<1>1. /\ worker.pc = "answered" /\ worker.key[1] \in {"CONSENT", "OTHER_CONSENT"}
      /\ worker'.pc = "followUp" /\ worker'.key = worker.key
      /\ row' = [row EXCEPT ![worker.key] = "COMPLETED"]
      /\ link'.decisionVersion = link.decisionVersion
  BY ConsentTyped DEF PipelineInv
<1>2. UNCHANGED <<app, consents, client, review, used, lender, heard>>
  BY DEF completeConsent
<1>3. worker.key \in Keys /\ row[worker.key] # "absent"
  BY <1>1, AtWork
<1>4. DecisionRowsStay /\ PushesStay
  BY <1>1, <1>3, OtherRowCloses DEF PipelineInv
<1>5. WorkerInTurn' /\ UsedGoesOn
  BY <1>1, <1>2, UnspentGoesOn DEF WorkerInTurn, Judging, Versioned
<1>6. QED
  BY <1>1, <1>2, <1>4, <1>5, VerdictsStay

LEMMA UpdateInTurn ==
  ASSUME PipelineInv, VerdictInv, completeUpdate
  PROVE  VerdictInv'
<1>1. /\ worker.pc = "answered" /\ worker.key[1] = "UPDATE"
      /\ row' = [row EXCEPT ![worker.key] = "COMPLETED"]
      /\ link'.decisionVersion = link.decisionVersion
      /\ worker'.pc = "followUp" \/ worker' = Idle
  BY UpdateTyped DEF PipelineInv
<1>2. UNCHANGED <<app, consents, client, review, used, lender, heard>>
  BY DEF completeUpdate
<1>3. worker.key \in Keys /\ row[worker.key] # "absent"
  BY <1>1, AtWork
<1>4. DecisionRowsStay /\ PushesStay
  BY <1>1, <1>3, OtherRowCloses DEF PipelineInv
<1>5. WorkerInTurn'
  <2>1. CASE worker' = Idle
    BY <2>1, IdleInTurn
  <2>2. CASE worker'.pc = "followUp"
    BY <2>2 DEF WorkerInTurn, Judging, Versioned
  <2>3. QED
    BY <1>1, <2>1, <2>2
<1>6. UsedGoesOn
  BY <1>2, UnspentGoesOn
<1>7. QED
  BY <1>1, <1>2, <1>4, <1>5, <1>6, VerdictsStay

LEMMA ReadInTurn ==
  ASSUME PipelineInv, VerdictInv, readDecision
  PROVE  VerdictInv'
<1>1. /\ worker.pc = "answered" /\ worker.key[1] \in {"DECISION", "STATUS"}
      /\ worker'.pc = "deciding" /\ worker'.key = worker.key /\ worker'.link = link
  BY ReadTyped DEF PipelineInv
<1>2. worker'.answer = worker.answer /\ worker'.status = app.status
  BY DEF readDecision, PipelineInv, Shape, Workers
<1>3. UNCHANGED <<row, link, app, consents, client, review, used, lender, heard>>
  BY DEF readDecision
<1>4. DecisionRowsStay /\ PushesStay /\ Turn' = Turn
  BY <1>3, SameRowsStay, TurnStays
<1>5. row[worker.key] = "PROCESSING"
  BY <1>1 DEF VerdictInv, WorkerInTurn
<1>6. worker.answer.stage = Turn /\ lender.stage = Turn /\ worker.answer.verdict \in Verdicts
  BY <1>1 DEF VerdictInv, WorkerInTurn, Judging
<1>7. WorkerInTurn'
  BY <1>1, <1>2, <1>3, <1>4, <1>5, <1>6 DEF WorkerInTurn
<1>8. UsedGoesOn
  BY <1>3, UnspentGoesOn
<1>9. QED
  BY <1>3, <1>4, <1>7, <1>8, VerdictsStay

LEMMA SettleInTurn ==
  ASSUME PipelineInv, VerdictInv, settleFailure
  PROVE  VerdictInv'
<1>1. /\ worker.pc \in {"settleRetry", "settleFailed"} /\ worker' = Idle
      /\ \E st \in {"RETRY_PENDING", "FAILED"} : row' = [row EXCEPT ![worker.key] = st]
  BY SettleTyped DEF PipelineInv
<1>2. UNCHANGED <<link, app, consents, client, review, used, lender, heard>>
  BY DEF settleFailure
<1>3. worker.key \in Keys /\ row[worker.key] = "PROCESSING"
  BY <1>1, AtWork DEF VerdictInv, WorkerInTurn
<1>4. DecisionRowsStay /\ PushesStay
  BY <1>1, <1>3, OneRowMoves DEF PipelineInv
<1>5. WorkerInTurn' /\ UsedGoesOn
  BY <1>1, <1>2, IdleInTurn, UnspentGoesOn
<1>6. QED
  BY <1>2, <1>4, <1>5, VerdictsStay

LEMMA CrashInTurn ==
  ASSUME PipelineInv, VerdictInv, crash
  PROVE  VerdictInv'
<1>1. worker' = Idle /\ UNCHANGED <<row, link, app, consents, client, review, lender, heard>> /\ Spend("crashes")
  BY DEF crash
<1>2. DecisionRowsStay /\ PushesStay
  BY <1>1, SameRowsStay
<1>3. WorkerInTurn' /\ UsedGoesOn
  BY <1>1, IdleInTurn, UnspentGoesOn
<1>4. QED
  BY <1>1, <1>2, <1>3, VerdictsStay

LEMMA SweepInTurn ==
  ASSUME PipelineInv, VerdictInv, NEW k \in Keys, sweep(k)
  PROVE  VerdictInv'
<1>1. /\ row[k] = "PROCESSING" /\ row' = [row EXCEPT ![k] = "RETRY_PENDING"] /\ worker.pc = "idle"
      /\ UNCHANGED <<link, app, consents, worker, client, review, used, lender, heard>>
  BY DEF sweep
<1>2. DecisionRowsStay /\ PushesStay
  BY <1>1, OneRowMoves DEF PipelineInv
<1>3. WorkerInTurn' /\ UsedGoesOn
  BY <1>1, UnspentGoesOn DEF WorkerInTurn, Judging, Versioned
<1>4. QED
  BY <1>1, <1>2, <1>3, VerdictsStay

\* The worker stays where it is while another actor moves.
LEMMA WorkerInTurnStays ==
  ASSUME WorkerInTurn, worker' = worker, lender' = lender, Turn' = Turn,
         link'.decisionVersion = link.decisionVersion,
         app'.status = app.status \/ app'.status = "LENDER_REJECTED",
         row[worker.key] = "PROCESSING" => row'[worker.key] = "PROCESSING"
  PROVE  WorkerInTurn'
  BY DEF WorkerInTurn, Judging, Versioned

LEMMA ReplayInTurn ==
  ASSUME PipelineInv, VerdictInv, NEW k \in Keys, replayFailedEvent(k)
  PROVE  VerdictInv'
<1>1. /\ row[k] \in {"FAILED", "RETRY_PENDING"} /\ row' = [row EXCEPT ![k] = "PENDING"]
      /\ link'.decisionVersion = link.decisionVersion
  BY ReplayTyped DEF PipelineInv
<1>2. UNCHANGED <<app, consents, worker, client, review, lender, heard>> /\ Spend("replays")
  BY DEF replayFailedEvent
<1>3. DecisionRowsStay /\ PushesStay
  BY <1>1, OneRowMoves DEF PipelineInv
<1>4. worker.key \in Keys /\ row \in [Keys -> RowStatus]
  BY DEF PipelineInv, Shape, Workers
<1>5. row[worker.key] = "PROCESSING" => row'[worker.key] = "PROCESSING"
  BY <1>1, <1>4
<1>6. Turn' = Turn
  BY <1>3, TurnStays
<1>7. WorkerInTurn' /\ UsedGoesOn
  BY <1>1, <1>2, <1>5, <1>6, WorkerInTurnStays, UnspentGoesOn DEF VerdictInv
<1>8. QED
  BY <1>1, <1>2, <1>3, <1>7, VerdictsStay

LEMMA OtherConsentInTurn ==
  ASSUME Shape, row' = row \/ row' = Upsert(row, <<"OTHER_CONSENT", 1>>)
  PROVE  /\ DecisionRowsStay /\ PushesStay
         /\ \A k \in Keys : row[k] # "absent" => row'[k] = row[k]
<1> DEFINE k == <<"OTHER_CONSENT", 1>>
<1>1. k \in Keys /\ k[1] = "OTHER_CONSENT" /\ row \in [Keys -> RowStatus]
  BY KeysThere DEF Shape
<1>2. row' = row \/ row' = Upsert(row, k)
  OBVIOUS
<1> HIDE DEF k
<1>3. /\ \A j \in Keys : j # k => row'[j] = row[j]
      /\ \A j \in Keys : row[j] # "absent" => row'[j] = row[j]
  BY <1>1, <1>2, UpsertAdds
<1>4. \A j \in Keys : j[1] \in {"DECISION", "STATUS", "UPDATE"} => row'[j] = row[j]
  BY <1>1, <1>3
<1>5. \A v \in Versions : row'[<<"UPDATE", v>>] = row[<<"UPDATE", v>>]
  BY <1>4, KeysThere
<1>6. QED
  BY <1>3, <1>4, <1>5, EarlyRowsOnly

LEMMA FollowInTurn ==
  ASSUME PipelineInv, VerdictInv, followUp
  PROVE  VerdictInv'
<1>1. /\ worker.pc = "followUp"
      /\ row' = row \/ row' = Upsert(row, <<"OTHER_CONSENT", 1>>)
      /\ \/ worker' = Idle
         \/ worker'.pc = "followWrite" /\ worker'.key = worker.key /\ worker'.link = link
  BY FollowTyped DEF PipelineInv
<1>2. UNCHANGED <<link, app, consents, client, review, used, lender, heard>>
  BY DEF followUp
<1>3. DecisionRowsStay /\ PushesStay
  BY <1>1, OtherConsentInTurn DEF PipelineInv
<1>4. WorkerInTurn'
  <2>1. CASE worker' = Idle
    BY <2>1, IdleInTurn
  <2>2. CASE worker'.pc = "followWrite" /\ worker'.link = link
    BY <1>2, <2>2 DEF WorkerInTurn, Judging, Versioned
  <2>3. QED
    BY <1>1, <2>1, <2>2
<1>5. UsedGoesOn
  BY <1>2, UnspentGoesOn
<1>6. QED
  BY <1>2, <1>3, <1>4, <1>5, VerdictsStay

\* A queued update opens no decision.
LEMMA UpdateQueuedInTurn ==
  ASSUME Shape, NEW l \in Links, NEW v \in Versions, writeUpdate(v, l)
  PROVE  /\ DecisionRowsStay /\ (v = 1 => PushesStay)
         /\ \A k \in Keys : row[k] # "absent" => row'[k] = row[k]
         /\ \A u \in Versions : u # v => row'[<<"UPDATE", u>>] = row[<<"UPDATE", u>>]
         /\ link'.decisionVersion = link.decisionVersion
<1> DEFINE k == <<"UPDATE", v>>
<1>1. row' = Upsert(row, k) /\ link'.decisionVersion = link.decisionVersion
  BY LinkAfterUpdate
<1>2. k \in Keys /\ k[1] = "UPDATE" /\ k[2] = v /\ row \in [Keys -> RowStatus]
  BY KeysThere DEF Shape
<1> HIDE DEF k
<1>3. /\ \A j \in Keys : j # k => row'[j] = row[j]
      /\ \A j \in Keys : row[j] # "absent" => row'[j] = row[j]
  BY <1>1, <1>2, UpsertAdds
<1>4. DecisionRowsStay
  BY <1>2, <1>3 DEF DecisionRowsStay, DecisionKeys
<1>5. \A u \in Versions : u # v => row'[<<"UPDATE", u>>] = row[<<"UPDATE", u>>]
  <2>1. ASSUME NEW u \in Versions, u # v
        PROVE  row'[<<"UPDATE", u>>] = row[<<"UPDATE", u>>]
    <3>1. <<"UPDATE", u>> \in Keys /\ <<"UPDATE", u>> # k
      BY <1>2, <2>1, KeysThere
    <3>2. QED
      BY <1>3, <3>1
  <2>2. QED
    BY <2>1
<1>6. v = 1 => PushesStay
  <2>1. \A u \in Versions : u >= 2 => u # 1
    BY Constants
  <2>2. QED
    BY <1>5, <2>1 DEF PushesStay
<1>7. QED
  BY <1>1, <1>3, <1>4, <1>5, <1>6

\* A request for a decision opens its row when no other is open, and leaves the link's
\* version at the request in turn.
LEMMA DecisionOpened ==
  ASSUME PipelineInv, VerdictInv, NEW v \in 1..2, NEW l \in Links, writeDecision(v, l),
         heard' = heard, lender' = lender,
         v = 1 /\ FinalAsked => l.decisionVersion = 2, v = 2 => Said(1, "APPROVED")
  PROVE  /\ RowsInTurn' /\ HeardInTurn' /\ PushesStay
         /\ v = 1 => (FinalAsked' <=> FinalAsked) /\ link'.decisionVersion = link.decisionVersion
         /\ \A k \in Keys : row[k] # "absent" => row'[k] = row[k]
<1> DEFINE k == <<"DECISION", v>>
           m == [link EXCEPT !.decision = "PENDING", !.decisionVersion = v, !.asked = TRUE]
<1>1. row' = Upsert(row, k) /\ link' = IF l.decisionVersion <= v THEN m ELSE link
  BY DEF writeDecision
<1>2. m.decisionVersion = v /\ l.decisionVersion \in 1..2 /\ link.decisionVersion \in 1..2
  BY DEF PipelineInv, Shape, Links
<1>3. k \in DecisionKeys /\ k \in Keys /\ k[1] = "DECISION" /\ row \in [Keys -> RowStatus]
  BY KeysThere DEF DecisionKeys, PipelineInv, Shape
<1>4. (v = 1 => k = <<"DECISION", 1>>) /\ (v = 2 => k = <<"DECISION", 2>>) /\ (v = 1 \/ v = 2)
  OBVIOUS
<1> HIDE DEF k, m
<1>5. link.decisionVersion = 2 <=> FinalAsked
  BY <1>2 DEF PipelineInv, LinkBacked, VerdictInv, RowsInTurn
<1>6. v = 1 => link'.decisionVersion = link.decisionVersion
  <2>1. SUFFICES ASSUME v = 1 PROVE link'.decisionVersion = link.decisionVersion
    OBVIOUS
  <2>2. CASE l.decisionVersion = 2
    BY <1>1, <2>1, <2>2
  <2>3. CASE l.decisionVersion = 1
    <3>1. ~FinalAsked
      BY <2>1, <2>3
    <3>2. link.decisionVersion = 1
      BY <1>2, <1>5, <3>1
    <3>3. link'.decisionVersion = 1
      BY <1>1, <1>2, <2>1, <2>3
    <3>4. QED
      BY <3>2, <3>3
  <2>4. QED
    BY <1>2, <2>2, <2>3
<1>7. v = 2 => link'.decisionVersion = 2
  BY <1>1, <1>2
<1>8. /\ row'[k] # "absent" /\ \A j \in Keys : j # k => row'[j] = row[j]
      /\ \A j \in Keys : row[j] # "absent" => row'[j] = row[j]
  BY <1>1, <1>3, UpsertAdds
<1>9. PushesStay
  <2>1. \A u \in Versions : <<"UPDATE", u>> \in Keys /\ <<"UPDATE", u>>[1] = "UPDATE"
    BY KeysThere
  <2>2. \A u \in Versions : row'[<<"UPDATE", u>>] = row[<<"UPDATE", u>>]
    BY <1>3, <1>8, <2>1
  <2>3. QED
    BY <2>2 DEF PushesStay
<1>10. CASE row[k] # "absent"
  <2>1. \A j \in Keys : row'[j] = row[j]
    BY <1>8, <1>10
  <2>2. DecisionRowsStay
    BY <2>1 DEF DecisionRowsStay, DecisionKeys
  <2>3. v = 2 => FinalAsked
    BY <1>4, <1>10 DEF FinalAsked
  <2>4. link'.decisionVersion = link.decisionVersion
    BY <1>4, <1>5, <1>6, <1>7, <2>3
  <2>5. RowsInTurn' /\ HeardInTurn'
    BY <2>2, <2>4, RowsInTurnStay, HeardStays DEF VerdictInv
  <2>6. FinalAsked' <=> FinalAsked
    BY <2>2, TurnStays
  <2>7. QED
    BY <1>6, <1>8, <1>9, <2>5, <2>6
<1>11. CASE row[k] = "absent"
  <2>1. row'[k] = "PENDING"
    BY <1>1, <1>3, <1>11 DEF Upsert
  <2>2. RowsInTurn /\ HeardInTurn /\ RowsBacked
    BY DEF VerdictInv, PipelineInv
  <2>3. v = 2 => Final(1)
    BY DEF Final
  <2>4. ~FinalAsked /\ (v = 1 => ~FirstAsked)
    BY <1>4, <1>11, <2>2 DEF FinalAsked, FirstAsked, RowsBacked
  <2>5. NoneOpen
    <3>1. CASE v = 2
      BY <2>2, <2>3, <2>4, <3>1 DEF HeardInTurn
    <3>2. CASE v = 1
      <4>1. row[<<"DECISION", 1>>] = "absent" /\ row[<<"DECISION", 2>>] = "absent"
        BY <2>4, <3>2 DEF FirstAsked, FinalAsked
      <4>2. \A n \in 1..MaxPolls : row[<<"STATUS", n>>] = "absent"
        BY <2>2, <2>4, <3>2 DEF RowsBacked
      <4>3. QED
        BY <4>1, <4>2, DecisionKeysThere DEF NoneOpen, Open
    <3>3. QED
      BY <1>4, <3>1, <3>2
  <2>6. \A j \in DecisionKeys : (Open(j))' => j = k
    BY <1>8, <2>5 DEF NoneOpen, Open, DecisionKeys
  <2>7. v = 2 => FirstAsked /\ FirstClosed
    <3>1. v = 2 => FirstAsked
      BY <2>2, <2>3 DEF HeardInTurn
    <3>2. ~Open(<<"DECISION", 1>>)
      BY <2>5, DecisionKeysThere DEF NoneOpen
    <3>3. QED
      BY <3>1, <3>2 DEF FirstAsked, FirstClosed, Open
  <2>8. \A n \in 1..MaxPolls : row'[<<"STATUS", n>>] = row[<<"STATUS", n>>]
    <3>1. \A n \in 1..MaxPolls : <<"STATUS", n>> \in Keys /\ <<"STATUS", n>>[1] = "STATUS"
      BY KeysThere
    <3>2. QED
      BY <1>3, <1>8, <3>1
  <2>9. CASE v = 1
    <3>1. FinalAsked' <=> FinalAsked
      BY <1>3, <1>4, <1>8, <2>9, KeysThere DEF FinalAsked
    <3>2. ~FirstClosed' /\ ~FinalClosed' /\ FirstAsked'
      BY <1>4, <2>1, <2>4, <2>9, <3>1 DEF FirstClosed, FinalClosed, FirstAsked, FinalAsked
    <3>3. \A n \in 1..MaxPolls : row'[<<"STATUS", n>>] = "absent"
      BY <2>2, <2>4, <2>8, <2>9 DEF RowsBacked
    <3>4. lender'.stage = 2 => FinalAsked'
      BY <2>2, <3>1 DEF RowsInTurn
    <3>5. RowsInTurn'
      BY <2>4, <2>6, <3>1, <3>2, <3>3, <3>4 DEF RowsInTurn
    <3>6. ~Final(1) /\ ~Final(2)
      BY <2>2, <2>4, <2>9 DEF HeardInTurn
    <3>7. \A s, x : (Said(s, x))' <=> Said(s, x)
      BY DEF Said
    <3>8. HeardInTurn'
      BY <2>2, <2>4, <3>1, <3>6, <3>7 DEF HeardInTurn, Final
    <3>9. QED
      BY <1>6, <1>8, <1>9, <2>9, <3>1, <3>5, <3>8
  <2>10. CASE v = 2
    <3>1. FinalAsked' /\ ~FinalClosed'
      BY <1>4, <2>1, <2>10 DEF FinalAsked, FinalClosed
    <3>2. FirstClosed' /\ FirstAsked'
      BY <1>8, <2>7, <2>10, KeysThere DEF FirstClosed, FirstAsked
    <3>3. lender'.stage >= 1
      BY <2>2, <2>7, <2>10 DEF RowsInTurn
    <3>4. RowsInTurn'
      BY <1>7, <2>6, <2>10, <3>1, <3>2, <3>3 DEF RowsInTurn
    <3>5. ~Final(2)
      BY <2>2, <2>4 DEF HeardInTurn
    <3>6. \A s, x : (Said(s, x))' <=> Said(s, x)
      BY DEF Said
    <3>7. Said(1, "APPROVED")
      BY <2>10
    <3>8. HeardInTurn'
      BY <2>2, <3>1, <3>2, <3>5, <3>6, <3>7 DEF HeardInTurn, Final
    <3>9. QED
      BY <1>8, <1>9, <2>10, <3>4, <3>8
  <2>11. QED
    BY <1>4, <2>9, <2>10
<1>12. QED
  BY <1>10, <1>11

LEMMA WriteInTurn ==
  ASSUME PipelineInv, VerdictInv, followWrite
  PROVE  VerdictInv'
<1>1. worker.pc = "followWrite" /\ worker' = Idle
      /\ UNCHANGED <<app, consents, client, review, used, lender, heard>>
  BY DEF followWrite
<1>2. /\ worker.key \in Keys /\ worker.link \in Links /\ row[worker.key] # "absent"
      /\ worker.key[1] = "UPDATE" => worker.key[2] <= 2 /\ consents
  BY <1>1 DEF PipelineInv, Shape, Workers, WorkerBacked, Following
<1>3. \/ worker.key[1] = "UPDATE" /\ worker.key[2] \in 1..2 /\ writeDecision(worker.key[2], worker.link)
      \/ worker.key[1] # "UPDATE" /\ writeUpdate(1, worker.link)
  BY <1>2, WriteTyped DEF PipelineInv
<1>4. WorkerInTurn' /\ UsedGoesOn
  BY <1>1, IdleInTurn, UnspentGoesOn
<1>5. CASE worker.key[1] # "UPDATE" /\ writeUpdate(1, worker.link)
  <2>1. DecisionRowsStay /\ PushesStay /\ link'.decisionVersion = link.decisionVersion
    BY <1>2, <1>5, Constants, UpdateQueuedInTurn DEF PipelineInv
  <2>2. QED
    BY <1>1, <1>4, <2>1, VerdictsStay
<1>6. CASE worker.key[1] = "UPDATE" /\ worker.key[2] \in 1..2 /\ writeDecision(worker.key[2], worker.link)
  <2>1. PICK v \in 1..2 : v = worker.key[2]
    BY <1>6
  <2>2. worker.key = <<"UPDATE", v>> /\ v \in Versions
    BY <1>2, <1>6, <2>1, KeyForms
  <2>3. writeDecision(v, worker.link)
    BY <1>6, <2>1
  <2>4. v = 2 => Said(1, "APPROVED") /\ \A c \in Clients : ~Submitting(c)
    <3>1. v = 2 => v >= 2 /\ row[<<"UPDATE", v>>] # "absent"
      BY <1>2, <2>2
    <3>2. QED
      BY <2>2, <3>1 DEF VerdictInv, PushesInTurn, ClientsInTurn
  <2>5. FinalAsked => worker.link.decisionVersion = 2
    <3>1. worker.link.decisionVersion = link.decisionVersion
      BY <1>1, <1>6 DEF VerdictInv, WorkerInTurn, Versioned
    <3>2. QED
      BY <3>1 DEF VerdictInv, RowsInTurn
  <2>6. /\ RowsInTurn' /\ HeardInTurn' /\ PushesStay
        /\ v = 1 => (FinalAsked' <=> FinalAsked)
    BY <1>1, <1>2, <2>3, <2>4, <2>5, DecisionOpened
  <2>7. StatusInTurn' /\ PushesInTurn' /\ Spent'
    BY <1>1, <1>4, <2>6, StatusStays, PushesInTurnStay, SpentStays DEF VerdictInv
  <2>8. ClientsInTurn'
    <3>1. CASE v = 1
      BY <1>1, <2>6, <3>1, ClientsInTurnStay DEF VerdictInv
    <3>2. CASE v = 2
      <4>1. SUFFICES ASSUME NEW c \in Clients
                     PROVE  /\ client'[c].pc = "writeOffer" \/ client'[c].version >= 2 => Said(1, "APPROVED")'
                            /\ client'[c].pc = "idle" \/ Submitting(c)' => client'[c].version = 1
                            /\ ~Submitting(c)'
        BY DEF ClientsInTurn
      <4>2. (Submitting(c)' <=> Submitting(c)) /\ (Said(1, "APPROVED")' <=> Said(1, "APPROVED"))
        BY <1>1 DEF Submitting, Said
      <4>3. QED
        BY <1>1, <2>4, <3>2, <4>2 DEF VerdictInv, ClientsInTurn
    <3>3. QED
      BY <3>1, <3>2
  <2>9. QED
    BY <1>4, <2>6, <2>7, <2>8 DEF VerdictInv
<1>7. QED
  BY <1>3, <1>5, <1>6

-------------------------------------------------------------------------------
(* The decision.                                                            *)

\* While the worker decides, its row is the one that is open, its answer is for the request
\* in turn, of which no final verdict was heard, and nobody reviews the application.
LEMMA Deciding ==
  ASSUME PipelineInv, VerdictInv, worker.pc = "deciding"
  PROVE  /\ worker.key \in DecisionKeys /\ Open(worker.key)
         /\ worker.answer.stage = Turn /\ lender.stage = Turn /\ worker.answer.verdict \in Verdicts
         /\ worker.answer = [stage |-> Turn, verdict |-> worker.answer.verdict]
         /\ ~Final(Turn) /\ ~Final(2) /\ review = "idle"
         /\ IsFinal(worker.link) <=> FinalAsked
         /\ app.status \in {worker.status, "LENDER_REJECTED"}
<1>1. worker.key \in Keys /\ worker.key[1] \in {"DECISION", "STATUS"}
  BY AtWork DEF PipelineInv, WorkerBacked
<1>2. row[worker.key] = "PROCESSING" /\ app.status \in {worker.status, "LENDER_REJECTED"}
  BY DEF VerdictInv, WorkerInTurn
<1>3. worker.key \in DecisionKeys /\ Open(worker.key)
  BY <1>1, <1>2 DEF DecisionKeys, Open
<1>4. worker.answer.stage = Turn /\ lender.stage = Turn /\ worker.answer.verdict \in Verdicts
  BY <1>1 DEF VerdictInv, WorkerInTurn, Judging
<1>5. worker.answer = [stage |-> Turn, verdict |-> worker.answer.verdict]
  BY <1>4 DEF PipelineInv, Shape, Workers
<1>6. ~NoneOpen
  BY <1>3 DEF NoneOpen
<1>7. ~Final(Turn) /\ ~Final(2)
  BY <1>6 DEF VerdictInv, HeardInTurn, Turn
<1>8. review = "idle"
  BY <1>7 DEF VerdictInv, StatusInTurn, Final
<1>9. IsFinal(worker.link) <=> FinalAsked
  <2>1. worker.link.decisionVersion = link.decisionVersion
    BY DEF VerdictInv, WorkerInTurn, Versioned
  <2>2. link.decisionVersion >= 2 => FinalAsked
    BY DEF PipelineInv, LinkBacked
  <2>3. FinalAsked => link.decisionVersion = 2
    BY DEF VerdictInv, RowsInTurn
  <2>4. QED
    BY <2>1, <2>2, <2>3 DEF IsFinal
<1>10. QED
  BY <1>2, <1>3, <1>4, <1>5, <1>7, <1>8, <1>9

\* The completed row leaves nothing open, unless the verdict is pending and a poll follows.
LEMMA CommitRowsInTurn ==
  ASSUME PipelineInv, VerdictInv, commitDecision
  PROVE  /\ RowsInTurn' /\ PushesStay
         /\ FirstAsked' <=> FirstAsked
         /\ FinalAsked' <=> FinalAsked
         /\ worker.answer.verdict # "PENDING" => NoneOpen'
<1> DEFINE k == worker.key
           rows == [row EXCEPT ![k] = "COMPLETED"]
<1>1. /\ worker.pc = "deciding" /\ lender' = lender
      /\ \/ row' = rows
         \/ \E n \in 1..MaxPolls : row' = Upsert(rows, <<"STATUS", n>>)
      /\ link'.decisionVersion = link.decisionVersion
  BY CommitTyped DEF PipelineInv
<1>2. k \in DecisionKeys /\ Open(k) /\ lender.stage = Turn
  BY <1>1, Deciding
<1>3. k \in Keys /\ row \in [Keys -> RowStatus] /\ row[k] \notin {"absent", "COMPLETED"}
  BY <1>2 DEF Open, DecisionKeys, PipelineInv, Shape
<1>4. /\ rows \in [Keys -> RowStatus] /\ rows[k] = "COMPLETED"
      /\ \A j \in Keys : j # k => rows[j] = row[j]
      /\ \A j \in Keys : rows[j] = "absent" <=> row[j] = "absent"
  BY <1>3 DEF RowStatus
<1>5. worker.answer.verdict # "PENDING" => row' = rows
  BY DEF commitDecision
<1> HIDE DEF rows, k
<1>6. RowsInTurn /\ RowsBacked
  BY DEF VerdictInv, PipelineInv
<1>7. \A j \in DecisionKeys : Open(j) => j = k
  BY <1>2, <1>6 DEF RowsInTurn
<1>8. \A j \in DecisionKeys : rows[j] \in {"absent", "COMPLETED"}
  BY <1>4, <1>7 DEF Open, DecisionKeys
<1>9. ASSUME row' = rows
      PROVE  NoneOpen'
  BY <1>8, <1>9 DEF NoneOpen, Open
\* Rows that were closed stay so, and only a poll is new.
<1>10. /\ \A j \in Keys : rows[j] # "absent" => row'[j] = rows[j]
       /\ \A j \in Keys : j[1] # "STATUS" => row'[j] = rows[j]
       /\ \A i, j \in DecisionKeys : (Open(i))' /\ (Open(j))' => i = j
  <2>1. CASE row' = rows
    BY <1>9, <2>1 DEF NoneOpen
  <2>2. ASSUME NEW n \in 1..MaxPolls, row' = Upsert(rows, <<"STATUS", n>>)
        PROVE  /\ \A j \in Keys : rows[j] # "absent" => row'[j] = rows[j]
               /\ \A j \in Keys : j[1] # "STATUS" => row'[j] = rows[j]
               /\ \A i, j \in DecisionKeys : (Open(i))' /\ (Open(j))' => i = j
    <3> DEFINE p == <<"STATUS", n>>
    <3>1. p \in Keys /\ p[1] = "STATUS" /\ row' = Upsert(rows, p)
      BY <2>2, KeysThere
    <3> HIDE DEF p
    <3>2. /\ \A j \in Keys : rows[j] # "absent" => row'[j] = rows[j]
          /\ \A j \in Keys : j # p => row'[j] = rows[j]
      BY <1>4, <3>1, UpsertAdds
    <3>3. \A j \in DecisionKeys : (Open(j))' => j = p
      BY <1>8, <3>2 DEF Open, DecisionKeys
    <3>4. QED
      BY <3>1, <3>2, <3>3
  <2>3. QED
    BY <1>1, <2>1, <2>2
<1>11. \A j \in Keys : j[1] # "STATUS" => (row'[j] = "absent" <=> row[j] = "absent")
  BY <1>4, <1>10
<1>12. (FirstAsked' <=> FirstAsked) /\ (FinalAsked' <=> FinalAsked)
  BY <1>11, KeysThere DEF FirstAsked, FinalAsked
<1>13. \A j \in Keys : j[1] = "DECISION" /\ row[j] # "absent" => row'[j] = "COMPLETED"
  <2>1. \A j \in Keys : j[1] = "DECISION" => j \in DecisionKeys
    BY DEF DecisionKeys
  <2>2. QED
    BY <1>4, <1>8, <1>10, <2>1
<1>14. (FirstAsked => FirstClosed') /\ (FinalAsked => FinalClosed')
  BY <1>13, KeysThere DEF FirstAsked, FinalAsked, FirstClosed, FinalClosed
<1>15. FirstAsked
  <2>1. CASE k = <<"DECISION", 1>>
    BY <1>3, <2>1 DEF FirstAsked
  <2>2. CASE k = <<"DECISION", 2>>
    BY <1>3, <1>6, <2>2 DEF FinalAsked, RowsBacked
  <2>3. CASE \E n \in 1..MaxPolls : k = <<"STATUS", n>>
    BY <1>3, <1>6, <2>3 DEF RowsBacked
  <2>4. QED
    BY <1>2, <2>1, <2>2, <2>3, DecisionKeysThere
<1>16. FinalClosed' => FinalAsked'
  BY DEF FinalClosed, FinalAsked
<1>17. lender'.stage >= 1 /\ (FinalAsked => lender'.stage = 2) /\ (lender'.stage = 2 => FinalAsked)
  BY <1>1, <1>2 DEF Turn
<1>18. FinalAsked' => link'.decisionVersion = 2
  BY <1>1, <1>6, <1>12 DEF RowsInTurn
<1>19. RowsInTurn'
  BY <1>10, <1>12, <1>14, <1>15, <1>16, <1>17, <1>18 DEF RowsInTurn
<1>20. PushesStay
  <2>1. \A v \in Versions : <<"UPDATE", v>> \in Keys /\ <<"UPDATE", v>>[1] = "UPDATE"
    BY KeysThere
  <2>2. QED
    BY <1>11, <2>1 DEF PushesStay
<1>21. QED
  BY <1>5, <1>9, <1>12, <1>19, <1>20

\* The verdict that is heard is the first final one of its stage.
LEMMA CommitHeardInTurn ==
  ASSUME PipelineInv, VerdictInv, commitDecision
  PROVE  /\ HeardInTurn'
         /\ \A s \in 1..2, v \in {"APPROVED", "REJECTED"} :
              (Said(s, v))' <=> Said(s, v) \/ (s = Turn /\ v = worker.answer.verdict)
<1>1. worker.pc = "deciding" /\ heard' = heard \cup {worker.answer}
  BY DEF commitDecision
<1>2. /\ worker.answer = [stage |-> Turn, verdict |-> worker.answer.verdict]
      /\ ~Final(Turn) /\ ~Final(2) /\ worker.answer.verdict \in Verdicts
  BY <1>1, Deciding
<1>3. PICK a : a = worker.answer.verdict
  OBVIOUS
<1>4. heard' = heard \cup {[stage |-> Turn, verdict |-> a]}
  BY <1>1, <1>2, <1>3
<1>5. \A s \in 1..2, v \in {"APPROVED", "REJECTED"} :
        (Said(s, v))' <=> Said(s, v) \/ (s = Turn /\ v = a)
  <2>1. \A s, v : [stage |-> s, verdict |-> v] = [stage |-> Turn, verdict |-> a] <=> s = Turn /\ v = a
    OBVIOUS
  <2>2. QED
    BY <1>4, <2>1 DEF Said
<1>6. /\ FirstAsked' <=> FirstAsked
      /\ FinalAsked' <=> FinalAsked
      /\ a # "PENDING" => NoneOpen'
  BY <1>3, CommitRowsInTurn
<1>7. FirstAsked
  <2>1. FinalAsked => FirstAsked
    BY DEF PipelineInv, RowsBacked
  <2>2. ~FinalAsked => FirstAsked
    <3>1. lender.stage = Turn /\ worker.key \in DecisionKeys /\ Open(worker.key)
      BY <1>1, Deciding
    <3>2. QED
      BY <3>1, DecisionKeysThere DEF PipelineInv, RowsBacked, Open, FirstAsked, FinalAsked
  <2>3. QED
    BY <2>1, <2>2
<1>8. HeardInTurn /\ Turn \in 1..2
  BY DEF VerdictInv, Turn
<1>9. Turn = 2 <=> FinalAsked
  BY DEF Turn
<1>10. Final(1)' => FinalAsked' \/ NoneOpen'
  <2>1. CASE FinalAsked
    BY <1>6, <2>1
  <2>2. CASE ~FinalAsked
    <3>1. Turn = 1
      BY <2>2 DEF Turn
    <3>2. Final(1)' => a # "PENDING"
      BY <1>2, <1>5, <3>1 DEF Final
    <3>3. QED
      BY <1>6, <3>2
  <2>3. QED
    BY <2>1, <2>2
<1>11. Final(2)' => FinalAsked' /\ NoneOpen'
  <2>1. Final(2)' => Turn = 2 /\ a # "PENDING"
    BY <1>2, <1>5 DEF Final
  <2>2. QED
    BY <1>6, <1>9, <2>1
<1>12. FinalAsked' => Said(1, "APPROVED")'
  BY <1>5, <1>6, <1>8 DEF HeardInTurn
<1>13. \A s \in 1..2 : ~(Said(s, "APPROVED")' /\ Said(s, "REJECTED")')
  BY <1>2, <1>5, <1>8 DEF HeardInTurn, Final
<1>14. QED
  BY <1>3, <1>5, <1>6, <1>7, <1>10, <1>11, <1>12, <1>13 DEF HeardInTurn

\* What the status becomes: a verdict is skipped only of a rejected application, for the
\* worker read it as resolved and no final verdict on this request was heard before.
LEMMA CommitStatusInTurn ==
  ASSUME PipelineInv, VerdictInv, commitDecision
  PROVE  StatusInTurn'
<1> DEFINE final == IsFinal(worker.link)
           verdict == worker.answer.verdict
           resolved == AlreadyResolved(final, worker.status)
<1>1. /\ worker.pc = "deciding" /\ review' = review
      /\ app' = IF resolved THEN app ELSE [app EXCEPT !.status = Outcome(final, verdict, app.status)]
  BY DEF commitDecision
<1>2. /\ verdict \in Verdicts /\ ~Final(Turn) /\ ~Final(2) /\ review = "idle"
      /\ final <=> FinalAsked
      /\ app.status \in {worker.status, "LENDER_REJECTED"}
  BY <1>1, Deciding
<1>3. \A s \in 1..2, v \in {"APPROVED", "REJECTED"} :
        (Said(s, v))' <=> Said(s, v) \/ (s = Turn /\ v = verdict)
  BY CommitHeardInTurn
<1>4. /\ app.status = "LENDER_PRE_APPROVED" => Said(1, "APPROVED")
      /\ \A s \in 1..2 : Said(s, "REJECTED") => app.status = "LENDER_REJECTED"
      /\ Said(1, "APPROVED") => app.status \notin {"ASSESSMENT_FEE_PAID", "LENDER_REVIEW"}
      /\ app.status \in {"PENDING_CREDIT_REVIEW", "LENDER_APPROVED"} => Said(2, "APPROVED")
      /\ Final(2) => FinalAsked
      /\ FinalAsked => Said(1, "APPROVED")
      /\ ~(Said(1, "APPROVED") /\ Said(1, "REJECTED"))
  BY DEF VerdictInv, StatusInTurn, VerdictHonoured, HeardInTurn, Said
<1>5. app'.status = IF resolved THEN app.status ELSE Outcome(final, verdict, app.status)
  BY <1>1 DEF PipelineInv, Shape
<1>6. ~Said(2, "APPROVED") /\ ~Said(2, "REJECTED") /\ ~Said(Turn, "APPROVED") /\ ~Said(Turn, "REJECTED")
  BY <1>2 DEF Final
<1>7. app.status \notin {"PENDING_CREDIT_REVIEW", "LENDER_APPROVED"}
  BY <1>4, <1>6
<1>8. app.status = "LENDER_PRE_APPROVED" => FinalAsked
  BY <1>4, <1>6 DEF Turn
<1>9. resolved => app.status = "LENDER_REJECTED"
  BY <1>2, <1>7, <1>8 DEF AlreadyResolved
<1>10. FinalAsked => ~Said(1, "REJECTED")
  BY <1>4
<1>11. ~Said(1, "REJECTED")
  BY <1>6, <1>10 DEF Turn
<1>12. Turn = IF FinalAsked THEN 2 ELSE 1
  BY DEF Turn
<1> HIDE DEF final, verdict, resolved
<1>13. /\ app'.status = "LENDER_PRE_APPROVED" => Said(1, "APPROVED")'
       /\ \A s \in 1..2 : Said(s, "REJECTED")' => app'.status = "LENDER_REJECTED"
       /\ Said(1, "APPROVED")' => app'.status \notin {"ASSESSMENT_FEE_PAID", "LENDER_REVIEW"}
       /\ Said(2, "APPROVED")' => app'.status \in {"PENDING_CREDIT_REVIEW", "LENDER_APPROVED", "LENDER_REJECTED"}
       /\ app'.status \in {"PENDING_CREDIT_REVIEW", "LENDER_APPROVED"} => Said(2, "APPROVED")'
  <2>1. CASE app'.status = "LENDER_REJECTED"
    BY <2>1
  <2>2. CASE verdict = "REJECTED" /\ ~resolved
    BY <1>5, <2>2 DEF Outcome
  <2>3. CASE verdict = "APPROVED" /\ ~resolved
    <3>1. app'.status = IF final THEN "PENDING_CREDIT_REVIEW" ELSE "LENDER_PRE_APPROVED"
      BY <1>5, <2>3 DEF Outcome
    <3>2. ~Said(1, "REJECTED")' /\ ~Said(2, "REJECTED")'
      BY <1>3, <1>6, <1>11, <2>3
    <3>3. CASE FinalAsked
      BY <1>2, <1>3, <1>12, <2>3, <3>1, <3>2, <3>3
    <3>4. CASE ~FinalAsked
      BY <1>2, <1>3, <1>6, <1>12, <2>3, <3>1, <3>2, <3>4
    <3>5. QED
      BY <3>3, <3>4
  <2>4. CASE verdict = "PENDING" /\ ~resolved
    <3>1. app'.status = IF final THEN app.status ELSE "LENDER_REVIEW"
      BY <1>5, <2>4 DEF Outcome
    <3>2. \A s \in 1..2, v \in {"APPROVED", "REJECTED"} : (Said(s, v))' <=> Said(s, v)
      BY <1>3, <2>4
    <3>3. CASE FinalAsked
      BY <1>2, <1>4, <1>6, <1>11, <3>1, <3>2, <3>3
    <3>4. CASE ~FinalAsked
      BY <1>2, <1>6, <1>11, <1>12, <3>1, <3>2, <3>4
    <3>5. QED
      BY <3>3, <3>4
  <2>5. QED
    BY <1>2, <1>5, <1>9, <2>1, <2>2, <2>3, <2>4 DEF Verdicts
<1>14. VerdictHonoured'
  BY <1>13 DEF VerdictHonoured, Said
<1>15. QED
  BY <1>1, <1>2, <1>13, <1>14 DEF StatusInTurn

LEMMA CommitInTurn ==
  ASSUME PipelineInv, VerdictInv, commitDecision
  PROVE  VerdictInv'
<1>1. worker' = Idle /\ UNCHANGED <<client, consents, used>> /\ heard \subseteq heard'
  BY DEF commitDecision
<1>2. RowsInTurn' /\ PushesStay /\ (FinalAsked' <=> FinalAsked)
  BY CommitRowsInTurn
<1>3. HeardInTurn' /\ StatusInTurn'
  BY CommitHeardInTurn, CommitStatusInTurn
<1>4. WorkerInTurn' /\ Spent'
  BY <1>1, IdleInTurn, UnspentGoesOn, SpentStays DEF VerdictInv
<1>5. \A s, v : Said(s, v) => (Said(s, v))'
  BY <1>1 DEF Said
<1>6. PushesInTurn'
  BY <1>2, <1>5 DEF VerdictInv, PushesInTurn, PushesStay
<1>7. ClientsInTurn'
  <2>1. \A c \in Clients : Submitting(c)' <=> Submitting(c)
    BY <1>1 DEF Submitting
  <2>2. QED
    BY <1>1, <1>2, <1>5, <2>1 DEF VerdictInv, ClientsInTurn, PushesStay
<1>8. QED
  BY <1>2, <1>3, <1>4, <1>6, <1>7 DEF VerdictInv

-------------------------------------------------------------------------------
(* The customer, the lender's webhook and the review.                       *)

\* Of one client, a step is its own.
LEMMA OneClient ==
  ASSUME OneSubmit, NEW c \in Clients
  PROVE  \A d \in Clients : d = c
  BY DEF OneSubmit

\* What another actor than the worker does, short of the client's own place.
LEMMA OthersInTurn ==
  ASSUME PipelineInv, VerdictInv, DecisionRowsStay, UNCHANGED <<worker, lender, heard>>,
         link'.decisionVersion = link.decisionVersion, app'.status = app.status, review' = review,
         \A k \in Keys : row[k] # "absent" => row'[k] = row[k],
         PushesInTurn', ClientsInTurn', Spent'
  PROVE  VerdictInv'
<1>1. RowsInTurn' /\ HeardInTurn' /\ StatusInTurn'
  BY RowsInTurnStay, HeardStays, StatusStays DEF VerdictInv
<1>2. row[worker.key] = "PROCESSING" => row'[worker.key] = "PROCESSING"
  BY DEF PipelineInv, Shape, Workers
<1>3. WorkerInTurn'
  BY <1>2, TurnStays, WorkerInTurnStays DEF VerdictInv
<1>4. QED
  BY <1>1, <1>3 DEF VerdictInv

\* The client moves to a place that its version and the verdicts allow.
LEMMA ClientMovesInTurn ==
  ASSUME OneSubmit, VerdictInv, NEW c \in Clients, heard' = heard,
         client'[c].pc = "writeOffer" \/ client'[c].version >= 2 => Said(1, "APPROVED"),
         client'[c].pc \in {"idle", "enqueueConsents", "enqueueDecision", "writeDecision"} =>
           client'[c].version = 1,
         client'[c].pc \in {"enqueueConsents", "enqueueDecision", "writeDecision"} =>
           /\ ~FinalAsked'
           /\ \A v \in Versions : v >= 2 => row'[<<"UPDATE", v>>] = "absent"
  PROVE  ClientsInTurn'
<1>1. SUFFICES ASSUME NEW d \in Clients
               PROVE  /\ client'[d].pc = "writeOffer" \/ client'[d].version >= 2 => Said(1, "APPROVED")'
                      /\ client'[d].pc = "idle" \/ Submitting(d)' => client'[d].version = 1
                      /\ Submitting(d)' =>
                           /\ ~FinalAsked'
                           /\ \A v \in Versions : v >= 2 => row'[<<"UPDATE", v>>] = "absent"
  BY DEF ClientsInTurn
<1>2. d = c
  BY OneClient
<1>3. (Submitting(c)' <=> client'[c].pc \in {"enqueueConsents", "enqueueDecision", "writeDecision"})
      /\ (Said(1, "APPROVED")' <=> Said(1, "APPROVED"))
  BY DEF Submitting, Said
<1>4. QED
  BY <1>2, <1>3

\* A step of the client that leaves every row, or adds only the consents'.
LEMMA ClientOnly ==
  ASSUME OneSubmit, PipelineInv, VerdictInv, NEW c \in Clients,
         row' = row \/ row' = Upsert(row, <<"OTHER_CONSENT", 1>>),
         UNCHANGED <<link, worker, review, lender, heard>>, app'.status = app.status, Spent',
         client'[c].pc = "writeOffer" \/ client'[c].version >= 2 => Said(1, "APPROVED"),
         client'[c].pc \in {"idle", "enqueueConsents", "enqueueDecision", "writeDecision"} =>
           client'[c].version = 1,
         client'[c].pc \in {"enqueueConsents", "enqueueDecision", "writeDecision"} =>
           ~FinalAsked /\ \A v \in Versions : v >= 2 => row[<<"UPDATE", v>>] = "absent"
  PROVE  VerdictInv'
<1>1. /\ DecisionRowsStay /\ PushesStay
      /\ \A k \in Keys : row[k] # "absent" => row'[k] = row[k]
  BY OtherConsentInTurn DEF PipelineInv
<1>2. FinalAsked' <=> FinalAsked
  BY <1>1, TurnStays
<1>3. \A v \in Versions : v >= 2 => (row'[<<"UPDATE", v>>] = "absent" <=> row[<<"UPDATE", v>>] = "absent")
  BY <1>1 DEF PushesStay
<1>4. ClientsInTurn'
  BY <1>2, <1>3, ClientMovesInTurn
<1>5. PushesInTurn'
  BY <1>1, PushesInTurnStay DEF VerdictInv
<1>6. QED
  BY <1>1, <1>4, <1>5, OthersInTurn

\* What the client's place says.
LEMMA ClientAt ==
  ASSUME VerdictInv, NEW c \in Clients
  PROVE  /\ client[c].pc = "writeOffer" \/ client[c].version >= 2 => Said(1, "APPROVED")
         /\ client[c].pc \in {"idle", "enqueueConsents", "enqueueDecision", "writeDecision"} =>
              client[c].version = 1
         /\ client[c].pc \in {"enqueueConsents", "enqueueDecision", "writeDecision"} =>
              ~FinalAsked /\ \A v \in Versions : v >= 2 => row[<<"UPDATE", v>>] = "absent"
  BY DEF VerdictInv, ClientsInTurn, Submitting

LEMMA CallsKnown == "save" \in DOMAIN CallLimit /\ "submit" \in DOMAIN CallLimit
                    /\ "select" \in DOMAIN CallLimit /\ "push" \in DOMAIN CallLimit
                    /\ CallLimit["submit"] \in Nat
  BY PipelineAssumption

LEMMA SaveInTurn ==
  ASSUME OneSubmit, PipelineInv, VerdictInv, NEW c \in Clients, saveProfile(c)
  PROVE  VerdictInv'
<1>1. /\ client[c].pc = "idle"
      /\ client'[c].pc = "enqueueUpdate" /\ client'[c].version = client[c].version
  BY SaveTyped DEF PipelineInv
<1>2. UNCHANGED <<row, link, app, consents, worker, review, lender, heard>> /\ Spend("save")
  BY DEF saveProfile
<1>3. Spent'
  BY <1>2, CallsKnown, UnspentGoesOn, SpentStays DEF VerdictInv
<1>4. QED
  BY <1>1, <1>2, <1>3, ClientAt, ClientOnly

LEMMA PushInTurn ==
  ASSUME OneSubmit, PipelineInv, VerdictInv, NEW c \in Clients, NEW v \in Versions, stagePush(c, v)
  PROVE  VerdictInv'
<1>1. /\ app.status = "LENDER_APPROVED"
      /\ client'[c].pc = "enqueueUpdate" /\ client'[c].version = v
  BY PushTyped DEF PipelineInv
<1>2. UNCHANGED <<row, link, app, consents, worker, review, lender, heard>> /\ Spend("push")
  BY DEF stagePush
<1>3. Spent'
  BY <1>2, CallsKnown, UnspentGoesOn, SpentStays DEF VerdictInv
<1>4. Said(2, "APPROVED")
  BY <1>1 DEF VerdictInv, StatusInTurn, VerdictHonoured, Said
<1>5. Said(1, "APPROVED")
  BY <1>4 DEF VerdictInv, HeardInTurn, Final
<1>6. QED
  BY <1>1, <1>2, <1>3, <1>5, ClientOnly

LEMMA EnqueueUpdateInTurn ==
  ASSUME OneSubmit, PipelineInv, VerdictInv, NEW c \in Clients, enqueueUpdateWhenReady(c)
  PROVE  VerdictInv'
<1>1. client[c].pc = "enqueueUpdate" /\ client \in [Clients -> Requests]
      /\ UNCHANGED <<row, link, app, consents, worker, review, used, lender, heard>>
  BY DEF enqueueUpdateWhenReady, PipelineInv, Shape
<1>2. Spent'
  BY <1>1, UnspentGoesOn, SpentStays DEF VerdictInv
<1>3. \/ client'[c].pc = "writeUpdate" /\ client'[c].version = client[c].version
      \/ client'[c] = NoCall
  <2> DEFINE u == [client[c] EXCEPT !.pc = "writeUpdate", !.link = link]
  <2>1. u.pc = "writeUpdate" /\ u.version = client[c].version
    BY <1>1 DEF Requests
  <2>2. client' = [client EXCEPT ![c] = IF UpdateReady(link) THEN u ELSE NoCall]
    BY DEF enqueueUpdateWhenReady
  <2> HIDE DEF u
  <2>3. client'[c] = u \/ client'[c] = NoCall
    BY <1>1, <2>2
  <2>4. QED
    BY <2>1, <2>3
<1>4. CASE client'[c] = NoCall
  BY <1>1, <1>2, <1>4, Constants, ClientOnly
<1>5. CASE client'[c].pc = "writeUpdate" /\ client'[c].version = client[c].version
  BY <1>1, <1>2, <1>5, ClientAt, ClientOnly
<1>6. QED
  BY <1>3, <1>4, <1>5

LEMMA CommitUpdateInTurn ==
  ASSUME OneSubmit, PipelineInv, VerdictInv, NEW c \in Clients, commitUpdate(c)
  PROVE  VerdictInv'
<1>1. client'[c] = NoCall /\ client[c].version \in Versions /\ client[c].link \in Links
      /\ writeUpdate(client[c].version, client[c].link)
  BY CommitUpdateTyped DEF PipelineInv
<1>2. UNCHANGED <<app, consents, worker, review, used, lender, heard>>
  BY DEF commitUpdate
<1>3. PICK v \in Versions : v = client[c].version
  BY <1>1
<1>4. /\ DecisionRowsStay
      /\ \A k \in Keys : row[k] # "absent" => row'[k] = row[k]
      /\ \A u \in Versions : u # v => row'[<<"UPDATE", u>>] = row[<<"UPDATE", u>>]
      /\ link'.decisionVersion = link.decisionVersion
  BY <1>1, <1>3, UpdateQueuedInTurn DEF PipelineInv
<1>5. v >= 2 => Said(1, "APPROVED")
  BY <1>3, ClientAt
<1>6. PushesInTurn'
  BY <1>2, <1>4, <1>5 DEF VerdictInv, PushesInTurn, Said
<1>7. ClientsInTurn'
  BY <1>1, <1>2, Constants, ClientMovesInTurn
<1>8. Spent'
  BY <1>2, UnspentGoesOn, SpentStays DEF VerdictInv
<1>9. QED
  BY <1>2, <1>4, <1>6, <1>7, <1>8, OthersInTurn

\* The one submit comes before every decision.
LEMMA RecordInTurn ==
  ASSUME OneSubmit, PipelineInv, VerdictInv, NEW c \in Clients, recordDecisionConsents(c)
  PROVE  VerdictInv'
<1>1. /\ client[c].pc = "idle" /\ client'[c].pc = "enqueueConsents"
      /\ client'[c].version = client[c].version
  BY RecordTyped DEF PipelineInv
<1>2. /\ UNCHANGED <<row, link, app, worker, review, lender, heard>>
      /\ Spend("submit") /\ used["submit"] < CallLimit["submit"] /\ consents' = TRUE
  BY DEF recordDecisionConsents, CanCall
<1>3. used \in [Kinds -> Nat] /\ "submit" \in Kinds
  BY CallsKnown DEF VerdictInv, Spent, Kinds
<1>4. used["submit"] = 0
  <2>1. used["submit"] \in Nat /\ CallLimit["submit"] \in Nat /\ CallLimit["submit"] <= 1
    BY <1>3, CallsKnown DEF OneSubmit
  <2>2. QED
    BY <1>2, <2>1
<1>5. ~consents
  BY <1>4 DEF VerdictInv, Spent
<1>6. ~FirstAsked /\ ~FinalAsked
  BY <1>5 DEF PipelineInv, RowsBacked
<1>7. \A v \in Versions : v >= 2 => row[<<"UPDATE", v>>] = "absent"
  BY <1>6 DEF PipelineInv, RowsBacked
<1>8. Spent'
  <2>1. used' = [used EXCEPT !["submit"] = used["submit"] + 1]
    BY <1>2 DEF Spend
  <2>2. QED
    BY <1>3, <1>4, <2>1 DEF Spent
<1>9. QED
  BY <1>1, <1>2, <1>6, <1>7, <1>8, ClientAt, ClientOnly

LEMMA EnqueueConsentsInTurn ==
  ASSUME OneSubmit, PipelineInv, VerdictInv, NEW c \in Clients, enqueueConsentSubmissions(c)
  PROVE  VerdictInv'
<1>1. /\ client[c].pc = "enqueueConsents" /\ client'[c].pc = "enqueueDecision"
      /\ client'[c].version = client[c].version
      /\ row' = row \/ row' = Upsert(row, <<"OTHER_CONSENT", 1>>)
  BY EnqueueConsentsTyped DEF PipelineInv
<1>2. UNCHANGED <<link, app, consents, worker, review, used, lender, heard>>
  BY DEF enqueueConsentSubmissions
<1>3. Spent'
  BY <1>2, UnspentGoesOn, SpentStays DEF VerdictInv
<1>4. QED
  BY <1>1, <1>2, <1>3, ClientAt, ClientOnly

LEMMA EnqueueDecisionInTurn ==
  ASSUME OneSubmit, PipelineInv, VerdictInv, NEW c \in Clients, enqueueDecisionWhenReady(c)
  PROVE  VerdictInv'
<1>1. /\ client[c].pc = "enqueueDecision"
      /\ \/ client'[c].pc = "writeDecision" /\ client'[c].version = client[c].version
         \/ client'[c] = NoCall
  BY EnqueueDecisionTyped DEF PipelineInv
<1>2. UNCHANGED <<row, link, app, consents, worker, review, used, lender, heard>>
  BY DEF enqueueDecisionWhenReady
<1>3. Spent'
  BY <1>2, UnspentGoesOn, SpentStays DEF VerdictInv
<1>4. CASE client'[c] = NoCall
  BY <1>2, <1>3, <1>4, Constants, ClientOnly
<1>5. CASE client'[c].pc = "writeDecision" /\ client'[c].version = client[c].version
  BY <1>1, <1>2, <1>3, <1>5, ClientAt, ClientOnly
<1>6. QED
  BY <1>1, <1>4, <1>5

\* The customer's own request for the decision, made before the final one is asked.
LEMMA CommitRequestInTurn ==
  ASSUME OneSubmit, PipelineInv, VerdictInv, NEW c \in Clients, commitDecisionRequest(c)
  PROVE  VerdictInv'
<1>1. /\ client[c].pc = "writeDecision" /\ client'[c] = NoCall
      /\ client[c].link \in Links /\ writeDecision(1, client[c].link)
  BY CommitRequestTyped DEF PipelineInv
<1>2. UNCHANGED <<app, consents, worker, review, used, lender, heard>>
  BY DEF commitDecisionRequest
<1>3. ~FinalAsked
  BY <1>1, ClientAt
<1>4. /\ RowsInTurn' /\ HeardInTurn' /\ PushesStay
      /\ FinalAsked' <=> FinalAsked
      /\ link'.decisionVersion = link.decisionVersion
      /\ \A k \in Keys : row[k] # "absent" => row'[k] = row[k]
  <2>1. 1 \in 1..2 /\ 1 # 2
    OBVIOUS
  <2>2. QED
    BY <1>1, <1>2, <1>3, <2>1, DecisionOpened
<1>5. Turn' = Turn
  BY <1>4 DEF Turn
<1>6. row[worker.key] = "PROCESSING" => row'[worker.key] = "PROCESSING"
  BY <1>4 DEF PipelineInv, Shape, Workers
<1>7. WorkerInTurn'
  BY <1>2, <1>4, <1>5, <1>6, WorkerInTurnStays DEF VerdictInv
<1>8. StatusInTurn' /\ PushesInTurn' /\ Spent'
  BY <1>2, <1>4, StatusStays, PushesInTurnStay, UnspentGoesOn, SpentStays DEF VerdictInv
<1>9. ClientsInTurn'
  BY <1>1, <1>2, Constants, ClientMovesInTurn
<1>10. QED
  BY <1>4, <1>7, <1>8, <1>9 DEF VerdictInv

LEMMA SelectInTurn ==
  ASSUME OneSubmit, PipelineInv, VerdictInv, NEW c \in Clients, NEW offer \in Offers,
         selectPreApprovalOffer(c, offer)
  PROVE  VerdictInv'
<1>1. app.status = "LENDER_PRE_APPROVED" /\ client'[c].pc = "writeOffer"
  BY SelectTyped DEF PipelineInv
<1>2. UNCHANGED <<row, link, app, consents, worker, review, lender, heard>> /\ Spend("select")
  BY DEF selectPreApprovalOffer
<1>3. Spent'
  BY <1>2, CallsKnown, UnspentGoesOn, SpentStays DEF VerdictInv
<1>4. Said(1, "APPROVED")
  BY <1>1 DEF VerdictInv, StatusInTurn
<1>5. QED
  BY <1>1, <1>2, <1>3, <1>4, ClientOnly

LEMMA WriteOfferInTurn ==
  ASSUME OneSubmit, PipelineInv, VerdictInv, NEW c \in Clients, writeOffer(c)
  PROVE  VerdictInv'
<1>1. /\ client[c].pc = "writeOffer" /\ app'.status = app.status
      /\ client'[c].pc = "enqueueUpdate"
  BY WriteOfferTyped DEF PipelineInv
<1>2. UNCHANGED <<row, link, consents, worker, review, used, lender, heard>>
  BY DEF writeOffer
<1>3. Spent'
  BY <1>2, UnspentGoesOn, SpentStays DEF VerdictInv
<1>4. Said(1, "APPROVED")
  BY <1>1, ClientAt
<1>5. QED
  BY <1>1, <1>2, <1>3, <1>4, ClientOnly

\* Rows, clients and verdicts stay; the status moves.
LEMMA StatusMoves ==
  ASSUME VerdictInv, UNCHANGED <<row, client, consents, heard, lender>>,
         link'.decisionVersion = link.decisionVersion, UsedGoesOn, WorkerInTurn', StatusInTurn'
  PROVE  VerdictInv'
<1>1. DecisionRowsStay /\ PushesStay
  BY SameRowsStay
<1>2. RowsInTurn' /\ HeardInTurn' /\ PushesInTurn' /\ ClientsInTurn' /\ Spent'
  BY <1>1, TurnStays, RowsInTurnStay, HeardStays, PushesInTurnStay, ClientsInTurnStay, SpentStays
  DEF VerdictInv
<1>3. QED
  BY <1>2 DEF VerdictInv

LEMMA WebhookInTurn ==
  ASSUME PipelineInv, VerdictInv, processLenderRejectionWebhook
  PROVE  VerdictInv'
<1>1. app'.status = "LENDER_REJECTED" /\ link'.decisionVersion = link.decisionVersion
  BY WebhookTyped DEF PipelineInv
<1>2. UNCHANGED <<row, consents, worker, client, review, lender, heard>> /\ Spend("webhook")
  BY DEF processLenderRejectionWebhook
<1>3. Turn' = Turn
  BY <1>2, SameRowsStay, TurnStays
<1>4. WorkerInTurn'
  BY <1>1, <1>2, <1>3, WorkerInTurnStays DEF VerdictInv
<1>5. StatusInTurn'
  BY <1>1, <1>2 DEF VerdictInv, StatusInTurn, VerdictHonoured, Said
<1>6. QED
  BY <1>1, <1>2, <1>4, <1>5, UnspentGoesOn, StatusMoves

LEMMA ReviewInTurn ==
  ASSUME PipelineInv, VerdictInv,
         \/ \E decision \in {"approve", "reject"} : startReview(decision)
         \/ commitApprove \/ commitReject
  PROVE  VerdictInv'
<1>1. CASE \E decision \in {"approve", "reject"} : startReview(decision)
  <2>1. /\ app.status = "PENDING_CREDIT_REVIEW"
        /\ UNCHANGED <<row, link, app, consents, worker, client, used, lender, heard>>
    BY <1>1 DEF startReview
  <2>2. Turn' = Turn
    BY <2>1, SameRowsStay, TurnStays
  <2>3. WorkerInTurn'
    BY <2>1, <2>2, WorkerInTurnStays DEF VerdictInv
  <2>4. StatusInTurn'
    BY <2>1 DEF VerdictInv, StatusInTurn, VerdictHonoured, Said
  <2>5. QED
    BY <2>1, <2>3, <2>4, UnspentGoesOn, StatusMoves
<1>2. CASE commitApprove \/ commitReject
  <2>1. /\ review' = "idle"
        /\ app'.status \in {"LENDER_APPROVED", "LENDER_REJECTED"}
    BY <1>2, ReviewedTyped DEF PipelineInv
  <2>2. review # "idle" /\ UNCHANGED <<row, link, consents, worker, client, used, lender, heard>>
    BY <1>2 DEF commitApprove, commitReject
  <2>3. Said(2, "APPROVED")
    BY <2>2 DEF VerdictInv, StatusInTurn
  <2>4. worker.pc # "deciding"
    BY <2>2, Deciding
  <2>5. Turn' = Turn
    BY <2>2, SameRowsStay, TurnStays
  <2>6. WorkerInTurn'
    BY <2>2, <2>4, <2>5 DEF VerdictInv, WorkerInTurn, Judging, Versioned
  <2>7. /\ Said(1, "APPROVED") /\ ~Said(1, "REJECTED") /\ ~Said(2, "REJECTED")
    BY <2>3 DEF VerdictInv, HeardInTurn, Final
  <2>8. StatusInTurn'
    BY <2>1, <2>2, <2>3, <2>7 DEF StatusInTurn, VerdictHonoured, Said
  <2>9. QED
    BY <2>2, <2>6, <2>8, UnspentGoesOn, StatusMoves
<1>3. QED
  BY <1>1, <1>2

-------------------------------------------------------------------------------
LEMMA VerdictsStart == Init => VerdictInv
<1> SUFFICES ASSUME Init PROVE VerdictInv
  OBVIOUS
<1>1. /\ row = [k \in Keys |-> IF k = <<"CREATE", 1>> THEN "PENDING" ELSE "absent"]
      /\ worker = Idle /\ review = "idle" /\ client = [c \in Clients |-> NoCall]
      /\ app = [status |-> "ASSESSMENT_FEE_PAID", offer |-> NoOffer]
      /\ lender = [update |-> 0, offer |-> NoOffer, stage |-> 0]
      /\ heard = {} /\ consents = FALSE
      /\ used = [what \in Kinds |-> 0]
  BY DEF Init, Kinds
<1>2. \A k \in Keys : k[1] # "CREATE" => row[k] = "absent"
  BY <1>1
<1>3. \A k \in DecisionKeys : row[k] = "absent"
  BY <1>2 DEF DecisionKeys
<1>4. ~FirstAsked /\ ~FinalAsked /\ ~FirstClosed /\ ~FinalClosed
  BY <1>3, DecisionKeysThere DEF FirstAsked, FinalAsked, FirstClosed, FinalClosed
<1>5. RowsInTurn
  BY <1>1, <1>3, <1>4, DecisionKeysThere DEF RowsInTurn, Open
<1>6. WorkerInTurn
  BY <1>1, Constants DEF WorkerInTurn, Judging, Versioned
<1>7. \A s, v : ~Said(s, v)
  BY <1>1 DEF Said
<1>8. HeardInTurn
  BY <1>4, <1>7 DEF HeardInTurn, Final
<1>9. StatusInTurn
  BY <1>1 DEF StatusInTurn, VerdictHonoured, Said
<1>10. \A v \in Versions : row[<<"UPDATE", v>>] = "absent"
  BY <1>2, KeysThere
<1>11. PushesInTurn /\ ClientsInTurn
  BY <1>1, <1>10, Constants DEF PushesInTurn, ClientsInTurn, Submitting
<1>12. Spent
  BY <1>1 DEF Spent
<1>13. QED
  BY <1>5, <1>6, <1>8, <1>9, <1>11, <1>12 DEF VerdictInv

LEMMA VerdictsKept ==
  ASSUME OneSubmit, PipelineInv, VerdictInv, [Next]_vars
  PROVE  VerdictInv'
<1>1. CASE WorkerStep
  BY <1>1, LoadInTurn, ReturnInTurn, RefuseInTurn, CallInTurn, AnswerInTurn, FailInTurn, CreateInTurn,
     ConsentInTurn, UpdateInTurn, ReadInTurn, CommitInTurn, MarkInTurn, SettleInTurn, FollowInTurn,
     WriteInTurn
  DEF WorkerStep
<1>2. CASE crash
  BY <1>2, CrashInTurn
<1>3. CASE \E k \in Keys : sweep(k) \/ replayFailedEvent(k)
  BY <1>3, SweepInTurn, ReplayInTurn
<1>4. ASSUME NEW c \in Clients, ClientStep(c)
      PROVE  VerdictInv'
  BY <1>4, SaveInTurn, EnqueueUpdateInTurn, CommitUpdateInTurn, RecordInTurn, EnqueueConsentsInTurn,
     EnqueueDecisionInTurn, CommitRequestInTurn, SelectInTurn, WriteOfferInTurn, PushInTurn
  DEF ClientStep
<1>5. CASE processLenderRejectionWebhook
  BY <1>5, WebhookInTurn
<1>6. CASE (\E decision \in {"approve", "reject"} : startReview(decision)) \/ commitApprove \/ commitReject
  BY <1>6, ReviewInTurn
<1>7. CASE UNCHANGED vars
  <2>1. UNCHANGED <<row, link, app, consents, worker, client, review, used, lender, heard>>
    BY <1>7 DEF vars
  <2>2. WorkerInTurn'
    BY <2>1, SameRowsStay, TurnStays, WorkerInTurnStays DEF VerdictInv
  <2>3. QED
    BY <2>1, <2>2, SameRowsStay, UnspentGoesOn, VerdictsStay
<1>8. QED
  BY <1>1, <1>2, <1>3, <1>4, <1>5, <1>6, <1>7 DEF Next

\* A verdict that was processed shows in the application's status, and credit review and
\* approval are reached only by the lender's approval of the final request, for any number of
\* polls, failures, crashes, replays and saves and whatever the webhook and the credit officer
\* do meanwhile, of a customer who makes one request at a time and submits once.  Of a second
\* submit, or one that overlaps another request, it fails: LenderIntegrationService.
\* enqueueDecisionWhenReady writes the version it read back over the final one.
THEOREM VerdictHonouredHolds == OneSubmit => (Spec => []VerdictHonoured)
<1> SUFFICES ASSUME OneSubmit PROVE Spec => []VerdictHonoured
  OBVIOUS
<1>1. Init => PipelineInv /\ VerdictInv
  BY PipelineStarts, VerdictsStart
<1>2. PipelineInv /\ VerdictInv /\ [Next]_vars => (PipelineInv /\ VerdictInv)'
  BY PipelineKept, VerdictsKept
<1>3. VerdictInv => VerdictHonoured
  BY DEF VerdictInv, StatusInTurn
<1>4. QED
  BY <1>1, <1>2, <1>3, PTL DEF Spec

-------------------------------------------------------------------------------
(* The final decision follows the offer.                                    *)

\* Pushes after the first, and the final request, find an offer stored.
OfferStored ==
  /\ \A v \in Versions : v >= 2 /\ row[<<"UPDATE", v>>] # "absent" => app.offer # NoOffer
  /\ FinalAsked => app.offer # NoOffer
  /\ \A c \in Clients :
       /\ client[c].version >= 2 => app.offer # NoOffer
       /\ client[c].pc = "writeOffer" => client[c].offer # NoOffer

\* A push after the first carries an offer, and who follows up on a push knows it taken.
OfferCarried ==
  /\ worker.pc # "idle" /\ worker.key[1] = "UPDATE" /\ worker.key[2] >= 2 => worker.offer # NoOffer
  /\ Following => lender.update >= worker.key[2]

LenderTold ==
  /\ lender.update >= 2 => lender.offer # NoOffer
  /\ FinalAsked => lender.update >= 2
  /\ lender.stage = 2 => FinalAsked

OfferInv == OfferStored /\ OfferCarried /\ LenderTold

\* What a step must leave for the offer to stay ahead of the final decision.
LEMMA OfferKept ==
  ASSUME OfferInv, app'.offer = app.offer, lender' = lender, OfferCarried',
         \A v \in Versions : v >= 2 /\ row'[<<"UPDATE", v>>] # "absent" =>
           row[<<"UPDATE", v>>] # "absent" \/ app.offer # NoOffer,
         FinalAsked => FinalAsked',
         FinalAsked' => FinalAsked \/ (lender.update >= 2 /\ app.offer # NoOffer),
         \A c \in Clients :
           /\ client'[c].version >= 2 => client[c].version >= 2 \/ app.offer # NoOffer
           /\ client'[c].pc = "writeOffer" => client'[c].offer # NoOffer
  PROVE  OfferInv'
<1>1. OfferStored'
  BY DEF OfferInv, OfferStored
<1>2. LenderTold'
  BY DEF OfferInv, LenderTold
<1>3. QED
  BY <1>1, <1>2 DEF OfferInv

\* The worker goes on with its event, or is done with it.
LEMMA CarriedStays ==
  ASSUME OfferInv, lender'.update = lender.update,
         \/ worker' = worker \/ worker' = Idle
         \/ /\ worker.pc # "idle" /\ worker'.key = worker.key /\ worker'.offer = worker.offer
            /\ Following' => Following \/ lender.update >= worker.key[2]
  PROVE  OfferCarried'
<1>1. CASE worker' = worker
  BY <1>1 DEF OfferInv, OfferCarried, Following
<1>2. CASE worker' = Idle
  BY <1>2, Constants DEF OfferCarried, Following
<1>3. CASE /\ worker.pc # "idle" /\ worker'.key = worker.key /\ worker'.offer = worker.offer
           /\ Following' => Following \/ lender.update >= worker.key[2]
  BY <1>3 DEF OfferInv, OfferCarried
<1>4. QED
  BY <1>1, <1>2, <1>3

\* The rows that there are stay the same.
LEMMA OfferRowsKept ==
  ASSUME OfferInv, \A k \in Keys : row'[k] = "absent" <=> row[k] = "absent",
         app'.offer = app.offer, UNCHANGED <<client, lender>>, OfferCarried'
  PROVE  OfferInv'
<1>1. FinalAsked' <=> FinalAsked
  BY KeysThere DEF FinalAsked
<1>2. \A c \in Clients : client'[c].pc = "writeOffer" => client'[c].offer # NoOffer
  BY DEF OfferInv, OfferStored
<1>3. QED
  BY <1>1, <1>2, KeysThere, OfferKept

LEMMA OneRowThere ==
  ASSUME Shape, NEW k \in Keys, row[k] # "absent", NEW st, st # "absent", row' = [row EXCEPT ![k] = st]
  PROVE  \A j \in Keys : row'[j] = "absent" <=> row[j] = "absent"
  BY DEF Shape

LEMMA LoadOffer ==
  ASSUME PipelineInv, OfferInv, NEW k \in Keys, loadEvent(k)
  PROVE  OfferInv'
<1>1. /\ row' = [row EXCEPT ![k] = "PROCESSING"] /\ row[k] \in {"PENDING", "RETRY_PENDING"}
      /\ worker'.pc = "loaded" /\ worker'.key = k
  BY LoadTyped DEF PipelineInv
<1>2. worker'.offer = app.offer /\ UNCHANGED <<app, client, lender>>
  BY DEF loadEvent
<1>3. k[1] = "UPDATE" /\ k[2] >= 2 => app.offer # NoOffer
  <2>1. k[1] = "UPDATE" => k = <<"UPDATE", k[2]>> /\ k[2] \in Versions
    BY KeyForms
  <2>2. QED
    BY <1>1, <2>1 DEF OfferInv, OfferStored
<1>4. OfferCarried'
  BY <1>1, <1>2, <1>3 DEF OfferCarried, Following
<1>5. \A j \in Keys : row'[j] = "absent" <=> row[j] = "absent"
  BY <1>1, OneRowThere DEF PipelineInv
<1>6. QED
  BY <1>2, <1>4, <1>5, OfferRowsKept

\* The worker's own steps that add no row.
LEMMA EndOffer ==
  ASSUME PipelineInv, OfferInv, returnFalse \/ settleFailure
  PROVE  OfferInv'
<1>1. /\ worker.pc # "idle" /\ worker' = Idle /\ UNCHANGED <<app, client, lender>>
      /\ \E st \in {"COMPLETED", "RETRY_PENDING", "FAILED"} : row' = [row EXCEPT ![worker.key] = st]
  BY DEF returnFalse, settleFailure
<1>2. PICK st \in {"COMPLETED", "RETRY_PENDING", "FAILED"} : row' = [row EXCEPT ![worker.key] = st]
  BY <1>1
<1>3. \A j \in Keys : row'[j] = "absent" <=> row[j] = "absent"
  BY <1>1, <1>2, AtWork, OneRowThere DEF PipelineInv
<1>4. OfferCarried'
  BY <1>1, CarriedStays
<1>5. QED
  BY <1>1, <1>3, <1>4, OfferRowsKept

LEMMA InFlightOffer ==
  ASSUME PipelineInv, OfferInv, refuse \/ callLender \/ markStageFailure
  PROVE  OfferInv'
<1>1. PICK pc \in {"failing", "calling", "settleRetry", "settleFailed"} :
        worker' = [worker EXCEPT !.pc = pc]
  BY DEF refuse, callLender, markStageFailure
<1>2. worker.pc # "idle" /\ UNCHANGED <<row, app, client, lender>>
  BY DEF refuse, callLender, markStageFailure
<1>3. worker'.pc = pc /\ worker'.key = worker.key /\ worker'.offer = worker.offer
  BY <1>1 DEF PipelineInv, Shape, Workers
<1>4. ~Following'
  BY <1>3 DEF Following
<1>5. OfferCarried'
  BY <1>2, <1>3, <1>4, CarriedStays
<1>6. QED
  BY <1>2, <1>5, OfferRowsKept

LEMMA LenderOffer ==
  ASSUME PipelineInv, OfferInv,
         \/ \E verdict \in Verdicts : lenderAnswers(verdict)
         \/ \E retrying \in BOOLEAN : lenderFails(retrying)
  PROVE  OfferInv'
<1>1. /\ worker.pc = "calling" /\ lender' \in {lender, Received(worker.key)}
      /\ UNCHANGED <<row, app, client>>
  BY DEF lenderAnswers, lenderFails
<1>2. worker'.pc \in {"answered", "retrying", "failing"} /\ worker'.key = worker.key
      /\ worker'.offer = worker.offer
  BY DEF lenderAnswers, lenderFails, PipelineInv, Shape, Workers
<1>3. worker.key \in Keys /\ row[worker.key] # "absent"
  BY <1>1, AtWork
<1>4. OfferCarried'
  BY <1>1, <1>2 DEF OfferInv, OfferCarried, Following
<1>5. FinalAsked' <=> FinalAsked
  BY <1>1 DEF FinalAsked
<1>6. OfferStored'
  BY <1>1, <1>5 DEF OfferInv, OfferStored
<1>7. LenderTold'
  <2>1. CASE lender' = lender
    BY <1>5, <2>1 DEF OfferInv, LenderTold
  <2>2. CASE lender' = Received(worker.key)
    <3> DEFINE k == worker.key
    <3>1. /\ lender'.update = IF k[1] = "UPDATE" /\ k[2] > lender.update THEN k[2] ELSE lender.update
          /\ lender'.offer = IF k[1] = "UPDATE" /\ k[2] >= 2 THEN worker.offer ELSE lender.offer
          /\ lender'.stage = IF k[1] = "DECISION" /\ k[2] > lender.stage THEN k[2] ELSE lender.stage
      BY <2>2 DEF Received, PipelineInv, Shape, Lenders
    <3>2. /\ k[1] = "UPDATE" => k[2] \in 1..4
          /\ lender.update \in 0..4
      BY <1>3, KeyForms, Constants DEF PipelineInv, Shape, Lenders
    <3>3. k[1] = "UPDATE" /\ k[2] >= 2 => worker.offer # NoOffer
      BY <1>1 DEF OfferInv, OfferCarried
    <3>4. k[1] = "DECISION" /\ k[2] = 2 => FinalAsked
      <4>1. k[1] = "DECISION" /\ k[2] = 2 => k = <<"DECISION", 2>>
        BY <1>3, KeyForms
      <4>2. QED
        BY <1>3, <4>1 DEF FinalAsked
    <3> HIDE DEF k
    <3>5. lender'.update >= 2 => lender'.offer # NoOffer
      BY <3>1, <3>2, <3>3 DEF OfferInv, LenderTold
    <3>6. FinalAsked' => lender'.update >= 2
      BY <1>5, <3>1, <3>2 DEF OfferInv, LenderTold
    <3>7. lender'.stage = 2 => FinalAsked'
      BY <1>5, <3>1, <3>4 DEF OfferInv, LenderTold
    <3>8. QED
      BY <3>5, <3>6, <3>7 DEF LenderTold
  <2>3. QED
    BY <1>1, <2>1, <2>2
<1>8. QED
  BY <1>4, <1>6, <1>7 DEF OfferInv

\* Rows of the consents and the first update may be added.
LEMMA EarlyOffer ==
  ASSUME OfferInv, NEW k \in Keys, k[1] \in {"CONSENT", "OTHER_CONSENT", "STATUS"} \/ k = <<"UPDATE", 1>>,
         \A j \in Keys : j # k => (row'[j] = "absent" <=> row[j] = "absent"),
         app'.offer = app.offer, UNCHANGED <<client, lender>>, OfferCarried'
  PROVE  OfferInv'
<1>1. FinalAsked' <=> FinalAsked
  BY KeysThere DEF FinalAsked
<1>2. \A v \in Versions : v >= 2 => <<"UPDATE", v>> \in Keys /\ <<"UPDATE", v>> # k
  <2>1. \A v \in Versions : v >= 2 => v # 1
    BY Constants
  <2>2. QED
    BY <2>1, KeysThere
<1>3. \A c \in Clients : client'[c].pc = "writeOffer" => client'[c].offer # NoOffer
  BY DEF OfferInv, OfferStored
<1>4. QED
  BY <1>1, <1>2, <1>3, OfferKept

LEMMA CompleteOffer ==
  ASSUME PipelineInv, OfferInv, completeCreate \/ completeConsent \/ completeUpdate
  PROVE  OfferInv'
<1>1. /\ worker.pc = "answered" /\ UNCHANGED <<app, client, lender>>
      /\ worker' = Idle \/ worker' = [worker EXCEPT !.pc = "followUp"]
  BY DEF completeCreate, completeConsent, completeUpdate
<1>2. worker' = Idle \/ (worker'.key = worker.key /\ worker'.offer = worker.offer)
  BY <1>1 DEF PipelineInv, Shape, Workers
<1>3. worker.key[1] = "UPDATE" => lender.update >= worker.key[2]
  BY <1>1 DEF PipelineInv, Delivered
<1>4. Following' => worker'.key[1] = "UPDATE"
  BY DEF Following
<1>5. OfferCarried'
  BY <1>1, <1>2, <1>3, <1>4, CarriedStays
<1> DEFINE rows == [row EXCEPT ![worker.key] = "COMPLETED"]
           k == <<"CONSENT", 1>>
<1>6. row' = rows \/ row' = Upsert(rows, k)
  BY DEF completeCreate, completeConsent, completeUpdate
<1>7. /\ rows \in [Keys -> RowStatus]
      /\ \A j \in Keys : rows[j] = "absent" <=> row[j] = "absent"
  BY <1>1, AtWork DEF RowStatus
<1>8. k \in Keys /\ k[1] = "CONSENT"
  BY KeysThere
<1> HIDE DEF rows, k
<1>9. \A j \in Keys : j # k => row'[j] = rows[j]
  BY <1>6, <1>7, <1>8, UpsertAdds
<1>10. \A j \in Keys : j # k => (row'[j] = "absent" <=> row[j] = "absent")
  BY <1>7, <1>9
<1>11. QED
  BY <1>1, <1>5, <1>8, <1>10, EarlyOffer

LEMMA ReadOffer ==
  ASSUME PipelineInv, OfferInv, readDecision
  PROVE  OfferInv'
<1>1. /\ worker.key[1] \in {"DECISION", "STATUS"} /\ worker'.key = worker.key
  BY ReadTyped DEF PipelineInv
<1>2. UNCHANGED <<row, app, client, lender>>
  BY DEF readDecision
<1>3. OfferCarried'
  BY <1>1 DEF OfferCarried, Following
<1>4. QED
  BY <1>2, <1>3, OfferRowsKept

LEMMA CommitOffer ==
  ASSUME PipelineInv, OfferInv, commitDecision
  PROVE  OfferInv'
<1> DEFINE rows == [row EXCEPT ![worker.key] = "COMPLETED"]
<1>1. /\ worker.pc = "deciding" /\ worker' = Idle /\ UNCHANGED <<client, lender>>
      /\ \/ row' = rows
         \/ \E n \in 1..MaxPolls : row' = Upsert(rows, <<"STATUS", n>>)
  BY CommitTyped DEF PipelineInv
<1>2. app'.offer = app.offer
  BY DEF commitDecision, PipelineInv, Shape
<1>3. OfferCarried'
  BY <1>1, CarriedStays
<1>4. /\ rows \in [Keys -> RowStatus]
      /\ \A j \in Keys : rows[j] = "absent" <=> row[j] = "absent"
  BY <1>1, AtWork DEF RowStatus
<1> HIDE DEF rows
<1>5. CASE row' = rows
  BY <1>1, <1>2, <1>3, <1>4, <1>5, OfferRowsKept
<1>6. ASSUME NEW n \in 1..MaxPolls, row' = Upsert(rows, <<"STATUS", n>>)
      PROVE  OfferInv'
  <2> DEFINE k == <<"STATUS", n>>
  <2>1. k \in Keys /\ k[1] = "STATUS" /\ row' = Upsert(rows, k)
    BY <1>6, KeysThere
  <2> HIDE DEF k
  <2>2. \A j \in Keys : j # k => (row'[j] = "absent" <=> row[j] = "absent")
    BY <1>4, <2>1, UpsertAdds
  <2>3. QED
    BY <1>1, <1>2, <1>3, <2>1, <2>2, EarlyOffer
<1>7. QED
  BY <1>1, <1>5, <1>6

LEMMA OtherConsentThere ==
  ASSUME Shape, row' = row \/ row' = Upsert(row, <<"OTHER_CONSENT", 1>>)
  PROVE  \E k \in Keys : /\ k[1] = "OTHER_CONSENT"
                         /\ \A j \in Keys : j # k => (row'[j] = "absent" <=> row[j] = "absent")
<1> DEFINE k == <<"OTHER_CONSENT", 1>>
<1>1. k \in Keys /\ k[1] = "OTHER_CONSENT" /\ row \in [Keys -> RowStatus]
  BY KeysThere DEF Shape
<1>2. row' = row \/ row' = Upsert(row, k)
  OBVIOUS
<1> HIDE DEF k
<1>3. \A j \in Keys : j # k => row'[j] = row[j]
  BY <1>1, <1>2, UpsertAdds
<1>4. QED
  BY <1>1, <1>3

LEMMA FollowOffer ==
  ASSUME PipelineInv, OfferInv, followUp
  PROVE  OfferInv'
<1>1. /\ worker.pc = "followUp"
      /\ row' = row \/ row' = Upsert(row, <<"OTHER_CONSENT", 1>>)
      /\ worker' = Idle \/ worker' = [worker EXCEPT !.pc = "followWrite", !.link = link]
      /\ UNCHANGED <<app, client, lender>>
  BY DEF followUp
<1>2. worker' = Idle \/ (worker'.key = worker.key /\ worker'.offer = worker.offer)
  BY <1>1 DEF PipelineInv, Shape, Workers
<1>3. Following' /\ worker'.key = worker.key => Following
  BY <1>1 DEF Following
<1>4. OfferCarried'
  BY <1>1, <1>2, <1>3, CarriedStays
<1>5. PICK k \in Keys : /\ k[1] = "OTHER_CONSENT"
                        /\ \A j \in Keys : j # k => (row'[j] = "absent" <=> row[j] = "absent")
  BY <1>1, OtherConsentThere DEF PipelineInv
<1>6. QED
  BY <1>1, <1>4, <1>5, EarlyOffer

LEMMA WriteOffers ==
  ASSUME PipelineInv, OfferInv, followWrite
  PROVE  OfferInv'
<1>1. worker.pc = "followWrite" /\ worker' = Idle /\ UNCHANGED <<app, client, lender>>
  BY DEF followWrite
<1>2. /\ worker.key \in Keys /\ worker.link \in Links /\ row[worker.key] # "absent"
      /\ row \in [Keys -> RowStatus] /\ (worker.key[1] = "UPDATE" => worker.key[2] <= 2)
  BY <1>1, AtWork DEF PipelineInv, Shape, Workers, WorkerBacked, Following
<1>3. \/ worker.key[1] = "UPDATE" /\ worker.key[2] \in 1..2 /\ writeDecision(worker.key[2], worker.link)
      \/ worker.key[1] # "UPDATE" /\ writeUpdate(1, worker.link)
  BY <1>2, WriteTyped DEF PipelineInv
<1>4. OfferCarried'
  BY <1>1, CarriedStays
<1>5. CASE worker.key[1] # "UPDATE" /\ writeUpdate(1, worker.link)
  <2> DEFINE k == <<"UPDATE", 1>>
  <2>1. row' = Upsert(row, k)
    BY <1>5 DEF writeUpdate
  <2>2. k \in Keys /\ k = <<"UPDATE", 1>>
    BY KeysThere, Constants
  <2> HIDE DEF k
  <2>3. \A j \in Keys : j # k => (row'[j] = "absent" <=> row[j] = "absent")
    BY <1>2, <2>1, <2>2, UpsertAdds
  <2>4. QED
    BY <1>1, <1>4, <2>2, <2>3, EarlyOffer
<1>6. CASE worker.key[1] = "UPDATE" /\ worker.key[2] \in 1..2 /\ writeDecision(worker.key[2], worker.link)
  <2>1. PICK v \in 1..2 : v = worker.key[2]
    BY <1>6
  <2>2. worker.key = <<"UPDATE", v>> /\ v \in Versions
    BY <1>2, <1>6, <2>1, KeyForms
  <2>3. Following
    BY <1>1, <1>6 DEF Following
  <2>4. v = 2 => lender.update >= 2 /\ app.offer # NoOffer
    BY <1>2, <2>1, <2>2, <2>3 DEF OfferInv, OfferStored, OfferCarried
  <2> DEFINE k == <<"DECISION", v>>
  <2>5. row' = Upsert(row, k)
    BY <1>6, <2>1 DEF writeDecision
  <2>6. k \in Keys /\ k[1] = "DECISION" /\ k[2] = v
    BY KeysThere
  <2> HIDE DEF k
  <2>7. \A j \in Keys : j # k => row'[j] = row[j]
    BY <1>2, <2>5, <2>6, UpsertAdds
  <2>8. \A u \in Versions : row'[<<"UPDATE", u>>] = row[<<"UPDATE", u>>]
    <3>1. \A u \in Versions : <<"UPDATE", u>> \in Keys /\ <<"UPDATE", u>>[1] = "UPDATE"
      BY KeysThere
    <3>2. QED
      BY <2>6, <2>7, <3>1
  <2>9. FinalAsked => FinalAsked'
    BY <1>2, <2>5, <2>6, UpsertAdds, KeysThere DEF FinalAsked
  <2>10. FinalAsked' => FinalAsked \/ (lender.update >= 2 /\ app.offer # NoOffer)
    <3>1. CASE v = 2
      BY <2>4, <3>1
    <3>2. CASE v = 1
      <4>1. <<"DECISION", 2>> \in Keys /\ <<"DECISION", 2>> # k
        BY <2>6, <3>2, KeysThere
      <4>2. QED
        BY <2>7, <4>1 DEF FinalAsked
    <3>3. QED
      BY <3>1, <3>2
  <2>11. \A c \in Clients : client'[c].pc = "writeOffer" => client'[c].offer # NoOffer
    BY <1>1 DEF OfferInv, OfferStored
  <2>12. QED
    BY <1>1, <1>4, <2>8, <2>9, <2>10, <2>11, OfferKept
<1>7. QED
  BY <1>3, <1>5, <1>6

LEMMA OthersOffer ==
  ASSUME PipelineInv, OfferInv,
         \/ crash \/ \E k \in Keys : sweep(k) \/ replayFailedEvent(k)
         \/ processLenderRejectionWebhook
         \/ \E decision \in {"approve", "reject"} : startReview(decision)
         \/ commitApprove \/ commitReject
  PROVE  OfferInv'
<1>1. UNCHANGED <<client, lender>> /\ (worker' = worker \/ worker' = Idle)
  BY DEF crash, sweep, replayFailedEvent, processLenderRejectionWebhook, startReview, commitApprove,
         commitReject
<1>2. app'.offer = app.offer
  BY DEF crash, sweep, replayFailedEvent, processLenderRejectionWebhook, startReview, commitApprove,
         commitReject, PipelineInv, Shape
<1>3. OfferCarried'
  BY <1>1, CarriedStays
<1>4. \A j \in Keys : row'[j] = "absent" <=> row[j] = "absent"
  <2>1. ASSUME NEW k \in Keys, sweep(k) \/ replayFailedEvent(k)
        PROVE  \A j \in Keys : row'[j] = "absent" <=> row[j] = "absent"
    <3>1. PICK st \in {"RETRY_PENDING", "PENDING"} :
            row[k] # "absent" /\ row' = [row EXCEPT ![k] = st]
      BY <2>1 DEF sweep, replayFailedEvent
    <3>2. QED
      BY <3>1, OneRowThere DEF PipelineInv
  <2>2. QED
    BY <2>1 DEF crash, processLenderRejectionWebhook, startReview, commitApprove, commitReject
<1>5. QED
  BY <1>1, <1>2, <1>3, <1>4, OfferRowsKept

\* One request moves to a place that the stored offer allows.
LEMMA RequestOffer ==
  ASSUME OfferInv, NEW c \in Clients, OthersKept(c), UNCHANGED <<worker, lender>>,
         app'.offer = app.offer,
         \A v \in Versions : v >= 2 /\ row'[<<"UPDATE", v>>] # "absent" =>
           row[<<"UPDATE", v>>] # "absent" \/ app.offer # NoOffer,
         FinalAsked' <=> FinalAsked,
         client'[c].version >= 2 => client[c].version >= 2 \/ app.offer # NoOffer,
         client'[c].pc = "writeOffer" => client'[c].offer # NoOffer
  PROVE  OfferInv'
<1>1. ASSUME NEW d \in Clients
      PROVE  /\ client'[d].version >= 2 => client[d].version >= 2 \/ app.offer # NoOffer
             /\ client'[d].pc = "writeOffer" => client'[d].offer # NoOffer
  <2>1. CASE d = c
    BY <2>1
  <2>2. CASE d # c
    <3>1. client'[d] = client[d]
      BY <2>2 DEF OthersKept
    <3>2. QED
      BY <3>1 DEF OfferInv, OfferStored
  <2>3. QED
    BY <2>1, <2>2
<1>2. OfferCarried'
  BY CarriedStays
<1>3. QED
  BY <1>1, <1>2, OfferKept

\* The customer's calls that leave the rows, or add only the consents' row.
LEMMA CallOffer ==
  ASSUME PipelineInv, OfferInv, NEW c \in Clients,
         \/ saveProfile(c) \/ enqueueUpdateWhenReady(c) \/ recordDecisionConsents(c)
         \/ enqueueConsentSubmissions(c) \/ enqueueDecisionWhenReady(c)
  PROVE  OfferInv'
<1>1. /\ OthersKept(c) /\ UNCHANGED <<worker, lender, app>>
      /\ row' = row \/ row' = Upsert(row, <<"OTHER_CONSENT", 1>>)
      /\ client'[c].pc # "writeOffer"
      /\ client'[c].version \in {1, client[c].version}
  <2>1. CASE saveProfile(c)
    BY <2>1, SaveTyped DEF PipelineInv
  <2>2. CASE enqueueUpdateWhenReady(c)
    BY <2>2, EnqueueUpdateTyped DEF PipelineInv
  <2>3. CASE recordDecisionConsents(c)
    BY <2>3, RecordTyped DEF PipelineInv
  <2>4. CASE enqueueConsentSubmissions(c)
    BY <2>4, EnqueueConsentsTyped DEF PipelineInv
  <2>5. CASE enqueueDecisionWhenReady(c)
    BY <2>5, EnqueueDecisionTyped, Constants DEF PipelineInv
  <2>6. QED
    BY <2>1, <2>2, <2>3, <2>4, <2>5
<1>2. PICK k \in Keys : /\ k[1] = "OTHER_CONSENT"
                        /\ \A j \in Keys : j # k => (row'[j] = "absent" <=> row[j] = "absent")
  BY <1>1, OtherConsentThere DEF PipelineInv
<1>3. FinalAsked' <=> FinalAsked
  BY <1>2, KeysThere DEF FinalAsked
<1>4. \A v \in Versions : row'[<<"UPDATE", v>>] # "absent" => row[<<"UPDATE", v>>] # "absent"
  BY <1>2, KeysThere
<1>5. client'[c].version >= 2 => client[c].version >= 2
  <2>1. ~(1 >= 2)
    OBVIOUS
  <2>2. QED
    BY <1>1, <2>1
<1>6. QED
  BY <1>1, <1>3, <1>4, <1>5, RequestOffer

\* The request writes the row of its version: past the first, the offer is stored.
LEMMA CommitUpdateOffer ==
  ASSUME PipelineInv, OfferInv, NEW c \in Clients, commitUpdate(c)
  PROVE  OfferInv'
<1> DEFINE u == client[c].version
           k == <<"UPDATE", u>>
<1>1. /\ OthersKept(c) /\ client'[c] = NoCall /\ u \in Versions
      /\ writeUpdate(u, client[c].link) /\ UNCHANGED <<app, worker, lender>>
  BY CommitUpdateTyped DEF PipelineInv
<1>2. row' = Upsert(row, k) /\ row \in [Keys -> RowStatus]
  BY <1>1 DEF writeUpdate, PipelineInv, Shape
<1>3. k \in Keys /\ k[1] = "UPDATE" /\ k[2] = u
  BY <1>1, KeysThere
<1>4. u >= 2 => app.offer # NoOffer
  BY DEF OfferInv, OfferStored
<1> HIDE DEF u, k
<1>5. \A j \in Keys : j # k => row'[j] = row[j]
  BY <1>2, <1>3, UpsertAdds
<1>6. FinalAsked' <=> FinalAsked
  <2>1. <<"DECISION", 2>> \in Keys /\ <<"DECISION", 2>> # k
    BY <1>3, KeysThere
  <2>2. QED
    BY <1>5, <2>1 DEF FinalAsked
<1>7. ASSUME NEW v \in Versions, v >= 2, row'[<<"UPDATE", v>>] # "absent"
      PROVE  row[<<"UPDATE", v>>] # "absent" \/ app.offer # NoOffer
  <2>1. CASE v = u
    BY <1>4, <1>7, <2>1
  <2>2. CASE v # u
    <3>1. <<"UPDATE", v>> \in Keys /\ <<"UPDATE", v>> # k
      BY <1>3, <2>2, KeysThere
    <3>2. QED
      BY <1>5, <1>7, <3>1
  <2>3. QED
    BY <2>1, <2>2
<1>8. client'[c].pc = "idle" /\ client'[c].version = 1
  BY <1>1, Constants
<1>9. QED
  BY <1>1, <1>6, <1>7, <1>8, RequestOffer

\* The submit asks for the first decision only.
LEMMA CommitRequestOffer ==
  ASSUME PipelineInv, OfferInv, NEW c \in Clients, commitDecisionRequest(c)
  PROVE  OfferInv'
<1> DEFINE k == <<"DECISION", 1>>
<1>1. /\ OthersKept(c) /\ client'[c] = NoCall
      /\ writeDecision(1, client[c].link) /\ UNCHANGED <<app, worker, lender>>
  BY CommitRequestTyped DEF PipelineInv
<1>2. row' = Upsert(row, k) /\ row \in [Keys -> RowStatus]
  BY <1>1 DEF writeDecision, PipelineInv, Shape
<1>3. k \in Keys /\ k[1] = "DECISION" /\ k[2] = 1
  BY KeysThere
<1> HIDE DEF k
<1>4. \A j \in Keys : j # k => row'[j] = row[j]
  BY <1>2, <1>3, UpsertAdds
<1>5. FinalAsked' <=> FinalAsked
  <2>1. <<"DECISION", 2>> \in Keys /\ <<"DECISION", 2>> # k
    BY <1>3, KeysThere
  <2>2. QED
    BY <1>4, <2>1 DEF FinalAsked
<1>6. \A v \in Versions : row'[<<"UPDATE", v>>] # "absent" => row[<<"UPDATE", v>>] # "absent"
  <2>1. \A v \in Versions : <<"UPDATE", v>> \in Keys /\ <<"UPDATE", v>>[1] = "UPDATE"
    BY KeysThere
  <2>2. QED
    BY <1>3, <1>4, <2>1
<1>7. client'[c].pc = "idle" /\ client'[c].version = 1
  BY <1>1, Constants
<1>8. QED
  BY <1>1, <1>5, <1>6, <1>7, RequestOffer

LEMMA SelectOffer ==
  ASSUME PipelineInv, OfferInv, NEW c \in Clients, NEW offer \in Offers,
         selectPreApprovalOffer(c, offer)
  PROVE  OfferInv'
<1>1. /\ OthersKept(c) /\ client'[c].version = client[c].version
      /\ UNCHANGED <<row, app, worker, lender>>
  BY SelectTyped DEF PipelineInv
<1>2. client'[c].offer = offer
  BY DEF selectPreApprovalOffer, PipelineInv, Shape, Requests
<1>3. offer # NoOffer
  BY PipelineAssumption
<1>4. FinalAsked' <=> FinalAsked
  BY <1>1 DEF FinalAsked
<1>5. QED
  BY <1>1, <1>2, <1>3, <1>4, RequestOffer

\* The offer is stored, and stays an offer.
LEMMA WriteOfferOffer ==
  ASSUME PipelineInv, OfferInv, NEW c \in Clients, writeOffer(c)
  PROVE  OfferInv'
<1>1. /\ OthersKept(c) /\ client[c].pc = "writeOffer" /\ client'[c].pc = "enqueueUpdate"
      /\ UNCHANGED <<row, worker, lender>>
  BY WriteOfferTyped DEF PipelineInv
<1>2. app'.offer = client[c].offer
  BY DEF writeOffer, PipelineInv, Shape
<1>3. app'.offer # NoOffer
  BY <1>1, <1>2 DEF OfferInv, OfferStored
<1>4. \A d \in Clients : client'[d].pc = "writeOffer" => client'[d].offer # NoOffer
  BY <1>1 DEF OthersKept, OfferInv, OfferStored
<1>5. OfferStored'
  BY <1>3, <1>4 DEF OfferStored
<1>6. OfferCarried'
  BY <1>1, CarriedStays
<1>7. LenderTold'
  BY <1>1 DEF OfferInv, LenderTold, FinalAsked
<1>8. QED
  BY <1>5, <1>6, <1>7 DEF OfferInv

\* A later push is of an approved loan, whose final decision was asked for.
LEMMA PushOffer ==
  ASSUME PipelineInv, OfferInv, NEW c \in Clients, NEW v \in Versions, stagePush(c, v)
  PROVE  OfferInv'
<1>1. /\ OthersKept(c) /\ app.status = "LENDER_APPROVED" /\ client'[c].pc = "enqueueUpdate"
      /\ UNCHANGED <<row, app, worker, lender>>
  BY PushTyped DEF PipelineInv
<1>2. app.offer # NoOffer
  BY <1>1 DEF PipelineInv, StatusBacked, OfferInv, OfferStored
<1>3. FinalAsked' <=> FinalAsked
  BY <1>1 DEF FinalAsked
<1>4. QED
  BY <1>1, <1>2, <1>3, RequestOffer

LEMMA OfferStarts == Init => OfferInv
<1> SUFFICES ASSUME Init PROVE OfferInv
  OBVIOUS
<1>1. /\ row = [k \in Keys |-> IF k = <<"CREATE", 1>> THEN "PENDING" ELSE "absent"]
      /\ worker = Idle /\ client = [c \in Clients |-> NoCall]
      /\ lender = [update |-> 0, offer |-> NoOffer, stage |-> 0]
  BY DEF Init
<1>2. \A k \in Keys : k[1] # "CREATE" => row[k] = "absent"
  BY <1>1
<1>3. ~FinalAsked /\ \A v \in Versions : row[<<"UPDATE", v>>] = "absent"
  BY <1>2, KeysThere DEF FinalAsked
<1>4. \A c \in Clients : client[c].pc = "idle" /\ client[c].version = 1
  BY <1>1, Constants
<1>5. worker.pc = "idle"
  BY <1>1, Constants
<1>6. OfferStored
  BY <1>3, <1>4 DEF OfferStored
<1>7. OfferCarried
  BY <1>5 DEF OfferCarried, Following
<1>8. LenderTold
  BY <1>1, <1>3 DEF LenderTold
<1>9. QED
  BY <1>6, <1>7, <1>8 DEF OfferInv

LEMMA OfferKeptByNext ==
  ASSUME PipelineInv, OfferInv, [Next]_vars
  PROVE  OfferInv'
<1>1. CASE WorkerStep
  BY <1>1, LoadOffer, EndOffer, InFlightOffer, LenderOffer, CompleteOffer, ReadOffer, CommitOffer,
     FollowOffer, WriteOffers
  DEF WorkerStep
<1>2. CASE \/ crash \/ \E k \in Keys : sweep(k) \/ replayFailedEvent(k)
           \/ processLenderRejectionWebhook
           \/ \E decision \in {"approve", "reject"} : startReview(decision)
           \/ commitApprove \/ commitReject
  BY <1>2, OthersOffer
<1>3. ASSUME NEW c \in Clients, ClientStep(c)
      PROVE  OfferInv'
  BY <1>3, CallOffer, CommitUpdateOffer, CommitRequestOffer, SelectOffer, WriteOfferOffer, PushOffer
  DEF ClientStep
<1>4. CASE UNCHANGED vars
  BY <1>4 DEF vars, OfferInv, OfferStored, OfferCarried, LenderTold, FinalAsked, Following
<1>5. QED
  BY <1>1, <1>2, <1>3, <1>4 DEF Next

\* The decision reads version and offer together; nothing touches that copy before it is used.
LEMMA TermsKept ==
  ASSUME PipelineInv, OfferInv, ApprovalTermsStored, [Next]_vars
  PROVE  ApprovalTermsStored'
<1>1. CASE readDecision
  <2>1. worker'.link = link /\ worker'.offer = app.offer
    BY <1>1 DEF readDecision, PipelineInv, Shape, Workers
  <2>2. link.decisionVersion >= 2 => app.offer # NoOffer
    BY DEF PipelineInv, LinkBacked, OfferInv, OfferStored
  <2>3. QED
    BY <2>1, <2>2 DEF ApprovalTermsStored, IsFinal
<1>2. SUFFICES ASSUME ~readDecision
               PROVE  worker' = worker \/ worker'.pc # "deciding"
  BY <1>1 DEF ApprovalTermsStored, IsFinal
<1>3. CASE WorkerStep
  <2>1. ASSUME NEW k \in Keys, loadEvent(k)
        PROVE  worker'.pc # "deciding"
    BY <2>1, LoadTyped DEF PipelineInv
  <2>2. CASE \/ returnFalse \/ completeCreate \/ completeConsent \/ completeUpdate
             \/ commitDecision \/ settleFailure \/ followUp \/ followWrite
    <3>1. worker' = Idle \/ worker' = [worker EXCEPT !.pc = "followUp"]
          \/ worker' = [worker EXCEPT !.pc = "followWrite", !.link = link]
      BY <2>2 DEF returnFalse, completeCreate, completeConsent, completeUpdate, commitDecision,
                  settleFailure, followUp, followWrite
    <3>2. QED
      BY <3>1, Constants DEF PipelineInv, Shape, Workers
  <2>3. CASE refuse \/ callLender \/ markStageFailure
    <3>1. PICK pc \in {"failing", "calling", "settleRetry", "settleFailed"} :
            worker' = [worker EXCEPT !.pc = pc]
      BY <2>3 DEF refuse, callLender, markStageFailure
    <3>2. QED
      BY <3>1 DEF PipelineInv, Shape, Workers
  <2>4. ASSUME \/ \E verdict \in Verdicts : lenderAnswers(verdict)
               \/ \E retrying \in BOOLEAN : lenderFails(retrying)
        PROVE  worker'.pc # "deciding"
    BY <2>4 DEF lenderAnswers, lenderFails, PipelineInv, Shape, Workers
  <2>5. QED
    BY <1>2, <1>3, <2>1, <2>2, <2>3, <2>4 DEF WorkerStep
<1>4. CASE crash
  BY <1>4, Constants DEF crash
<1>5. CASE \E k \in Keys : sweep(k) \/ replayFailedEvent(k)
  BY <1>5 DEF sweep, replayFailedEvent
<1>6. ASSUME NEW c \in Clients, ClientStep(c)
      PROVE  worker' = worker
  BY <1>6 DEF ClientStep, saveProfile, enqueueUpdateWhenReady, commitUpdate, recordDecisionConsents,
              enqueueConsentSubmissions, enqueueDecisionWhenReady, commitDecisionRequest,
              selectPreApprovalOffer, writeOffer, stagePush
<1>7. CASE \/ processLenderRejectionWebhook
           \/ \E decision \in {"approve", "reject"} : startReview(decision)
           \/ commitApprove \/ commitReject
  BY <1>7 DEF processLenderRejectionWebhook, startReview, commitApprove, commitReject
<1>8. CASE UNCHANGED vars
  BY <1>8 DEF vars
<1>9. QED
  BY <1>3, <1>4, <1>5, <1>6, <1>7, <1>8 DEF Next

\* The lender is asked for its final decision only once it has taken the push that carries
\* the customer's offer, whatever fails, crashes, is replayed or overlaps.
THEOREM FinalAfterOfferHolds == Spec => []FinalAfterOffer
<1>1. Init => PipelineInv /\ OfferInv
  BY PipelineStarts, OfferStarts
<1>2. PipelineInv /\ OfferInv /\ [Next]_vars => (PipelineInv /\ OfferInv)'
  BY PipelineKept, OfferKeptByNext
<1>3. OfferInv => FinalAfterOffer
  BY DEF OfferInv, LenderTold, FinalAfterOffer
<1>4. QED
  BY <1>1, <1>2, <1>3, PTL DEF Spec

\* Who decides by a final request has read the customer's offer with it, so the refusal of
\* LenderDecisionProcessor for want of terms, which commitDecision leaves out, never comes.
THEOREM ApprovalTermsStoredHolds == Spec => []ApprovalTermsStored
<1> DEFINE TermsInv == PipelineInv /\ OfferInv /\ ApprovalTermsStored
<1>1. Init => TermsInv
  <2>1. Init => ApprovalTermsStored
    BY Constants DEF Init, ApprovalTermsStored
  <2>2. QED
    BY <2>1, PipelineStarts, OfferStarts
<1>2. TermsInv /\ [Next]_vars => TermsInv'
  BY PipelineKept, OfferKeptByNext, TermsKept
<1>3. TermsInv => ApprovalTermsStored
  OBVIOUS
<1> HIDE DEF TermsInv
<1>4. QED
  BY <1>1, <1>2, <1>3, PTL DEF Spec
================================================================================
