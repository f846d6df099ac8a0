----------------------------- MODULE OfficeProofs ------------------------------
(***************************************************************************)
(* What the back office and the signing pages decide: four eyes over the   *)
(* catalogues (MakerChecker), the evidence of a signature                  *)
(* (ElectronicSign), the price of an offer (PreApprovalOffer), the lender  *)
(* of an application (LenderAllocation), the follow-up of a customer who   *)
(* is stuck (Messaging) and the policy an applicant is held against        *)
(* (PolicyEvaluation), for any operators, tabs, contents, versions,        *)
(* applications, customers, rules and number of writes.                    *)
(*                                                                         *)
(* FourEyes is not inductive: an approval is decided on a row that was     *)
(* read, or shown, some steps before it is written.  The invariant says    *)
(* what such a reading is still worth: as long as the row has the version  *)
(* that was read it is the row that was read, and the checks made then     *)
(* hold of it now.  Superseding is the one write that leaves the version   *)
(* alone, and it only hits active rows, on which nothing is conditioned.   *)
(***************************************************************************)
EXTENDS MakerChecker, ElectronicSign, PreApprovalOffer, LenderAllocation, Messaging,
        PolicyEvaluation, SequenceTheorems, FiniteSetTheorems, WellFoundedInduction, TLAPS

People == Operators \cup {"none"}
Rows ==
  [status : {"DRAFT", "SUBMITTED", "APPROVED", "REJECTED", "ACTIVE", "SUPERSEDED"},
   version : Nat, content : Nat, createdBy : People, submittedBy : People,
   approvedBy : People, seen : Nat]
Requests ==
  [op : Ops \cup {"none", "open"}, by : People, v : Nat, shown : Rows, read : Rows,
   actives : SUBSET Nat]

Shape ==
  /\ kind \in Kinds /\ operational \in BOOLEAN /\ writes \in Nat
  /\ versions \in Seq(Rows) /\ Len(versions) # 0
  /\ kind = "lender" => Len(versions) = 1
  /\ request \in [Slots -> Requests]
  /\ \A s \in Slots : request[s].op # "none" => request[s].v \in 1..Len(versions)

\* The checks of begin() that an approval rests on.
Checked(r, row) ==
  /\ row.status \in Required(r.op)
  /\ r.op \in {"approve", "reject"} => Maker(row) # r.by
  /\ r.op = "approve" /\ kind = "policy" => row.content \notin Broken

Trusted(r) ==
  LET row == versions[r.v]
  IN /\ r.shown.version <= row.version
     /\ row.version = r.shown.version => row = r.shown \/ r.shown.status = "ACTIVE"
     /\ r.op \in Ops =>
          /\ r.read.version <= row.version
          /\ row.version = r.read.version => row = r.read /\ Checked(r, row)
          /\ kind = "policy" => r.read = r.shown

ReadingsTrusted ==
  kind \in {"lender", "policy"} => \A s \in Slots : request[s].op # "none" => Trusted(request[s])

OperationalApproved == operational => kind = "lender" /\ versions[1].status = "APPROVED"

Inv == Shape /\ ReadingsTrusted /\ OperationalApproved /\ FourEyes

\* The versions as a function, the form in which the provers can use them.
LEMMA VersionRows ==
  ASSUME Shape
  PROVE  /\ Len(versions) \in Nat /\ DOMAIN versions = 1..Len(versions) /\ 1 \in 1..Len(versions)
         /\ \A v \in 1..Len(versions) : versions[v] \in Rows
         /\ \A s \in Slots : request[s] \in Requests
         /\ versions \in [1..Len(versions) -> Rows]
  BY LenProperties, ElementOfSeq DEF Shape

\* A draft is a row, and an idle tab has no request.
LEMMA Drafts ==
  /\ \A u \in People, c \in Nat :
       /\ Draft(u, c) \in Rows /\ Draft(u, c).status = "DRAFT"
  /\ NoRequest \in Requests /\ NoRequest.op = "none"
<1>1. \A u \in People, c \in Nat : Draft(u, c) \in Rows /\ Draft(u, c).status = "DRAFT"
  BY DEF Draft, Rows, People
<1>2. Draft("none", 0) \in Rows
  BY <1>1 DEF People
<1>3. NoRequest \in Requests /\ NoRequest.op = "none"
  BY <1>2 DEF NoRequest, Requests, People
<1>4. QED
  BY <1>1, <1>3

\* The first draft of an entry.
LEMMA InitInv == McInit => Inv
<1> SUFFICES ASSUME McInit PROVE Inv
  OBVIOUS
<1>1. PICK u \in Operators : versions = <<Draft(u, 1)>>
  BY DEF McInit
<1>2. Draft(u, 1) \in Rows /\ Draft(u, 1).status = "DRAFT"
  BY Drafts DEF People
<1>3. versions \in Seq(Rows) /\ Len(versions) = 1 /\ DOMAIN versions = 1..1 /\ versions[1] = Draft(u, 1)
  BY <1>1, <1>2
<1>4. \A s \in Slots : request[s] = NoRequest
  BY DEF McInit
<1>5. Shape
  <2>1. request \in [Slots -> Requests] /\ \A s \in Slots : request[s].op = "none"
    BY <1>4, Drafts DEF McInit
  <2>2. kind \in Kinds /\ operational = FALSE /\ writes = 0
    BY DEF McInit
  <2>3. versions \in Seq(Rows) /\ Len(versions) # 0 /\ (kind = "lender" => Len(versions) = 1)
    BY <1>3
  <2>4. operational \in BOOLEAN /\ writes \in Nat
    BY <2>2
  <2>5. QED
    BY <2>1, <2>2, <2>3, <2>4 DEF Shape
<1>6. ReadingsTrusted
  BY <1>4, Drafts DEF ReadingsTrusted
<1>7. OperationalApproved /\ FourEyes
  BY <1>2, <1>3 DEF McInit, OperationalApproved, FourEyes, Decided
<1>8. QED
  BY <1>5, <1>6, <1>7 DEF Inv

\* A step that writes no row and changes one tab's request.
LEMMA TabStep ==
  ASSUME Inv, NEW s \in Slots, NEW r \in Requests, request' = [request EXCEPT ![s] = r],
         UNCHANGED <<kind, versions, operational, writes>>,
         r.op # "none" => r.v \in 1..Len(versions),
         kind \in {"lender", "policy"} /\ r.op # "none" => Trusted(r)
  PROVE  Inv'
<1>1. request' \in [Slots -> Requests] /\ request'[s] = r
      /\ \A t \in Slots \ {s} : request'[t] = request[t]
  BY DEF Inv, Shape
<1>2. Shape'
  BY <1>1 DEF Inv, Shape
<1>3. ReadingsTrusted'
  <2> SUFFICES ASSUME kind \in {"lender", "policy"}, NEW t \in Slots, request'[t].op # "none"
               PROVE  Trusted(request[t])'
    BY DEF ReadingsTrusted
  <2>1. Trusted(request'[t])
    BY <1>1 DEF Inv, ReadingsTrusted
  <2>2. QED
    BY <2>1 DEF Trusted, Checked, Required
<1>4. OperationalApproved' /\ FourEyes'
  BY DEF Inv, OperationalApproved, FourEyes, Decided, Maker
<1>5. QED
  BY <1>2, <1>3, <1>4 DEF Inv

\* A page shows the row as it is.
LEMMA OpenPageInv ==
  ASSUME Inv, NEW s \in Slots, NEW u \in Operators, NEW v \in DOMAIN versions, openPage(s, u, v)
  PROVE  Inv'
<1> DEFINE r == [op |-> "open", by |-> u, v |-> v, shown |-> versions[v], read |-> versions[v], actives |-> {}]
<1>1. request' = [request EXCEPT ![s] = r] /\ UNCHANGED <<kind, versions, operational, writes>>
  BY DEF openPage
<1>2. v \in 1..Len(versions) /\ v \in Nat /\ versions[v] \in Rows
  BY VersionRows DEF Inv
<1>3. r \in Requests /\ r.op = "open" /\ r.v = v /\ r.shown = versions[v]
  BY <1>2 DEF Requests, People
<1> HIDE DEF r
<1>4. Trusted(r)
  BY <1>2, <1>3 DEF Trusted, Ops, Rows
<1>5. QED
  BY <1>1, <1>2, <1>3, <1>4, TabStep

\* A click: what the service checks now holds of the row it reads now; a policy's write is
\* conditioned on the version of the page, which is this row only if the versions agree.
LEMMA BeginInv ==
  ASSUME Inv, NEW s \in Slots, NEW op \in Ops, begin(s, op)
  PROVE  Inv'
<1> DEFINE r == request[s]
           row == versions[r.v]
           actives == Statuses("ACTIVE")
           read == IF kind = "policy" THEN r.shown ELSE row
           new == [r EXCEPT !.op = op, !.actives = actives, !.read = read]
<1>1. r.op = "open" /\ UNCHANGED <<kind, versions, operational, writes>> /\ r \in Requests
      /\ r.v \in 1..Len(versions) /\ row \in Rows /\ actives \in SUBSET Nat
  BY VersionRows DEF begin, Inv, Shape, Statuses
<1>2. CASE request' = [request EXCEPT ![s] = NoRequest]
  BY <1>1, <1>2, Drafts, TabStep
<1>3. CASE request' # [request EXCEPT ![s] = NoRequest]
  <2>1. /\ request' = [request EXCEPT ![s] = new] /\ offers(op, r.shown, r.by)
        /\ row.status \in Required(op)
        /\ op \in {"approve", "reject"} => mayDecide(op, row, r.by)
        /\ Valid(op, IF op = "edit" THEN row.content + 1 ELSE row.content)
    BY <1>3 DEF begin
  <2>2. read \in Rows
    BY <1>1 DEF Requests
  <2>3. /\ new \in Requests /\ new.op = op /\ new.read = read /\ new.v = r.v /\ new.shown = r.shown
        /\ new.by = r.by
    BY <1>1, <2>2 DEF Requests
  <2>4. ASSUME kind \in {"lender", "policy"} PROVE Trusted(new)
    <3>1. /\ r.shown.version <= row.version
          /\ row.version = r.shown.version => row = r.shown \/ r.shown.status = "ACTIVE"
      BY <1>1, <2>4 DEF Inv, ReadingsTrusted, Trusted
    <3>2. op \in {"approve", "reject"} => Maker(row) # r.by
      BY <2>1, <2>4 DEF mayDecide
    <3>3. op = "approve" /\ kind = "policy" => row.content \notin Broken
      BY <2>1 DEF Valid, policyValid
    <3>4. kind = "policy" => r.shown.status # "ACTIVE"
      BY <2>1 DEF offers, policyOffers, Required, Ops
    <3>5. read.version <= row.version
      BY <1>1, <3>1 DEF Rows
    <3>6. row.version = read.version => row = read
      BY <3>1, <3>4
    <3> HIDE DEF new, read
    <3>7. Checked(new, row)
      BY <2>1, <2>3, <3>2, <3>3 DEF Checked
    <3> USE DEF read
    <3>8. kind = "policy" => read = r.shown
      OBVIOUS
    <3> HIDE DEF read
    <3>9. QED
      BY <2>3, <3>1, <3>5, <3>6, <3>7, <3>8 DEF Trusted
  <2> HIDE DEF new
  <2>5. QED
    BY <1>1, <2>1, <2>3, <2>4, TabStep DEF Ops
<1>4. QED
  BY <1>2, <1>3

\* What a write does to the row it hits.
LEMMA WrittenRow ==
  ASSUME Shape, NEW r \in Requests, r.op \in Ops, NEW old \in Rows, old = versions[r.v]
  PROVE  /\ written(r) \in Rows /\ written(r).version = old.version + 1
         /\ kind \in {"lender", "policy"} =>
              /\ r.op = "edit" => written(r).status = "DRAFT"
              /\ r.op = "submit" => written(r).status = "SUBMITTED"
              /\ r.op = "reject" => written(r).status = "REJECTED"
              /\ r.op = "approve" =>
                   /\ written(r).status = "APPROVED" /\ written(r).approvedBy = r.by
                   /\ written(r).seen = r.shown.content /\ written(r).content = old.content
                   /\ Maker(written(r)) = Maker(old)
              /\ r.op \in {"activate", "deactivate"} =>
                   /\ kind = "lender" => written(r).status = old.status
                   /\ written(r).status \in {old.status, "ACTIVE"}
                   /\ written(r).approvedBy = old.approvedBy
                   /\ written(r).seen = old.seen /\ written(r).content = old.content
                   /\ Maker(written(r)) = Maker(old)
<1> DEFINE row == [versions[r.v] EXCEPT !.version = @ + 1]
<1>1. /\ row \in Rows /\ row.version = old.version + 1 /\ row.status = old.status
      /\ row.content = old.content /\ row.seen = old.seen /\ row.approvedBy = old.approvedBy
      /\ row.submittedBy = old.submittedBy /\ row.createdBy = old.createdBy
  BY DEF Rows
<1>2. r.by \in People /\ r.shown \in Rows /\ kind \in Kinds /\ old.version \in Nat
  BY DEF Requests, Shape, Rows
<1>3. r.op = "edit" => written(r) = edited(row, r.read)
  BY DEF written
<1>4. r.op = "submit" => written(r) = submitted(row, r.by)
  BY DEF written
<1>5. r.op = "approve" => written(r) = approved(row, r.by, r.shown)
  BY DEF written
<1>6. r.op = "reject" => written(r) = rejected(row)
  BY DEF written
<1>7. r.op = "activate" => written(r) = activated(row)
  BY DEF written
<1>8. r.op = "deactivate" => written(r) = row
  BY DEF written
<1> HIDE DEF row
<1>9. CASE r.op = "edit"
  <2> DEFINE new == [row EXCEPT !.content = @ + 1]
  <2>1. new \in Rows /\ new.version = row.version
    BY <1>1 DEF Rows
  <2>2. /\ kind = "lender" => edited(row, r.read) = lenderEdited(new, r.read)
        /\ kind = "product" => edited(row, r.read) = productEdited(new)
        /\ kind = "policy" => edited(row, r.read) = policyEdited(new)
        /\ kind = "mlm" => edited(row, r.read) = mlmEdited(new)
    BY DEF edited
  <2> HIDE DEF new
  <2>3. /\ productEdited(new) \in Rows /\ productEdited(new).version = new.version
        /\ productEdited(new).status = "DRAFT"
        /\ policyEdited(new) = productEdited(new) /\ mlmEdited(new) = new
    BY <2>1 DEF productEdited, policyEdited, mlmEdited, Rows
  <2>4. /\ lenderEdited(new, r.read) \in Rows /\ lenderEdited(new, r.read).version = new.version
        /\ lenderEdited(new, r.read).status = "DRAFT"
    BY <2>1 DEF lenderEdited, Rows, People
  <2>5. QED
    BY <1>1, <1>2, <1>3, <1>9, <2>1, <2>2, <2>3, <2>4, McAssumption
<1>10. CASE r.op = "submit"
  <2>1. /\ submitted(row, r.by) \in Rows /\ submitted(row, r.by).version = row.version
        /\ submitted(row, r.by).status = "SUBMITTED"
    BY <1>1, <1>2 DEF submitted, Rows
  <2>2. QED
    BY <1>1, <1>4, <1>10, <2>1
<1>11. CASE r.op = "approve"
  <2> DEFINE new == approved(row, r.by, r.shown)
  <2>1. /\ new \in Rows /\ new.version = row.version
        /\ new.status = "APPROVED" /\ new.approvedBy = r.by
        /\ new.seen = r.shown.content /\ new.content = row.content
        /\ new.submittedBy = row.submittedBy /\ new.createdBy = row.createdBy
    BY <1>1, <1>2 DEF approved, Rows
  <2> HIDE DEF new
  <2>2. QED
    BY <1>1, <1>5, <1>11, <2>1 DEF new, Maker
<1>12. CASE r.op = "reject"
  <2>1. rejected(row) \in Rows /\ rejected(row).version = row.version /\ rejected(row).status = "REJECTED"
    BY <1>1 DEF rejected, Rows
  <2>2. QED
    BY <1>1, <1>6, <1>12, <2>1
<1>13. CASE r.op = "activate"
  <2> DEFINE new == activated(row)
  <2>1. /\ new \in Rows /\ new.version = row.version /\ new.status \in {row.status, "ACTIVE"}
        /\ kind = "lender" => new.status = row.status
        /\ new.approvedBy = row.approvedBy /\ new.seen = row.seen /\ new.content = row.content
        /\ new.submittedBy = row.submittedBy /\ new.createdBy = row.createdBy
    BY <1>1 DEF activated, Rows
  <2> HIDE DEF new
  <2>2. QED
    BY <1>1, <1>7, <1>13, <2>1 DEF new, Maker
<1>14. CASE r.op = "deactivate"
  BY <1>1, <1>8, <1>14 DEF Maker
<1>15. QED
  BY <1>9, <1>10, <1>11, <1>12, <1>13, <1>14 DEF Ops

\* What a write leaves of the rows: the row it hits, and the active ones it supersedes.
LEMMA EndRows ==
  ASSUME Inv, NEW s \in Slots, end(s), matches(request[s].op, versions[request[s].v], request[s].read)
  PROVE  /\ request[s].op \in Ops /\ request[s].v \in 1..Len(versions)
         /\ versions' \in Seq(Rows) /\ Len(versions') = Len(versions)
         /\ versions'[request[s].v] = written(request[s])
         /\ \A v \in 1..Len(versions) : v # request[s].v =>
              \/ versions'[v] = versions[v]
              \/ /\ kind # "lender" /\ (kind = "policy" => versions[v].status = "ACTIVE")
                 /\ versions'[v] = [versions[v] EXCEPT !.status = "SUPERSEDED"]
<1> DEFINE r == request[s]
           gone == [v \in 1..Len(versions) |-> [versions[v] EXCEPT !.status = "SUPERSEDED"]]
           new == written(r)
<1>1. r.op \in Ops /\ r \in Requests /\ r.v \in 1..Len(versions) /\ versions[r.v] \in Rows
  BY VersionRows DEF end, Inv, Shape, Ops
<1>2. new \in Rows
  BY <1>1, WrittenRow DEF Inv
<1>3. gone \in [1..Len(versions) -> Rows]
  BY VersionRows DEF Inv, Rows
<1>4. versions' = [v \in 1..Len(versions) |->
                     CASE v = r.v -> new
                       [] v # r.v /\ v \in Superseded(r) -> gone[v]
                       [] OTHER -> versions[v]]
  BY VersionRows DEF end, Inv
<1>5. \A v \in 1..Len(versions) : v # r.v /\ v \in Superseded(r) =>
        kind # "lender" /\ (kind = "policy" => versions[v].status = "ACTIVE")
  BY <1>1, McAssumption DEF Superseded, policySupersedes, Statuses, Inv, Shape
<1>6. \A v \in 1..Len(versions) : gone[v] = [versions[v] EXCEPT !.status = "SUPERSEDED"]
  OBVIOUS
<1> HIDE DEF new, gone
<1>7. ASSUME NEW v \in 1..Len(versions)
      PROVE  \/ v = r.v /\ versions'[v] = new
             \/ v # r.v /\ v \in Superseded(r) /\ versions'[v] = gone[v]
             \/ v # r.v /\ versions'[v] = versions[v]
  <2>1. versions'[v] = CASE v = r.v -> new
                         [] v # r.v /\ v \in Superseded(r) -> gone[v]
                         [] OTHER -> versions[v]
    BY <1>4
  <2>2. CASE v = r.v
    BY <2>1, <2>2
  <2>3. CASE v # r.v /\ v \in Superseded(r)
    BY <2>1, <2>3
  <2>4. CASE v # r.v /\ v \notin Superseded(r)
    BY <2>1, <2>4
  <2>5. QED
    BY <2>2, <2>3, <2>4
<1>8. versions' \in [1..Len(versions) -> Rows]
  BY <1>2, <1>3, <1>4, <1>7, VersionRows DEF Inv
<1>9. versions' \in Seq(Rows) /\ Len(versions') = Len(versions)
  BY <1>8, VersionRows DEF Inv
<1>10. \A v \in 1..Len(versions) : v # r.v =>
         \/ versions'[v] = versions[v]
         \/ /\ kind # "lender" /\ (kind = "policy" => versions[v].status = "ACTIVE")
            /\ versions'[v] = gone[v]
  BY <1>5, <1>7
<1>11. QED
  BY <1>1, <1>6, <1>7, <1>9, <1>10 DEF new

\* The write of a lender or a policy finds the row that was read, with its checks.
LEMMA FoundAsRead ==
  ASSUME Inv, NEW s \in Slots, end(s), kind \in {"lender", "policy"},
         matches(request[s].op, versions[request[s].v], request[s].read)
  PROVE  /\ versions[request[s].v] = request[s].read /\ Checked(request[s], versions[request[s].v])
         /\ kind = "policy" => request[s].read = request[s].shown
<1>1. versions[request[s].v].version = request[s].read.version
  BY DEF matches, lenderWhere, policyWhere
<1>2. request[s].op \in Ops /\ request[s].op # "none"
  BY DEF end, Ops
<1>3. QED
  BY <1>1, <1>2 DEF Inv, ReadingsTrusted, Trusted

\* The write itself.
LEMMA EndInv ==
  ASSUME Inv, NEW s \in Slots, end(s)
  PROVE  Inv'
<1> DEFINE r == request[s]
           row == versions[r.v]
<1>1. request' = [request EXCEPT ![s] = NoRequest] /\ UNCHANGED kind
  BY DEF end
<1>2. CASE ~matches(r.op, row, r.read)
  <2>1. UNCHANGED <<versions, operational, writes>>
    BY <1>2 DEF end
  <2>2. QED
    BY <1>1, <2>1, Drafts, TabStep
<1>3. CASE matches(r.op, row, r.read)
  <2>1. /\ r.op \in Ops /\ r.v \in 1..Len(versions) /\ r \in Requests /\ row \in Rows
        /\ versions' \in Seq(Rows) /\ Len(versions') = Len(versions) /\ Len(versions) \in Nat
        /\ \A v \in 1..Len(versions) : versions[v] \in Rows
        /\ DOMAIN versions = 1..Len(versions) /\ DOMAIN versions' = 1..Len(versions)
    BY <1>3, EndRows, VersionRows, LenProperties DEF Inv
  <2>2. ASSUME NEW v \in 1..Len(versions), v # r.v
        PROVE  \/ versions'[v] = versions[v]
               \/ /\ kind # "lender" /\ (kind = "policy" => versions[v].status = "ACTIVE")
                  /\ versions'[v].version = versions[v].version /\ versions'[v].status = "SUPERSEDED"
                  /\ versions'[v].approvedBy = versions[v].approvedBy
                  /\ versions'[v].content = versions[v].content /\ versions'[v].seen = versions[v].seen
                  /\ Maker(versions'[v]) = Maker(versions[v])
    <3>1. CASE versions'[v] = versions[v]
      BY <3>1
    <3>2. CASE versions'[v] # versions[v]
      <4>1. /\ kind # "lender" /\ (kind = "policy" => versions[v].status = "ACTIVE")
            /\ versions'[v] = [versions[v] EXCEPT !.status = "SUPERSEDED"]
        BY <1>3, <2>2, <3>2, EndRows
      <4> DEFINE x == versions[v]
                 y == versions'[v]
      <4>2. /\ y.version = x.version /\ y.status = "SUPERSEDED" /\ y.approvedBy = x.approvedBy
            /\ y.content = x.content /\ y.seen = x.seen
            /\ y.submittedBy = x.submittedBy /\ y.createdBy = x.createdBy
        BY <2>1, <4>1 DEF Rows
      <4>3. QED
        BY <4>1, <4>2 DEF Maker
    <3>3. QED
      BY <3>1, <3>2
  <2>3. versions'[r.v] = written(r)
    BY <1>3, EndRows
  <2>4. /\ request' \in [Slots -> Requests] /\ request'[s].op = "none"
        /\ \A t \in Slots \ {s} : request'[t] = request[t]
    BY <1>1, Drafts DEF Inv, Shape
  <2>5. operational' = (kind = "lender" /\ lenderOperational(r.op)) /\ writes' = writes + 1
    BY <1>3 DEF end
  <2>6. written(r).version = row.version + 1
    BY <2>1, WrittenRow DEF Inv
  <2>7. Shape'
    <3>1. operational' \in BOOLEAN /\ writes' \in Nat /\ kind' \in Kinds
      BY <1>1, <2>5 DEF Inv, Shape
    <3>2. \A t \in Slots : request'[t].op # "none" => request'[t].v \in 1..Len(versions')
      BY <2>1, <2>4 DEF Inv, Shape
    <3>3. Len(versions') # 0 /\ (kind' = "lender" => Len(versions') = 1)
      BY <1>1, <2>1 DEF Inv, Shape
    <3>4. QED
      BY <2>1, <2>4, <3>1, <3>2, <3>3 DEF Shape
  <2>8. ReadingsTrusted'
    <3> SUFFICES ASSUME kind \in {"lender", "policy"}, NEW t \in Slots, request'[t].op # "none"
                 PROVE  Trusted(request[t])'
      BY <1>1 DEF ReadingsTrusted
    <3> DEFINE q == request[t]
    <3>1. t # s /\ request'[t] = q
      BY <2>4
    <3>2. /\ Trusted(q) /\ q.v \in 1..Len(versions) /\ q \in Requests
          /\ q.shown.version \in Nat /\ q.read.version \in Nat /\ versions[q.v].version \in Nat
      BY <2>1, <3>1, VersionRows DEF Inv, Shape, ReadingsTrusted, Requests, Rows
    <3>3. CASE q.v = r.v
      <4>1. versions'[q.v].version = versions[q.v].version + 1
        BY <2>3, <2>6, <3>3
      <4>2. QED
        BY <1>1, <3>1, <3>2, <4>1 DEF Trusted
    <3>4. CASE q.v # r.v /\ versions'[q.v] = versions[q.v]
      BY <1>1, <3>1, <3>2, <3>4 DEF Trusted, Checked, Required
    <3>5. CASE q.v # r.v /\ versions'[q.v] # versions[q.v]
      <4>1. kind = "policy" /\ versions[q.v].status = "ACTIVE" /\ versions'[q.v].version = versions[q.v].version
        BY <2>2, <3>2, <3>5
      <4>2. versions[q.v].version = q.shown.version => q.shown.status = "ACTIVE"
        BY <3>2, <4>1 DEF Trusted
      <4>3. q.op \in Ops => versions[q.v].version # q.read.version
        BY <3>2, <4>1 DEF Trusted, Checked, Required, Ops
      <4>4. QED
        BY <1>1, <3>1, <3>2, <4>1, <4>2, <4>3 DEF Trusted
    <3>6. QED
      BY <3>3, <3>4, <3>5
  <2>9. OperationalApproved'
    <3> SUFFICES ASSUME operational' PROVE kind = "lender" /\ versions'[1].status = "APPROVED"
      BY <1>1 DEF OperationalApproved
    <3>1. kind = "lender" /\ lenderOperational(r.op)
      BY <2>5
    <3>2. r.v = 1
      BY <2>1, <3>1 DEF Inv, Shape
    <3>3. row.status \in Required(r.op)
      BY <1>3, <3>1, FoundAsRead DEF Checked
    <3>4. CASE r.op = "activate"
      BY <2>1, <2>3, <3>1, <3>2, <3>3, <3>4, WrittenRow DEF Inv, Required
    <3>5. CASE r.op # "activate"
      <4>1. operational /\ r.op \in {"edit", "submit", "approve"}
        BY <2>1, <3>1, <3>5 DEF lenderOperational, Ops
      <4>2. row.status = "APPROVED"
        BY <3>2, <4>1 DEF Inv, OperationalApproved
      <4>3. QED
        BY <3>1, <3>3, <4>1, <4>2 DEF Required
    <3>6. QED
      BY <3>4, <3>5
  <2>10. FourEyes'
    <3>1. ASSUME kind \in {"lender", "policy"}, NEW v \in 1..Len(versions), Decided(versions'[v])
          PROVE  /\ versions'[v].approvedBy # Maker(versions'[v])
                 /\ kind = "policy" => /\ versions'[v].content = versions'[v].seen
                                       /\ versions'[v].content \notin Broken
      <4>1. CASE v # r.v
        BY <2>1, <2>2, <3>1, <4>1 DEF Inv, FourEyes, Decided
      <4>2. CASE v = r.v
        <5>1. row = r.read /\ Checked(r, row) /\ (kind = "policy" => r.read = r.shown)
          BY <1>3, <3>1, FoundAsRead
        <5>2. r.op \in {"approve", "activate", "deactivate"}
          BY <2>1, <2>3, <3>1, <4>2, WrittenRow DEF Inv, Decided, Ops
        <5>3. CASE r.op = "approve"
          BY <2>1, <2>3, <3>1, <4>2, <5>1, <5>3, WrittenRow DEF Inv, Checked
        <5>4. CASE r.op \in {"activate", "deactivate"}
          <6>1. Decided(row)
            BY <3>1, <5>1, <5>4 DEF Checked, Required, Decided
          <6>2. /\ row.approvedBy # Maker(row)
                /\ kind = "policy" => row.content = row.seen /\ row.content \notin Broken
            BY <2>1, <3>1, <6>1 DEF Inv, FourEyes
          <6>3. QED
            BY <2>1, <2>3, <3>1, <4>2, <5>4, <6>2, WrittenRow DEF Inv
        <5>5. QED
          BY <5>2, <5>3, <5>4
      <4>3. QED
        BY <4>1, <4>2
    <3>2. operational' => versions'[1].status = "APPROVED"
      BY <2>9 DEF OperationalApproved
    <3>3. QED
      BY <1>1, <2>1, <3>1, <3>2 DEF FourEyes
  <2>11. QED
    BY <2>7, <2>8, <2>9, <2>10 DEF Inv
<1>4. QED
  BY <1>2, <1>3

\* A new draft is decided by nobody yet, and no reading is of it.
LEMMA CreateNextVersionInv ==
  ASSUME Inv, NEW u \in Operators, createNextVersion(u)
  PROVE  Inv'
<1> DEFINE n == Len(versions) + 1
           d == Draft(u, versions[Len(versions)].content)
<1>1. /\ kind # "lender" /\ versions' = Append(versions, d) /\ writes' = writes + 1
      /\ UNCHANGED <<kind, operational, request>>
  BY DEF createNextVersion
<1>2. /\ Len(versions) \in 1..Len(versions) /\ Len(versions) \in Nat /\ versions \in Seq(Rows)
      /\ DOMAIN versions = 1..Len(versions)
  BY VersionRows DEF Inv, Shape
<1>3. versions[Len(versions)].content \in Nat
  BY <1>2, VersionRows DEF Inv, Rows
<1>4. d \in Rows /\ d.status = "DRAFT"
  BY <1>3, Drafts DEF People
<1> HIDE DEF d
<1>5. /\ Append(versions, d) \in Seq(Rows) /\ Len(Append(versions, d)) = n
      /\ \A v \in 1..Len(versions) : Append(versions, d)[v] = versions[v]
      /\ Append(versions, d)[n] = d
  BY <1>2, <1>4, AppendProperties
<1>6. /\ versions' \in Seq(Rows) /\ Len(versions') = n
      /\ \A v \in 1..Len(versions) : versions'[v] = versions[v]
      /\ versions'[n] = d /\ DOMAIN versions' = 1..n
  BY <1>1, <1>5, LenProperties
<1>7. Shape'
  <2>1. \A s \in Slots : request'[s].op # "none" => request'[s].v \in 1..Len(versions')
    BY <1>1, <1>2, <1>6 DEF Inv, Shape
  <2>2. QED
    BY <1>1, <1>2, <1>6, <2>1 DEF Inv, Shape
<1>8. ReadingsTrusted'
  BY <1>1, <1>6 DEF Inv, Shape, ReadingsTrusted, Trusted, Checked, Required
<1>9. OperationalApproved'
  BY <1>1, <1>2, <1>6 DEF Inv, OperationalApproved
<1>10. FourEyes'
  <2>1. \A v \in 1..n : v = n \/ v \in 1..Len(versions)
    BY <1>2
  <2>2. ~Decided(d)
    BY <1>4 DEF Decided
  <2>3. operational' => versions'[1].status = "APPROVED"
    BY <1>9 DEF OperationalApproved
  <2>4. QED
    BY <1>1, <1>2, <1>6, <2>1, <2>2, <2>3 DEF Inv, FourEyes
<1>11. QED
  BY <1>7, <1>8, <1>9, <1>10 DEF Inv

\* Every step keeps the invariant.
LEMMA NextInv == Inv /\ [McNext]_mcVars => Inv'
<1> SUFFICES ASSUME Inv, [McNext]_mcVars PROVE Inv'
  OBVIOUS
<1>1. CASE UNCHANGED mcVars
  BY <1>1 DEF mcVars, Inv, Shape, ReadingsTrusted, Trusted, Checked, Required, OperationalApproved,
              FourEyes, Decided, Maker
<1>2. QED
  BY <1>1, OpenPageInv, BeginInv, EndInv, CreateNextVersionInv DEF McNext

\* An approved lender or policy was approved by someone other than its maker, an approved
\* policy is valid and is what the checker saw, and only an approved lender operates: for any
\* number of operators, tabs, versions and writes, stale pages and late writes included.
THEOREM FourEyesAlways == McSpec => []FourEyes
<1>1. McInit => Inv
  BY InitInv
<1>2. Inv /\ [McNext]_mcVars => Inv'
  BY NextInv
<1>3. Inv => FourEyes
  BY DEF Inv
<1>4. QED
  BY <1>1, <1>2, <1>3, PTL DEF McSpec

--------------------------------------------------------------------------------
(* The signature.                                                           *)

TabRecords ==
  [pc : {"idle", "rendering", "saved", "viewing", "sending", "delivering", "checked", "locked",
         "marked", "stamping", "done"},
   for : {"preview", "send"}, read : EsStatuses, same : BOOLEAN, viewed : BOOLEAN, sess : Sessions]

\* The tabs after a file was written are still tabs, at the same place of their calls.
LEMMA OverwrittenTabs ==
  ASSUME esTab \in [EsTabs -> TabRecords], NEW t
  PROVE  /\ Overwritten(t) \in [EsTabs -> TabRecords]
         /\ \A u \in EsTabs : Overwritten(t)[u].pc = esTab[u].pc
<1>1. ASSUME NEW u \in EsTabs
      PROVE  Overwritten(t)[u] \in TabRecords /\ Overwritten(t)[u].pc = esTab[u].pc
  BY DEF Overwritten, TabRecords
<1>2. QED
  BY <1>1 DEF Overwritten

\* The signing row, the loan's columns and the tabs have their types (ElectronicSignService).
THEOREM SignatureTypeCorrect == EsSpec => []EsTypeOK
<1>1. EsInit => EsTypeOK
  BY EsAssumption DEF EsInit, EsTypeOK, EsStatuses, Sessions
<1>2. EsTypeOK /\ [EsNext]_esVars => EsTypeOK'
  <2> SUFFICES ASSUME EsTypeOK, [EsNext]_esVars
               PROVE  EsTypeOK'
    OBVIOUS
  <2> USE EsAssumption
  <2>0. esTab \in [EsTabs -> TabRecords]
    BY DEF EsTypeOK, TabRecords
  <2>1. ASSUME NEW t \in EsTabs, NEW r \in TabRecords, esTab' = [esTab EXCEPT ![t] = r],
               esRow' \in [st: EsStatuses, viewed: BOOLEAN, sess: Sessions, live: BOOLEAN],
               esFile' \in BOOLEAN, UNCHANGED <<esLoan, esDocs>>
        PROVE  EsTypeOK'
    BY <2>0, <2>1 DEF EsTypeOK, TabRecords
  <2>2. ASSUME NEW t \in EsTabs, NEW for \in {"preview", "send"}, prepareDocument(t, for)
        PROVE  EsTypeOK'
    <3> DEFINE at == IF esRow.st = "SIGNED" THEN IF for = "send" THEN "sending" ELSE "viewing"
                     ELSE "rendering"
    <3> DEFINE r == [esTab[t] EXCEPT !.pc = at, !.for = for, !.read = esRow.st]
    <3>1. at \in {"sending", "viewing", "rendering"} /\ esRow.st \in EsStatuses
      BY DEF EsTypeOK
    <3>2. r \in TabRecords
      <4> HIDE DEF at
      <4>1. QED
        BY <2>0, <3>1 DEF TabRecords
    <3>3. esTab' = [esTab EXCEPT ![t] = r] /\ UNCHANGED <<esRow, esFile, esLoan, esDocs>>
      BY <2>0, <2>2 DEF prepareDocument
    <3> HIDE DEF r
    <3>4. QED
      BY <2>1, <3>2, <3>3 DEF EsTypeOK
  <2>3. ASSUME NEW t \in EsTabs, saveBuffer(t)
        PROVE  EsTypeOK'
    <3>1. [Overwritten(t) EXCEPT ![t].pc = "saved"] \in [EsTabs -> TabRecords]
      BY <2>0, OverwrittenTabs DEF TabRecords
    <3>2. QED
      BY <2>3, <3>1 DEF saveBuffer, EsTypeOK, TabRecords
  <2>4. ASSUME NEW t \in EsTabs, documentReady(t)
        PROVE  EsTypeOK'
    <3> DEFINE at == IF esTab[t].for = "send" THEN "sending" ELSE "viewing"
    <3> DEFINE back == [esTab[t] EXCEPT !.pc = "idle"]
               goes == [esTab[t] EXCEPT !.pc = at]
    <3>1. back \in TabRecords /\ goes \in TabRecords
      <4>1. at \in {"sending", "viewing"}
        OBVIOUS
      <4> HIDE DEF at
      <4>2. QED
        BY <2>0, <4>1 DEF TabRecords
    <3>2. esTab' = [esTab EXCEPT ![t] = back] \/ esTab' = [esTab EXCEPT ![t] = goes]
      BY <2>0, <2>4 DEF documentReady
    <3>3. /\ esRow' \in [st: EsStatuses, viewed: BOOLEAN, sess: Sessions, live: BOOLEAN]
          /\ esFile' \in BOOLEAN /\ UNCHANGED <<esLoan, esDocs>>
      BY <2>4 DEF documentReady, EsTypeOK, EsStatuses
    <3> HIDE DEF back, goes
    <3>4. QED
      BY <2>1, <3>1, <3>2, <3>3
  <2>5. ASSUME NEW t \in EsTabs, markDocumentViewed(t)
        PROVE  EsTypeOK'
    <3>1. \A tabs \in [EsTabs -> TabRecords] :
            [tabs EXCEPT ![t].pc = "idle", ![t].viewed = TRUE] \in [EsTabs -> TabRecords]
      BY DEF TabRecords
    <3>2. esTab' \in [EsTabs -> TabRecords]
      BY <2>0, <2>5, <3>1, OverwrittenTabs DEF markDocumentViewed
    <3>3. esRow' \in [st: EsStatuses, viewed: BOOLEAN, sess: Sessions, live: BOOLEAN]
      BY <2>5 DEF markDocumentViewed, EsTypeOK, EsStatuses
    <3>4. QED
      BY <2>5, <3>2, <3>3 DEF markDocumentViewed, EsTypeOK, TabRecords
  <2>6. ASSUME NEW t \in EsTabs, sendSigningOtp(t)
        PROVE  EsTypeOK'
    <3> DEFINE back == [esTab[t] EXCEPT !.pc = "idle"]
               goes == [esTab[t] EXCEPT !.pc = "delivering"]
    <3>1. back \in TabRecords /\ goes \in TabRecords
      BY <2>0 DEF TabRecords
    <3>2. esTab' = [esTab EXCEPT ![t] = back] \/ esTab' = [esTab EXCEPT ![t] = goes]
      BY <2>0, <2>6 DEF sendSigningOtp
    <3>3. /\ esRow' \in [st: EsStatuses, viewed: BOOLEAN, sess: Sessions, live: BOOLEAN]
          /\ esFile' \in BOOLEAN /\ UNCHANGED <<esLoan, esDocs>>
      BY <2>6 DEF sendSigningOtp, EsTypeOK
    <3> HIDE DEF back, goes
    <3>4. QED
      BY <2>1, <3>1, <3>2, <3>3
  <2>7. ASSUME NEW t \in EsTabs, otpSent(t)
        PROVE  EsTypeOK'
    <3>1. esRow.sess + 1 \in Sessions
      BY <2>7 DEF otpSent, EsTypeOK, Sessions
    <3> DEFINE n == esRow.sess + 1
    <3> DEFINE r == [esTab[t] EXCEPT !.pc = "idle", !.sess = n]
               sent == [esRow EXCEPT !.st = "OTP_SENT", !.sess = n, !.live = TRUE]
    <3>2. /\ esTab' = [esTab EXCEPT ![t] = r] /\ esRow' = sent
          /\ UNCHANGED <<esFile, esLoan, esDocs>>
      BY <2>0, <2>7 DEF otpSent
    <3>3. n \in Sessions
      BY <3>1
    <3> HIDE DEF n
    <3>4. r \in TabRecords /\ sent \in [st: EsStatuses, viewed: BOOLEAN, sess: Sessions, live: BOOLEAN]
      BY <2>0, <3>3 DEF TabRecords, EsTypeOK, EsStatuses
    <3> HIDE DEF r, sent
    <3>5. QED
      BY <2>1, <3>2, <3>4 DEF EsTypeOK
  <2>8. CASE otpDies
    BY <2>8 DEF otpDies, EsTypeOK
  <2>9. ASSUME NEW t \in EsTabs, verifyOtp(t)
        PROVE  EsTypeOK'
    BY <2>9 DEF verifyOtp, EsTypeOK
  <2>10. ASSUME NEW t \in EsTabs, lockSigning(t)
         PROVE  EsTypeOK'
    BY <2>10 DEF lockSigning, EsTypeOK, EsStatuses
  <2>11. ASSUME NEW t \in EsTabs, checkIntegrity(t)
         PROVE  EsTypeOK'
    BY <2>11 DEF checkIntegrity, EsTypeOK, EsStatuses
  <2>12. ASSUME NEW t \in EsTabs, markLoanSigned(t)
         PROVE  EsTypeOK'
    BY <2>12 DEF markLoanSigned, EsTypeOK, Refs
  <2>13. ASSUME NEW t \in EsTabs, commitSigning(t)
         PROVE  EsTypeOK'
    BY <2>13 DEF commitSigning, EsTypeOK, Refs, EsStatuses
  <2>14. CASE UNCHANGED esVars
    BY <2>14 DEF esVars, EsTypeOK
  <2>15. QED
    BY <2>2, <2>3, <2>4, <2>5, <2>6, <2>7, <2>8, <2>9, <2>10, <2>11, <2>12, <2>13, <2>14
       DEF EsNext
<1>3. QED
  BY <1>1, <1>2, PTL DEF EsSpec

\* Once no signing is between the loan's first write and its last transaction, the
\* reference on a signed loan is that of the agreement and certificate in store, for any
\* number of tabs and codes (ElectronicSignService.verifyOtpAndAccept()): the reference is
\* written first by a tab that is then stamping, and the transaction that ends its stamping
\* writes reference and documents alike.
THEOREM EvidenceMatchesHolds == EsSpec => []EvidenceMatches
<1>1. EsInit => EvidenceMatches
  BY DEF EsInit, EvidenceMatches
<1>2. EvidenceMatches /\ EsTypeOK /\ EsTypeOK' /\ [EsNext]_esVars => EvidenceMatches'
  <2> SUFFICES ASSUME EvidenceMatches, EsTypeOK, EsTypeOK', [EsNext]_esVars
               PROVE  EvidenceMatches'
    OBVIOUS
  <2>0. /\ esTab \in [EsTabs -> TabRecords] /\ esTab' \in [EsTabs -> TabRecords]
        /\ DOMAIN esTab = EsTabs
    BY DEF EsTypeOK, TabRecords
  \* A step that writes neither column and ends no stamping.
  <2>1. ASSUME UNCHANGED <<esLoan, esDocs>>,
               \A u \in EsTabs : esTab[u].pc = "stamping" => esTab'[u].pc = "stamping"
        PROVE  EvidenceMatches'
    BY <2>1 DEF EvidenceMatches
  <2>2. ASSUME NEW t \in EsTabs, NEW for \in {"preview", "send"}, prepareDocument(t, for)
        PROVE  EvidenceMatches'
    BY <2>0, <2>1, <2>2 DEF prepareDocument
  <2>3. ASSUME NEW t \in EsTabs, saveBuffer(t)
        PROVE  EvidenceMatches'
    BY <2>0, <2>1, <2>3, OverwrittenTabs DEF saveBuffer
  <2>4. ASSUME NEW t \in EsTabs, documentReady(t)
        PROVE  EvidenceMatches'
    BY <2>0, <2>1, <2>4 DEF documentReady
  <2>5. ASSUME NEW t \in EsTabs, markDocumentViewed(t)
        PROVE  EvidenceMatches'
    BY <2>0, <2>1, <2>5, OverwrittenTabs DEF markDocumentViewed
  <2>6. ASSUME NEW t \in EsTabs, sendSigningOtp(t)
        PROVE  EvidenceMatches'
    BY <2>0, <2>1, <2>6 DEF sendSigningOtp
  <2>7. ASSUME NEW t \in EsTabs, otpSent(t)
        PROVE  EvidenceMatches'
    BY <2>0, <2>1, <2>7 DEF otpSent
  <2>8. CASE otpDies
    BY <2>0, <2>1, <2>8 DEF otpDies
  <2>9. ASSUME NEW t \in EsTabs, verifyOtp(t)
        PROVE  EvidenceMatches'
    BY <2>0, <2>1, <2>9 DEF verifyOtp
  <2>10. ASSUME NEW t \in EsTabs, lockSigning(t)
         PROVE  EvidenceMatches'
    BY <2>0, <2>1, <2>10 DEF lockSigning
  <2>11. ASSUME NEW t \in EsTabs, checkIntegrity(t)
         PROVE  EvidenceMatches'
    BY <2>0, <2>1, <2>11 DEF checkIntegrity
  \* The loan's reference runs ahead of the documents while this tab is stamping.
  <2>12. ASSUME NEW t \in EsTabs, markLoanSigned(t)
         PROVE  EvidenceMatches'
    BY <2>0, <2>12 DEF markLoanSigned, EvidenceMatches
  <2>13. ASSUME NEW t \in EsTabs, commitSigning(t)
         PROVE  EvidenceMatches'
    BY <2>0, <2>13 DEF commitSigning, EvidenceMatches
  <2>14. CASE UNCHANGED esVars
    BY <2>14 DEF esVars, EvidenceMatches
  <2>15. QED
    BY <2>2, <2>3, <2>4, <2>5, <2>6, <2>7, <2>8, <2>9, <2>10, <2>11, <2>12, <2>13, <2>14
       DEF EsNext
<1>3. QED
  BY <1>1, <1>2, SignatureTypeCorrect, PTL DEF EsSpec

--------------------------------------------------------------------------------
(* The pre-approved offer.                                                  *)

\* A nonempty set of numbers up to n has a largest one.
LEMMA LargestNumber ==
  ASSUME NEW n \in Nat, NEW T \in SUBSET (0..n), T # {}
  PROVE  \E i \in T : \A j \in T : j <= i
<1> DEFINE Above(i) == {j \in T : j > i}
<1> DEFINE Family == {Above(i) : i \in T}
<1>1. IsWellFoundedOn(StrictSubsetOrdering(0..n), FiniteSubsetsOf(0..n))
  BY FS_StrictSubsetOrderingWellFounded
<1>2. IsFiniteSet(0..n)
  BY FS_Interval
<1>3. \A U \in SUBSET (0..n) : U \in FiniteSubsetsOf(0..n)
  BY <1>2, FS_Subset DEF FiniteSubsetsOf
<1>4. Family \subseteq FiniteSubsetsOf(0..n) /\ Family # {}
  BY <1>3
<1>5. PICK U \in Family : \A V \in Family : <<V, U>> \notin StrictSubsetOrdering(0..n)
  <2> HIDE DEF Family
  <2>1. QED
    BY <1>1, <1>4, WFMin
<1>6. PICK i \in T : U = Above(i)
  BY <1>5
<1>7. ASSUME NEW j \in T, j > i PROVE FALSE
  <2>1. i \in Int /\ j \in Int /\ \A k \in T : k \in Int
    OBVIOUS
  <2>2. Above(j) \subseteq Above(i) /\ j \in Above(i) /\ j \notin Above(j)
    <3>1. \A k \in T : k > j => k > i
      BY <1>7, <2>1
    <3>2. ~(j > j)
      BY <2>1
    <3>3. QED
      BY <1>7, <3>1, <3>2
  <2>3. <<Above(j), U>> \in StrictSubsetOrdering(0..n)
    BY <1>6, <2>2 DEF StrictSubsetOrdering
  <2>4. QED
    BY <1>5, <2>3
<1>8. QED
  <2>1. i \in Int /\ \A k \in T : k \in Int
    OBVIOUS
  <2>2. QED
    BY <1>7, <2>1

\* There is a threshold the customer has reached, and a highest one (validateMultipliers()
\* asks for a multiplier from the first loan on).
LEMMA MultiplierFound ==
  ASSUME NEW c \in Configs, NEW n \in Nat
  PROVE  matchedMultiplier(c, n) \in Nat
<1> DEFINE Reached == {x \in c.multipliers : x[1] <= n}
<1> DEFINE Best(x) == x[1] <= n /\ \A y \in c.multipliers : y[1] <= n => y[1] <= x[1]
<1>1. c.multipliers \subseteq Nat \X Nat /\ <<0, 10>> \in c.multipliers
  BY OfferAssumption DEF validateMultipliers
<1>2. {x[1] : x \in Reached} \in SUBSET (0..n) /\ {x[1] : x \in Reached} # {}
  BY <1>1
<1>3. PICK i \in {x[1] : x \in Reached} : \A j \in {x[1] : x \in Reached} : j <= i
  <2> HIDE DEF Reached
  <2>1. QED
    BY <1>2, LargestNumber
<1>4. PICK x \in Reached : i = x[1]
  BY <1>3
<1>5. x \in c.multipliers /\ Best(x)
  BY <1>3, <1>4
<1>6. (CHOOSE y \in c.multipliers : Best(y)) \in c.multipliers
  <2> HIDE DEF Best
  <2>1. QED
    BY <1>5
<1>7. QED
  BY <1>1, <1>6 DEF matchedMultiplier

\* Rounding never raises an amount, and gives a multiple of the unit.
LEMMA RoundedDown ==
  ASSUME NEW c \in Configs, NEW amount \in Nat
  PROVE  /\ rounded(c, amount) \in Nat /\ rounded(c, amount) <= amount
         /\ c.method = "NONE" \/ rounded(c, amount) % c.unit = 0
<1>1. c.unit \in Nat /\ c.method \in {"NONE", "FLOOR", "CEIL", "NEAREST"}
      /\ (c.method # "NONE" => c.unit > 0)
  BY OfferAssumption DEF validateAmounts
<1>2. CASE c.method = "NONE"
  BY <1>2 DEF rounded
<1>3. CASE c.method # "NONE"
  <2>1. PICK u \in Nat : u = c.unit /\ u > 0
    BY <1>1, <1>3
  <2>2. \A k \in Nat : k * u \in Nat /\ (k * u) % u = 0
    BY <2>1
  <2>3. \A a \in Nat : a \div u \in Nat /\ (a \div u) * u <= a
    BY <2>1
  <2> DEFINE down == (amount \div c.unit) * c.unit
             up == ((amount + c.unit - 1) \div c.unit) * c.unit
             nearest == ((2 * amount + c.unit) \div (2 * c.unit)) * c.unit
             candidate == CASE c.method = "FLOOR" -> down [] c.method = "CEIL" -> up
                            [] c.method = "NEAREST" -> nearest
  <2>4. down \in Nat /\ down % u = 0 /\ down <= amount
    BY <2>1, <2>2, <2>3
  <2>5. up \in Nat /\ up % u = 0
    <3>1. amount + u - 1 \in Nat
      BY <2>1
    <3>2. QED
      BY <2>1, <2>2, <2>3, <3>1
  <2>6. nearest \in Nat /\ nearest % u = 0
    <3>1. (2 * amount + u) \div (2 * u) \in Nat
      BY <2>1
    <3>2. QED
      BY <2>1, <2>2, <3>1
  <2>7. candidate \in Nat /\ candidate % u = 0
    <3> HIDE DEF down, up, nearest
    <3>1. QED
      BY <1>1, <1>3, <2>4, <2>5, <2>6
  <2>8. rounded(c, amount) = IF candidate > amount THEN down ELSE candidate
    BY <1>3 DEF rounded
  <2>9. QED
    <3> HIDE DEF down, candidate
    <3>1. QED
      BY <2>1, <2>4, <2>7, <2>8
<1>4. QED
  BY <1>2, <1>3

\* An amount within the bounds of the product version, in its rounding unit unless it is the
\* minimum.
Fits(c, amount) ==
  /\ amount \in Nat /\ c.min <= amount /\ amount <= c.cap
  /\ c.method = "NONE" \/ amount = c.min \/ amount % c.unit = 0

\* ProductCalculationService.simulate() grants such an amount, whatever the limit.
LEMMA AmountFits ==
  ASSUME NEW c \in Configs, NEW n \in Nat, NEW l \in Nat
  PROVE  Fits(c, finalAmount(c, n, l))
<1>1. c.min \in Nat /\ c.base \in Nat /\ c.cap \in Nat /\ c.min <= c.cap
  BY OfferAssumption DEF validateAmounts
<1>2. PICK m \in Nat : m = matchedMultiplier(c, n)
  BY MultiplierFound
<1>3. (c.base * m) \div 10 \in Nat
  BY <1>1
<1>4. cappedAmount(c, n, l) \in Nat /\ cappedAmount(c, n, l) <= c.cap
  BY <1>1, <1>2, <1>3 DEF cappedAmount, Least
<1>5. PICK a \in Nat : /\ a = rounded(c, cappedAmount(c, n, l)) /\ a <= c.cap
                       /\ c.method = "NONE" \/ a % c.unit = 0
  BY <1>1, <1>4, RoundedDown
<1>6. finalAmount(c, n, l) = IF a < c.min THEN c.min ELSE a
  BY <1>5 DEF finalAmount
<1>7. QED
  BY <1>1, <1>5, <1>6 DEF Fits

\* An offer page and the choice it sends are for one price.
PageFits(o, price) ==
  /\ o \in [pc : {"closed", "shown", "write", "decided", "refused"}, shown : Nat, granted : Nat,
            tenure : {0} \cup Tenures]
  /\ o.pc \in {"shown", "write"} => o.shown = price
  /\ o.pc = "write" => o.granted = price
  /\ o.granted # 0 => o.granted = o.shown

\* The price is of the version the application was priced on, which nothing changes.
OfInv ==
  /\ strategy \in Configs /\ loans \in Nat /\ limit \in Nat
  /\ offer \in [OfferTabs -> [pc : {"closed", "shown", "write", "decided", "refused"}, shown : Nat,
                              granted : Nat, tenure : {0} \cup Tenures]]
  /\ \A t \in OfferTabs : PageFits(offer[t], finalAmount(strategy, loans, limit))
  /\ selected # Nothing => selected.amount = finalAmount(strategy, loans, limit)

\* What the customer chose is within the product's bounds, in its rounding unit unless it is
\* the minimum, and the amount the page showed, whatever version was activated meanwhile; for
\* all product versions, limits, loan counts and tabs (selectPreApprovalOffer()).
THEOREM OfferHonouredHolds == OfSpec => []OfferHonoured
<1>1. OfInit => OfInv
  BY OfferAssumption DEF OfInit, OfInv, PageFits, NoOffer
<1>2. OfInv /\ [OfNext]_ofVars => OfInv'
  <2> SUFFICES ASSUME OfInv, [OfNext]_ofVars
               PROVE  OfInv'
    OBVIOUS
  <2> DEFINE price == finalAmount(strategy, loans, limit)
  <2>1. price \in Nat
    BY AmountFits DEF OfInv, Fits
  <2> HIDE DEF price
  \* A step changes one page at most, and the choice to what fits.
  <2>2. ASSUME UNCHANGED <<strategy, loans, limit>>,
               NEW t \in OfferTabs, NEW o, offer' = [offer EXCEPT ![t] = o],
               PageFits(o, price), selected' # Nothing => selected'.amount = price
        PROVE  OfInv'
    BY <2>2 DEF OfInv, PageFits, price
  <2>3. ASSUME NEW c \in Configs, activateOther(c)
        PROVE  OfInv'
    BY <2>3 DEF activateOther, OfInv
  <2>4. ASSUME NEW t \in OfferTabs, getPreApprovalOffer(t)
        PROVE  OfInv'
    <3> DEFINE o == [NoOffer EXCEPT !.pc = IF selected = Nothing THEN "shown" ELSE "decided",
                                    !.shown = price]
    <3>1. PageFits(o, price)
      BY <2>1 DEF PageFits, NoOffer
    <3>2. UNCHANGED <<strategy, loans, limit, selected>> /\ offer' = [offer EXCEPT ![t] = o]
      BY <2>4 DEF getPreApprovalOffer, loadOfferCalculationInputs, price
    <3> HIDE DEF o
    <3>3. QED
      BY <2>2, <3>1, <3>2 DEF OfInv, price
  <2>5. ASSUME NEW t \in OfferTabs, NEW n \in Tenures, selectPreApprovalOffer(t, n)
        PROVE  OfInv'
    <3> DEFINE o == IF selected = Nothing
                    THEN [offer[t] EXCEPT !.pc = "write", !.tenure = n, !.granted = price]
                    ELSE [offer[t] EXCEPT !.pc = "refused"]
    <3>1. PageFits(offer[t], price) /\ offer[t].pc = "shown"
      BY <2>5 DEF OfInv, price, selectPreApprovalOffer
    <3>2. PageFits(o, price)
      BY <2>1, <3>1 DEF PageFits
    <3>3. UNCHANGED <<strategy, loans, limit, selected>> /\ offer' = [offer EXCEPT ![t] = o]
      BY <2>5 DEF selectPreApprovalOffer, loadOfferCalculationInputs, price, OfInv
    <3> HIDE DEF o
    <3>4. QED
      BY <2>2, <3>2, <3>3 DEF OfInv, price
  <2>6. ASSUME NEW t \in OfferTabs, choiceWritten(t)
        PROVE  OfInv'
    <3> DEFINE o == [offer[t] EXCEPT !.pc = "decided"]
    <3>1. PageFits(offer[t], price) /\ offer[t].pc = "write"
      BY <2>6 DEF OfInv, price, choiceWritten
    <3>2. PageFits(o, price) /\ offer[t].granted = price
      BY <3>1 DEF PageFits
    <3>3. UNCHANGED <<strategy, loans, limit>> /\ offer' = [offer EXCEPT ![t] = o]
          /\ selected'.amount = price
      BY <2>6, <3>2 DEF choiceWritten, OfInv
    <3> HIDE DEF o
    <3>4. QED
      BY <2>2, <3>2, <3>3
  <2>7. CASE profilePushed
    BY <2>7 DEF profilePushed, OfInv
  <2>8. CASE UNCHANGED ofVars
    BY <2>8 DEF ofVars, OfInv
  <2>9. QED
    BY <2>3, <2>4, <2>5, <2>6, <2>7, <2>8 DEF OfNext
<1>3. OfInv => OfferHonoured
  BY AmountFits DEF OfInv, PageFits, Fits, OfferHonoured
<1>4. QED
  BY <1>1, <1>2, <1>3, PTL DEF OfSpec

--------------------------------------------------------------------------------
(* The allocation of an application to a lender.                           *)

\* At most two transactions are open at once.  With three, two creations can fail on the one
\* decision of a third, both read it without a route, and both assign one.
TwoCallers == \A c, d, e \in Callers : c = d \/ d = e \/ c = e

\* The applications a route is assigned to.
ApplicationsOf(r) == {a \in Assigned : decision[a].route = r}

\* Between its reading and its writing a transaction holds an application whose decision, once
\* there is one, no other transaction holds: what it read is what is stored.
LaTxns ==
  \A c \in Callers :
    /\ DOMAIN txn[c] = {"pc", "app", "read", "tries"}
    /\ txn[c].pc \in {"idle", "states", "decision", "decide", "again"}
    /\ IF txn[c].pc = "idle" THEN txn[c].app = "none" ELSE txn[c].app \in Apps
ReadCurrent ==
  \A a \in Apps :
    IF decision[a] = NoDecision
      THEN \A c \in Callers : txn[c].app = a => txn[c].read = NoDecision /\ txn[c].pc \in {"states", "decide"}
      ELSE \A c \in Callers : txn[c].app = a =>
             /\ txn[c].read # NoDecision => txn[c].read = decision[a]
             /\ \A d \in Callers : txn[d].app = a => c = d
OpenDecision ==
  \A c \in Callers : txn[c].pc \in {"states", "decide"} => txn[c].read.status # "ASSIGNED"
LaInv ==
  /\ DOMAIN decision = Apps /\ decision = [a \in Apps |-> decision[a]]
  /\ DOMAIN txn = Callers /\ txn = [c \in Callers |-> txn[c]]
  /\ LaTxns /\ ReadCurrent /\ OpenDecision /\ AssignedOnce

\* What one transaction may hold beside the others.
TxnFits(c, t) ==
  /\ DOMAIN t = {"pc", "app", "read", "tries"}
  /\ t.pc \in {"idle", "states", "decision", "decide", "again"}
  /\ IF t.pc = "idle" THEN t.app = "none" ELSE t.app \in Apps
  /\ t.pc \in {"states", "decide"} => t.read.status # "ASSIGNED"
  /\ \A a \in Apps : t.app = a /\ decision[a] = NoDecision => t.read = NoDecision /\ t.pc \in {"states", "decide"}
  /\ \A a \in Apps : t.app = a /\ decision[a] # NoDecision =>
       /\ t.read # NoDecision => t.read = decision[a]
       /\ \A d \in Callers : d # c => txn[d].app # a

\* A step of one transaction that assigns nothing.
LEMMA OneTransaction ==
  ASSUME LaInv, NEW c \in Callers, NEW t, txn' = [txn EXCEPT ![c] = t],
         UNCHANGED <<decision, allocated>>, TxnFits(c, t)
  PROVE  LaInv'
<1>1. /\ DOMAIN txn' = Callers /\ txn' = [d \in Callers |-> txn'[d]]
      /\ txn'[c] = t /\ \A d \in Callers : d # c => txn'[d] = txn[d]
  BY DEF LaInv
<1>2. LaTxns' /\ OpenDecision'
  BY <1>1 DEF LaInv, LaTxns, OpenDecision, TxnFits
<1>3. ReadCurrent'
  <2>1. \A a \in Apps : decision[a] = NoDecision =>
          \A d \in Callers : txn'[d].app = a => txn'[d].read = NoDecision /\ txn'[d].pc \in {"states", "decide"}
    BY <1>1 DEF LaInv, ReadCurrent, TxnFits
  <2>2. \A a \in Apps : decision[a] # NoDecision =>
          \A d \in Callers : txn'[d].app = a =>
            /\ txn'[d].read # NoDecision => txn'[d].read = decision[a]
            /\ \A e \in Callers : txn'[e].app = a => d = e
    BY <1>1 DEF LaInv, ReadCurrent, TxnFits
  <2>3. QED
    BY <2>1, <2>2 DEF ReadCurrent
<1>4. AssignedOnce'
  BY DEF LaInv, AssignedOnce, Assigned
<1>5. QED
  BY <1>1, <1>2, <1>3, <1>4 DEF LaInv

LEMMA IdleTransaction ==
  /\ \A c \in Callers : TxnFits(c, NoTxn)
  /\ DOMAIN NoTxn = {"pc", "app", "read", "tries"}
  /\ NoTxn.pc = "idle" /\ NoTxn.app = "none" /\ NoTxn.read = NoDecision
BY LaAssumption DEF NoTxn, TxnFits

\* A transaction that moves on with what it has.
LEMMA TxnMoves ==
  ASSUME NEW t, DOMAIN t = {"pc", "app", "read", "tries"}, NEW pc
  PROVE  /\ DOMAIN [t EXCEPT !.pc = pc] = {"pc", "app", "read", "tries"}
         /\ [t EXCEPT !.pc = pc].pc = pc /\ [t EXCEPT !.pc = pc].app = t.app
         /\ [t EXCEPT !.pc = pc].read = t.read
OBVIOUS

LEMMA LaInitInv == LaInit => LaInv
<1> SUFFICES ASSUME LaInit PROVE LaInv
  OBVIOUS
<1>1. LaTxns /\ ReadCurrent /\ OpenDecision
  BY IdleTransaction, LaAssumption DEF LaInit, LaTxns, ReadCurrent, OpenDecision
<1>2. Assigned = {}
  BY DEF LaInit, Assigned, NoDecision
<1>3. AssignedOnce
  BY <1>2, FS_EmptySet DEF LaInit, AssignedOnce
<1>4. QED
  BY <1>1, <1>3 DEF LaInit, LaInv

LEMMA ReadInv ==
  ASSUME LaInv, ~Overlapping, NEW c \in Callers, NEW a \in Apps, readDecision(c, a)
  PROVE  LaInv'
<1> DEFINE t == [pc |-> IF decision[a] = NoDecision THEN "states" ELSE "decision", app |-> a,
                 read |-> decision[a], tries |-> txn[c].tries + 1]
<1>1. txn' = [txn EXCEPT ![c] = t]
  BY DEF readDecision
<1>2. /\ DOMAIN t = {"pc", "app", "read", "tries"} /\ t.app = a /\ t.read = decision[a]
      /\ t.pc = IF decision[a] = NoDecision THEN "states" ELSE "decision"
  OBVIOUS
<1> HIDE DEF t
<1>3. decision[a] # NoDecision => \A d \in Callers : d # c => txn[d].app # a
  BY DEF readDecision, LaInv, ReadCurrent
<1>4. NoDecision.status # "ASSIGNED"
  BY DEF NoDecision
<1>5. TxnFits(c, t)
  BY <1>2, <1>3, <1>4 DEF TxnFits
<1>6. QED
  BY <1>1, <1>5, OneTransaction DEF readDecision

LEMMA LockInv == ASSUME LaInv, NEW c \in Callers, lockDecision(c) \/ lockStates(c) PROVE LaInv'
<1>1. DOMAIN txn[c] = {"pc", "app", "read", "tries"} /\ UNCHANGED <<decision, allocated>>
  BY DEF LaInv, LaTxns, lockDecision, lockStates
<1>2. ASSUME lockDecision(c) PROVE LaInv'
  <2> DEFINE t == [txn[c] EXCEPT !.pc = "states"]
  <2>1. DOMAIN t = {"pc", "app", "read", "tries"} /\ t.pc = "states" /\ t.app = txn[c].app /\ t.read = txn[c].read
    BY <1>1, TxnMoves
  <2>2. txn[c].pc = "decision" /\ txn[c].app \in Apps
    BY <1>2 DEF lockDecision, LaInv, LaTxns
  <2>3. /\ decision[txn[c].app] # NoDecision
        /\ txn[c].read # NoDecision => txn[c].read = decision[txn[c].app]
        /\ \A d \in Callers : d # c => txn[d].app # txn[c].app
    BY <2>2 DEF LaInv, ReadCurrent
  <2>4. txn' = [txn EXCEPT ![c] = IF txn[c].read.status = "ASSIGNED" THEN NoTxn ELSE t]
    BY <1>2 DEF lockDecision, LaInv
  <2> HIDE DEF t
  <2>5. CASE txn[c].read.status = "ASSIGNED"
    BY <1>1, <2>4, <2>5, IdleTransaction, OneTransaction
  <2>6. CASE txn[c].read.status # "ASSIGNED"
    <3>1. TxnFits(c, t)
      BY <2>1, <2>2, <2>3, <2>6 DEF TxnFits
    <3>2. QED
      BY <1>1, <2>4, <2>6, <3>1, OneTransaction
  <2>7. QED
    BY <2>5, <2>6
<1>3. ASSUME lockStates(c) PROVE LaInv'
  <2> DEFINE t == [txn[c] EXCEPT !.pc = "decide"]
  <2>1. DOMAIN t = {"pc", "app", "read", "tries"} /\ t.pc = "decide" /\ t.app = txn[c].app /\ t.read = txn[c].read
    BY <1>1, TxnMoves
  <2>2. txn[c].pc = "states" /\ txn[c].app \in Apps /\ txn[c].read.status # "ASSIGNED"
    BY <1>3 DEF lockStates, LaInv, LaTxns, OpenDecision
  <2>3. txn' = [txn EXCEPT ![c] = t]
    BY <1>3 DEF lockStates, LaInv
  <2> HIDE DEF t
  <2>4. \A a \in Apps : txn[c].app = a =>
          IF decision[a] = NoDecision THEN txn[c].read = NoDecision
          ELSE /\ txn[c].read # NoDecision => txn[c].read = decision[a]
               /\ \A d \in Callers : d # c => txn[d].app # a
    BY DEF LaInv, ReadCurrent
  <2>5. TxnFits(c, t)
    BY <2>1, <2>2, <2>4 DEF TxnFits
  <2>6. QED
    BY <1>1, <2>3, <2>5, OneTransaction
<1>4. QED
  BY <1>2, <1>3

\* An application that was not assigned counts from now on for the route it is assigned to.
LEMMA CountedOnce ==
  ASSUME LaInv, NEW a \in Apps, decision[a].status # "ASSIGNED", NEW status, NEW route,
         decision' = [decision EXCEPT ![a] = [status |-> status, route |-> route]],
         status = (IF route = "none" THEN "NO_ELIGIBLE_ROUTE" ELSE "ASSIGNED"),
         allocated' = [r \in RouteSet |-> IF r = route THEN allocated[r] + 1 ELSE allocated[r]]
  PROVE  AssignedOnce'
<1> DEFINE new == [status |-> status, route |-> route]
<1>1. /\ decision'[a] = new /\ \A b \in Apps : b # a => decision'[b] = decision[b]
      /\ new.status = status /\ new.route = route
  BY DEF LaInv
<1> HIDE DEF new
<1> SUFFICES ASSUME NEW r \in RouteSet PROVE allocated'[r] = Cardinality(ApplicationsOf(r)')
  BY DEF AssignedOnce, ApplicationsOf
<1>2. allocated[r] = Cardinality(ApplicationsOf(r)) /\ IsFiniteSet(ApplicationsOf(r))
  <2>1. ApplicationsOf(r) \subseteq Apps
    BY DEF ApplicationsOf, Assigned
  <2>2. QED
    BY <2>1, LaAssumption, FS_Subset DEF LaInv, AssignedOnce, ApplicationsOf
<1>3. a \notin ApplicationsOf(r) /\ r # "none"
  BY LaAssumption DEF ApplicationsOf, Assigned
<1>4. ApplicationsOf(r)' = IF r = route THEN ApplicationsOf(r) \cup {a} ELSE ApplicationsOf(r)
  BY <1>1, <1>3 DEF ApplicationsOf, Assigned
<1>5. QED
  BY <1>2, <1>3, <1>4, FS_AddElement

LEMMA DecideInv == ASSUME LaInv, TwoCallers, NEW c \in Callers, decide(c) PROVE LaInv'
<1> DEFINE a == txn[c].app
<1>1. txn[c].pc = "decide" /\ a \in Apps /\ txn[c].read.status # "ASSIGNED"
      /\ DOMAIN txn[c] = {"pc", "app", "read", "tries"}
  BY DEF decide, LaInv, LaTxns, OpenDecision
<1>2. CASE duplicateDecision(c)
  <2>1. txn[c].read = NoDecision /\ decision[a] # NoDecision
    BY <1>2 DEF duplicateDecision
  <2>2. \A d \in Callers : d # c => txn[d].app # a
    BY <1>1, <2>1 DEF LaInv, ReadCurrent
  <2>3. UNCHANGED <<decision, allocated>>
    BY <1>2 DEF decide
  <2> DEFINE t == [txn[c] EXCEPT !.pc = "again"]
  <2>4. DOMAIN t = {"pc", "app", "read", "tries"} /\ t.pc = "again" /\ t.app = a /\ t.read = txn[c].read
    BY <1>1, TxnMoves
  <2>5. txn' = [txn EXCEPT ![c] = t] \/ txn' = [txn EXCEPT ![c] = NoTxn]
    BY <1>2 DEF decide, LaInv
  <2> HIDE DEF t
  <2>6. CASE txn' = [txn EXCEPT ![c] = t]
    <3>1. TxnFits(c, t)
      BY <1>1, <2>1, <2>2, <2>4 DEF TxnFits
    <3>2. QED
      BY <2>3, <2>6, <3>1, OneTransaction
  <2>7. CASE txn' = [txn EXCEPT ![c] = NoTxn]
    BY <2>3, <2>7, IdleTransaction, OneTransaction
  <2>8. QED
    BY <2>5, <2>6, <2>7
<1>3. CASE ~duplicateDecision(c)
  <2> DEFINE status == IF chosenRoute(a) = "none" THEN "NO_ELIGIBLE_ROUTE" ELSE "ASSIGNED"
  <2> DEFINE new == [status |-> status, route |-> chosenRoute(a)]
  <2>1. /\ decision' = [decision EXCEPT ![a] = new]
        /\ allocated' = [r \in RouteSet |-> IF r = chosenRoute(a) THEN allocated[r] + 1 ELSE allocated[r]]
        /\ txn' = [txn EXCEPT ![c] = NoTxn]
    BY <1>3, Zenon DEF decide
  <2>2. decision[a].status # "ASSIGNED"
    <3>1. CASE decision[a] = NoDecision
      BY <3>1 DEF NoDecision
    <3>2. CASE decision[a] # NoDecision
      <4>1. txn[c].read = decision[a]
        BY <1>1, <1>3, <3>2 DEF duplicateDecision, LaInv, ReadCurrent
      <4>2. QED
        BY <1>1, <4>1
    <3>3. QED
      BY <3>1, <3>2
  <2>3. AssignedOnce'
    BY <1>1, <2>1, <2>2, CountedOnce
  <2>4. new # NoDecision
    <3>1. new.status # "none" /\ NoDecision.status = "none"
      BY DEF NoDecision
    <3>2. QED
      BY <3>1
  <2> HIDE DEF new
  <2>5. /\ DOMAIN txn' = Callers /\ txn' = [d \in Callers |-> txn'[d]]
        /\ txn'[c] = NoTxn /\ \A d \in Callers : d # c => txn'[d] = txn[d]
        /\ DOMAIN decision' = Apps /\ decision' = [b \in Apps |-> decision'[b]]
        /\ decision'[a] = new /\ \A b \in Apps : b # a => decision'[b] = decision[b]
    BY <1>1, <2>1 DEF LaInv
  <2>6. LaTxns' /\ OpenDecision'
    BY <2>5, IdleTransaction DEF LaInv, LaTxns, OpenDecision
  <2>7. \A d \in Callers : txn'[d].app \in Apps => d # c /\ txn'[d] = txn[d]
    BY <2>5, IdleTransaction, LaAssumption
  <2>8. \A d \in Callers : d # c /\ txn[d].app = a => txn[d].read = NoDecision
    <3> SUFFICES ASSUME NEW d \in Callers, d # c, txn[d].app = a PROVE txn[d].read = NoDecision
      OBVIOUS
    <3>1. decision[a] = NoDecision
      BY <1>1 DEF LaInv, ReadCurrent
    <3>2. QED
      BY <1>1, <3>1 DEF LaInv, ReadCurrent
  <2>9. ReadCurrent'
    <3>1. \A d, e \in Callers : txn'[d].app = a /\ txn'[e].app = a => d = e
      BY <1>1, <2>7 DEF TwoCallers
    <3>2. \A d \in Callers : txn'[d].app = a => txn'[d].read = NoDecision
      BY <1>1, <2>7, <2>8
    <3>3. \A b \in Apps : decision'[b] = NoDecision =>
            \A d \in Callers : txn'[d].app = b => txn'[d].read = NoDecision /\ txn'[d].pc \in {"states", "decide"}
      BY <2>4, <2>5, <2>7 DEF LaInv, ReadCurrent
    <3>4. \A b \in Apps : b # a /\ decision'[b] # NoDecision =>
            \A d \in Callers : txn'[d].app = b =>
              /\ txn'[d].read # NoDecision => txn'[d].read = decision'[b]
              /\ \A e \in Callers : txn'[e].app = b => d = e
      BY <2>5, <2>7 DEF LaInv, ReadCurrent
    <3>5. QED
      BY <3>1, <3>2, <3>3, <3>4 DEF ReadCurrent
  <2>10. QED
    BY <2>3, <2>5, <2>6, <2>9 DEF LaInv
<1>4. QED
  BY <1>2, <1>3

LEMMA LaNextInv == TwoCallers /\ ~Overlapping /\ LaInv /\ [LaNext]_laVars => LaInv'
<1> SUFFICES ASSUME TwoCallers, ~Overlapping, LaInv, [LaNext]_laVars PROVE LaInv'
  OBVIOUS
<1>1. ASSUME UNCHANGED <<decision, allocated, txn>> PROVE LaInv'
  BY <1>1 DEF LaInv, LaTxns, ReadCurrent, OpenDecision, AssignedOnce, Assigned
<1>2. ASSUME NEW r \in RouteSet, switchRoute(r) PROVE LaInv'
  BY <1>1, <1>2 DEF switchRoute
<1>3. CASE UNCHANGED laVars
  BY <1>1, <1>3 DEF laVars
<1>4. QED
  BY <1>2, <1>3, ReadInv, LockInv, DecideInv DEF LaNext

\* An application counts for the one route it is assigned to, for any applications, routes,
\* percentages and switches: a creation that meets a decision starts again, and an update is of
\* the decision that was read.  It holds while two transactions at most are open and an
\* application that has no route is not allocated by two of them.
THEOREM AssignedOnceHolds == TwoCallers /\ ~Overlapping => (LaSpec => []AssignedOnce)
<1> SUFFICES ASSUME TwoCallers, ~Overlapping PROVE LaSpec => []AssignedOnce
  OBVIOUS
<1>1. LaInv => AssignedOnce
  BY DEF LaInv
<1>2. LaInv /\ [LaNext]_laVars => LaInv'
  BY LaNextInv
<1>3. QED
  BY <1>1, <1>2, LaInitInv, PTL DEF LaSpec

--------------------------------------------------------------------------------
(* The follow-up of a stuck customer by SMS.                               *)

\* The cron takes every customer of the instance: a larger batch than there are customers.
OneBatch ==
  /\ Lookback \in Nat /\ Batch \in Nat
  /\ \A s \in Scopes : s.custs \subseteq Nat /\ IsFiniteSet(s.custs) /\ Cardinality(s.custs) <= Batch

FollowUp(t) == t.ch = "sms" /\ t.msg = "PENDING"
FollowUps(ts) == {t \in ts : FollowUp(t)}
FollowUpKey(c) == <<"sms", "PENDING", c>>
Spent == msgSpent.faults + msgSpent.restarts
Stuck(c) == life[c] \in {"applying", "approved"} /\ idle[c] <= Lookback
Within(c, n) == idle[c] <= n \/ texted[c] <= n

\* Today's cron has not come to the customer, or her text is on its way.
Awaited(c) ==
  "smsPending" \notin ran \/ c \in left["smsPending"] \/ \E t \in FollowUps(tasks) : t.cust = c

\* Half days since she acted or was texted: none in the day once the cron has passed, or one day
\* for each fault; one at night; two before the cron comes to her.
Lag(c) == IF ~daytime THEN 1 + 2 * Spent ELSE IF Awaited(c) THEN 2 + 2 * Spent ELSE 2 * Spent
TextedInTime == \A c \in scope.custs : Stuck(c) => Within(c, Lag(c))

\* A cooldown that the cron meets is that of a text sent today.
CooledToday ==
  \A c \in scope.custs :
    LET n == cool[Worker][FollowUpKey(c)]
    IN IF daytime THEN n = 0 \/ (n <= 2 /\ texted[c] = 0) ELSE n <= 1

\* Follow-ups are the worker's, and of the day.
OfTheDay ==
  /\ \A t \in FollowUps(tasks) : t.proc = Worker /\ daytime
  /\ ~daytime => \A k \in Crons : left[k] = {}

MsgShape ==
  /\ scope \in Scopes /\ daytime \in BOOLEAN
  /\ idle \in [scope.custs -> Nat] /\ texted \in [scope.custs -> Nat]
  /\ DOMAIN life = scope.custs /\ life = [c \in scope.custs |-> life[c]]
  /\ left \in [Crons -> SUBSET scope.custs]
  /\ cool \in [Processes -> [Keys -> Nat]]
  /\ msgSpent \in [faults: Nat, restarts: Nat]

MsgInv == MsgShape /\ OfTheDay /\ ("sms" \in scope.chans => TextedInTime /\ CooledToday)

LEMMA FollowUpKeys == "sms" \in scope.chans => \A c \in scope.custs : FollowUpKey(c) \in Keys
BY DEF FollowUpKey, Keys, Messages

\* A batch that holds every customer leaves no row out.
LEMMA WholeBatch ==
  ASSUME OneBatch, scope \in Scopes, NEW rows \in SUBSET scope.custs
  PROVE  firstOf(rows) = rows
<1>1. scope.custs \subseteq Nat /\ IsFiniteSet(scope.custs) /\ Cardinality(scope.custs) <= Batch /\ Batch \in Nat
  BY DEF OneBatch
<1>2. ASSUME NEW c \in rows PROVE Cardinality({d \in rows : d < c}) < Batch
  <2> DEFINE before == {d \in rows : d < c}
  <2>1. before \subseteq scope.custs \ {c}
    BY <1>1
  <2>2. /\ IsFiniteSet(scope.custs \ {c}) /\ Cardinality(scope.custs \ {c}) = Cardinality(scope.custs) - 1
        /\ Cardinality(scope.custs) \in Nat
    BY <1>1, FS_RemoveElement, FS_CardinalityType
  <2>3. Cardinality(before) <= Cardinality(scope.custs \ {c}) /\ Cardinality(before) \in Nat
    BY <2>1, <2>2, FS_Subset, FS_CardinalityType
  <2>4. QED
    BY <1>1, <2>2, <2>3
<1>3. QED
  BY <1>2 DEF firstOf

\* Each fault allows a day more.
LEMMA LagGrows ==
  ASSUME MsgShape, MsgShape', Spent <= Spent', daytime' = daytime, NEW c, Awaited(c) => Awaited(c)' \/ Spent < Spent'
  PROVE  Lag(c) \in Nat /\ Lag(c)' \in Nat /\ Lag(c) <= Lag(c)'
<1>1. Spent \in Nat /\ Spent' \in Nat
  BY DEF MsgShape, Spent
<1> HIDE DEF Spent
<1>2. QED
  BY <1>1 DEF Lag, MsgShape

\* A step that texts nobody and leaves the cooldowns of follow-ups alone.
LEMMA NobodyTexted ==
  ASSUME MsgInv, MsgShape', Spent <= Spent', OfTheDay',
         UNCHANGED <<scope, daytime, texted>>,
         \A c \in scope.custs : cool'[Worker][FollowUpKey(c)] \in {0, cool[Worker][FollowUpKey(c)]},
         \A c \in scope.custs : Stuck(c)' => (Stuck(c) /\ idle'[c] = idle[c]) \/ idle'[c] = 0 \/ texted[c] = 0,
         \A c \in scope.custs : Awaited(c) /\ Stuck(c)' => \/ Awaited(c)' \/ Spent < Spent'
                                                          \/ idle'[c] = 0 \/ texted[c] = 0
  PROVE  MsgInv'
<1> SUFFICES ASSUME "sms" \in scope.chans PROVE TextedInTime' /\ CooledToday'
  BY DEF MsgInv
<1>1. CooledToday'
  BY DEF CooledToday, MsgInv
<1>2. ASSUME NEW c \in scope.custs, Stuck(c)' PROVE Within(c, Lag(c))'
  <2>1. Lag(c)' \in Nat
    BY DEF MsgShape, Spent, Lag
  <2>2. idle'[c] \in Nat /\ texted[c] \in Nat /\ idle[c] \in Nat
    BY DEF MsgInv, MsgShape
  <2>3. CASE idle'[c] = 0 \/ texted[c] = 0
    BY <2>1, <2>2, <2>3 DEF Within
  <2>4. CASE idle'[c] # 0 /\ texted[c] # 0
    <3>1. Stuck(c) /\ idle'[c] = idle[c] /\ (Awaited(c) => Awaited(c)' \/ Spent < Spent')
      BY <1>2, <2>4
    <3>2. Lag(c) \in Nat /\ Lag(c) <= Lag(c)'
      BY <3>1, LagGrows DEF MsgInv
    <3>3. idle[c] <= Lag(c) \/ texted[c] <= Lag(c)
      BY <3>1 DEF MsgInv, TextedInTime, Within
    <3> HIDE DEF Lag
    <3>4. idle'[c] <= Lag(c)' \/ texted'[c] <= Lag(c)'
      BY <2>1, <2>2, <3>1, <3>2, <3>3
    <3>5. QED
      BY <3>4 DEF Within
  <2>5. QED
    BY <2>3, <2>4
<1>3. QED
  BY <1>1, <1>2 DEF TextedInTime

LEMMA MsgInitInv == OneBatch /\ MsgInit => MsgInv
<1> SUFFICES ASSUME OneBatch, MsgInit PROVE MsgInv
  OBVIOUS
<1>1. MsgShape
  BY DEF MsgInit, MsgShape, LongAgo
<1>2. OfTheDay
  BY DEF MsgInit, OfTheDay, FollowUps
<1>3. TextedInTime
  <2>1. \A c \in scope.custs : Lag(c) \in Nat /\ idle[c] = 0
    BY DEF MsgInit, Lag, Spent
  <2>2. QED
    BY <2>1 DEF TextedInTime, Within
<1>4. "sms" \in scope.chans => CooledToday
  BY FollowUpKeys DEF MsgInit, CooledToday, Processes
<1>5. QED
  BY <1>1, <1>2, <1>3, <1>4 DEF MsgInv

\* Events of the loan, calls of the provider and the customer's own steps start no follow-up.
LEMMA NoFollowUpStarted ==
  ASSUME NEW p, NEW ch, NEW msg, NEW c, NEW from, ch # "sms" \/ msg # "PENDING"
  PROVE  FollowUps(started(p, ch, msg, c, from)) = {}
BY DEF FollowUps, FollowUp, started, Task

LEMMA EventsStartNone ==
  ASSUME NEW p, NEW c
  PROVE  /\ FollowUps(triggered(p, "APPROVED", c)) = {} /\ FollowUps(triggered(p, "DISBURSED", c)) = {}
         /\ FollowUps(UNION {started(p, ch, "FULLY_PAID", c, "event") : ch \in {"ivr", "wa"}}) = {}
         /\ FollowUps(handlePostIvrWhatsAppDispatch(p, c)) = {}
<1>1. /\ FollowUps(triggered(p, "APPROVED", c)) = {} /\ FollowUps(triggered(p, "DISBURSED", c)) = {}
      /\ FollowUps(UNION {started(p, ch, "FULLY_PAID", c, "event") : ch \in {"ivr", "wa"}}) = {}
  BY DEF triggered, FollowUps, FollowUp, started, Task
<1>2. FollowUps(handlePostIvrWhatsAppDispatch(p, c)) = {}
  BY DEF handlePostIvrWhatsAppDispatch, FollowUps, FollowUp, started, Task
<1>3. QED
  BY <1>1, <1>2

\* A step of the customer or the loan: what she is waiting for stays as it is.
LEMMA CustomerMoves ==
  ASSUME MsgInv, NEW who \in scope.custs,
         UNCHANGED <<scope, daytime, ran, left, cool, texted, msgSpent>>,
         FollowUps(tasks') = FollowUps(tasks),
         \/ UNCHANGED <<life, idle>>
         \/ /\ life' = life \/ \E stage : life' = [life EXCEPT ![who] = stage]
            /\ idle' = [idle EXCEPT ![who] = 0]
  PROVE  MsgInv'
<1>1. MsgShape'
  <2>1. idle' \in [scope.custs -> Nat] /\ DOMAIN life' = scope.custs /\ life' = [c \in scope.custs |-> life'[c]]
    BY DEF MsgInv, MsgShape
  <2>2. Keys' = Keys
    BY DEF Keys
  <2>3. QED
    BY <2>1, <2>2 DEF MsgInv, MsgShape
<1>2. OfTheDay'
  BY DEF MsgInv, OfTheDay
<1>3. \A c \in scope.custs : (life'[c] = life[c] /\ idle'[c] = idle[c]) \/ idle'[c] = 0
  BY DEF MsgInv, MsgShape
<1>4. \A c \in scope.custs : Awaited(c) => Awaited(c)'
  BY DEF Awaited
<1>5. \A c \in scope.custs : Stuck(c)' => (Stuck(c) /\ idle'[c] = idle[c]) \/ idle'[c] = 0
  BY <1>3 DEF Stuck
<1>6. Spent <= Spent'
  BY DEF Spent, MsgInv, MsgShape
<1>7. QED
  BY <1>1, <1>2, <1>4, <1>5, <1>6, NobodyTexted

LEMMA LifeInv ==
  ASSUME MsgInv, NEW c \in scope.custs, NEW p,
         \/ applicationRejected(c) \/ customerActs(c)
         \/ loanApproved(p, c) \/ loanDisbursed(p, c) \/ loanFullyPaid(p, c) \/ handleWebhook(p, c)
  PROVE  MsgInv'
<1>1. tasks' = tasks \/ \E ts : tasks' = tasks \cup ts /\ FollowUps(ts) = {}
  <2>1. CASE applicationRejected(c) \/ customerActs(c)
    BY <2>1 DEF applicationRejected, customerActs
  <2>2. CASE loanApproved(p, c)
    BY <2>2, EventsStartNone DEF loanApproved
  <2>3. CASE loanDisbursed(p, c)
    BY <2>3, EventsStartNone DEF loanDisbursed
  <2>4. CASE loanFullyPaid(p, c)
    BY <2>4, EventsStartNone DEF loanFullyPaid
  <2>5. CASE handleWebhook(p, c)
    <3>1. tasks' = tasks \/ tasks' = tasks \cup handlePostIvrWhatsAppDispatch(p, c)
      BY <2>5 DEF handleWebhook
    <3>2. QED
      BY <3>1, EventsStartNone
  <2>6. QED
    BY <2>1, <2>2, <2>3, <2>4, <2>5
<1>2. FollowUps(tasks') = FollowUps(tasks)
  BY <1>1 DEF FollowUps
<1>3. UNCHANGED <<scope, daytime, ran, left, cool, texted, msgSpent>>
  BY DEF applicationRejected, customerActs, loanApproved, loanDisbursed, loanFullyPaid, handleWebhook
<1>4. \/ UNCHANGED <<life, idle>>
      \/ /\ life' = life \/ \E stage : life' = [life EXCEPT ![c] = stage]
         /\ idle' = [idle EXCEPT ![c] = 0]
  BY DEF applicationRejected, customerActs, loanApproved, loanDisbursed, loanFullyPaid, handleWebhook
<1>5. QED
  BY <1>2, <1>3, <1>4, CustomerMoves

\* The cron takes its rows; a customer it leaves out has just acted.
LEMMA CronStartsInv == ASSUME OneBatch, MsgInv, NEW k \in Crons, cronStarts(k) PROVE MsgInv'
<1>1. /\ UNCHANGED <<scope, life, idle, daytime, tasks, cool, texted, msgSpent>> /\ daytime
      /\ ran' = ran \cup {k} /\ left' = [left EXCEPT ![k] = rowsOf(k)]
  BY DEF cronStarts
<1>2. rowsOf(k) \in SUBSET scope.custs
  BY DEF rowsOf, smsPendingRows, waPendingRows, ivrStuckRows, dueRows, firstOf
<1>3. MsgShape'
  <2>1. left' \in [Crons -> SUBSET scope.custs]
    BY <1>1, <1>2 DEF MsgInv, MsgShape
  <2>2. Keys' = Keys
    BY <1>1 DEF Keys
  <2>3. QED
    BY <1>1, <2>1, <2>2 DEF MsgInv, MsgShape
<1>4. OfTheDay'
  BY <1>1 DEF MsgInv, OfTheDay
<1>5. Spent <= Spent'
  BY <1>1 DEF Spent, MsgInv, MsgShape
<1>6. ASSUME NEW c \in scope.custs, Awaited(c), Stuck(c)' PROVE Awaited(c)' \/ idle'[c] = 0
  <2>1. CASE k = "smsPending"
    <3> DEFINE rows == {d \in scope.custs : life[d] \notin {"rejected", "closed"} /\ idle[d] \in 1..Lookback}
    <3>1. left'["smsPending"] = rows
      <4>1. scope \in Scopes /\ rows \in SUBSET scope.custs
        BY DEF MsgInv, MsgShape
      <4>2. rowsOf(k) = firstOf(rows)
        BY <2>1 DEF rowsOf, smsPendingRows
      <4>3. QED
        BY <1>1, <2>1, <4>1, <4>2, WholeBatch DEF MsgInv, MsgShape
    <3>2. c \in rows \/ idle[c] = 0
      <4>1. life[c] \in {"applying", "approved"} /\ idle[c] <= Lookback /\ idle[c] \in Nat /\ Lookback \in Nat
        BY <1>1, <1>6 DEF Stuck, MsgInv, MsgShape, OneBatch
      <4>2. QED
        BY <4>1
    <3>3. QED
      BY <1>1, <3>1, <3>2 DEF Awaited
  <2>2. CASE k # "smsPending"
    BY <1>1, <1>6, <2>2 DEF Awaited, MsgInv, MsgShape
  <2>3. QED
    BY <2>1, <2>2
<1>7. \A c \in scope.custs : Stuck(c)' => Stuck(c) /\ idle'[c] = idle[c]
  BY <1>1 DEF Stuck
<1>8. QED
  BY <1>1, <1>3, <1>4, <1>5, <1>6, <1>7, NobodyTexted

\* One row of a cron: a text is started, or one of today still cools down.
LEMMA CronRowInv == ASSUME MsgInv, NEW k \in Crons, cronRow(k) PROVE MsgInv'
<1> DEFINE who == CHOOSE x \in left[k] : \A y \in left[k] : x <= y
<1> DEFINE more == started(Worker, channelOf(k), messageOf(k), who, k)
<1> DEFINE skipped == messageOf(k) = "PENDING" /\ life[who] \in {"disbursed", "closed"} /\ k # "waPending"
<1>1. /\ UNCHANGED <<scope, life, idle, daytime, ran, cool, texted, msgSpent>>
      /\ left[k] # {} /\ left' = [left EXCEPT ![k] = left[k] \ {who}]
      /\ tasks' = IF skipped THEN tasks ELSE tasks \cup more
  BY DEF cronRow, MsgInv, MsgShape
<1>2. daytime
  BY <1>1 DEF MsgInv, OfTheDay
<1>3. MsgShape'
  <2>1. left' \in [Crons -> SUBSET scope.custs]
    BY <1>1 DEF MsgInv, MsgShape
  <2>2. Keys' = Keys
    BY <1>1 DEF Keys
  <2>3. QED
    BY <1>1, <2>1, <2>2 DEF MsgInv, MsgShape
<1>4. \A t \in more : t.proc = Worker /\ t.ch = channelOf(k) /\ t.msg = messageOf(k) /\ t.cust = who
  BY DEF started, Task
<1>5. \A t \in tasks' : t \in tasks \/ t \in more
  BY <1>1
<1> HIDE DEF more, skipped, who
<1>6. OfTheDay'
  BY <1>1, <1>2, <1>4, <1>5 DEF MsgInv, OfTheDay, FollowUps
<1>7. Spent <= Spent'
  BY <1>1 DEF Spent, MsgInv, MsgShape
<1>8. \A c \in scope.custs : Stuck(c)' => Stuck(c) /\ idle'[c] = idle[c]
  BY <1>1 DEF Stuck
<1>9. ASSUME NEW c \in scope.custs, Awaited(c), Stuck(c)', "sms" \in scope.chans
      PROVE  Awaited(c)' \/ texted[c] = 0
  <2>1. CASE k # "smsPending" \/ c # who
    <3>1. c \in left["smsPending"] => c \in left'["smsPending"]
      BY <1>1, <2>1 DEF MsgInv, MsgShape, Crons
    <3>2. \A t \in FollowUps(tasks) : t \in FollowUps(tasks')
      BY <1>1 DEF FollowUps
    <3>3. QED
      BY <1>1, <1>9, <3>1, <3>2 DEF Awaited
  <2>2. CASE k = "smsPending" /\ c = who
    <3>1. ~skipped /\ channelOf(k) = "sms" /\ messageOf(k) = "PENDING"
      BY <1>1, <1>9, <2>2 DEF skipped, Stuck, channelOf, messageOf
    <3>2. CASE isCooldownActive(Worker, FollowUpKey(c))
      <4>1. FollowUpKey(c) \in Keys /\ Worker \in Processes
        BY <1>9, FollowUpKeys DEF Processes
      <4>2. cool[Worker][FollowUpKey(c)] > 0 /\ cool[Worker][FollowUpKey(c)] \in Nat
        BY <3>2, <4>1 DEF isCooldownActive, MsgInv, MsgShape
      <4>3. QED
        BY <1>2, <1>9, <4>2 DEF MsgInv, CooledToday
    <3>3. CASE ~isCooldownActive(Worker, FollowUpKey(c))
      <4> DEFINE t == Task(Worker, "sms", "PENDING", c, k)
      <4>1. t \in more
        BY <1>9, <2>2, <3>1, <3>3 DEF more, started, onCooldown, FollowUpKey
      <4>2. t.ch = "sms" /\ t.msg = "PENDING" /\ t.cust = c
        BY DEF Task
      <4>3. t \in FollowUps(tasks')
        BY <1>1, <3>1, <4>1, <4>2 DEF FollowUps, FollowUp
      <4>4. QED
        BY <4>2, <4>3 DEF Awaited
    <3>4. QED
      BY <3>2, <3>3
  <2>3. QED
    BY <2>1, <2>2
<1>10. CASE "sms" \in scope.chans
  BY <1>1, <1>3, <1>6, <1>7, <1>8, <1>9, <1>10, NobodyTexted
<1>11. CASE "sms" \notin scope.chans
  BY <1>1, <1>3, <1>6, <1>11 DEF MsgInv
<1>12. QED
  BY <1>10, <1>11

\* A call, or a message to send: a follow-up that is delivered resets the clock, one that fails
\* is a fault.
LEMMA SendInv == ASSUME MsgInv, NEW t \in tasks, messageSent(t) \/ makeCall(t) PROVE MsgInv'
<1> DEFINE key == <<t.ch, t.msg, t.cust>>
<1>1. /\ UNCHANGED <<scope, life, idle, daytime, ran, left>> /\ tasks' = tasks \ {t}
  BY DEF messageSent, makeCall
<1>2. \/ /\ UNCHANGED msgSpent /\ t.ch # "ivr"
         /\ cool' = [cool EXCEPT ![t.proc][key] = cooldownOf(t.ch, t.msg)]
         /\ texted' = IF t.ch = "sms" /\ t.msg = "PENDING" THEN [texted EXCEPT ![t.cust] = 0] ELSE texted
      \/ UNCHANGED <<cool, texted>> /\ msgSpent' = [msgSpent EXCEPT !.faults = @ + 1]
      \/ UNCHANGED <<cool, texted, msgSpent>> /\ ~FollowUp(t)
  BY DEF messageSent, makeCall, delivered, sendFails, notSent, allowed, smsAllows, FollowUp
<1>3. Keys' = Keys
  BY <1>1 DEF Keys
<1>4. OfTheDay'
  BY <1>1 DEF MsgInv, OfTheDay, FollowUps
<1>5. \A c \in scope.custs : Stuck(c)' => Stuck(c) /\ idle'[c] = idle[c]
  BY <1>1 DEF Stuck
<1>6. \A c \in scope.custs : Awaited(c) => Awaited(c)' \/ (FollowUp(t) /\ t.cust = c)
  BY <1>1 DEF Awaited, FollowUps
<1>7. CASE UNCHANGED <<cool, texted>> /\ msgSpent' = [msgSpent EXCEPT !.faults = @ + 1]
  <2>1. MsgShape'
    BY <1>1, <1>3, <1>7 DEF MsgInv, MsgShape
  <2>2. Spent < Spent' /\ Spent <= Spent'
    BY <1>7 DEF MsgInv, MsgShape, Spent
  <2>3. QED
    BY <1>1, <1>4, <1>5, <1>7, <2>1, <2>2, NobodyTexted
<1>8. CASE UNCHANGED <<cool, texted, msgSpent>> /\ ~FollowUp(t)
  <2>1. MsgShape'
    BY <1>1, <1>3, <1>8 DEF MsgInv, MsgShape
  <2>2. Spent <= Spent'
    BY <1>8 DEF MsgInv, MsgShape, Spent
  <2>3. QED
    BY <1>1, <1>4, <1>5, <1>6, <1>8, <2>1, <2>2, NobodyTexted
<1>9. CASE /\ UNCHANGED msgSpent
           /\ cool' = [cool EXCEPT ![t.proc][key] = cooldownOf(t.ch, t.msg)]
           /\ texted' = IF t.ch = "sms" /\ t.msg = "PENDING" THEN [texted EXCEPT ![t.cust] = 0] ELSE texted
  <2>1. cooldownOf(t.ch, t.msg) \in Nat /\ (t.ch = "sms" => cooldownOf(t.ch, t.msg) = 2)
    BY DEF cooldownOf
  <2> DEFINE n == cooldownOf(t.ch, t.msg)
  <2> HIDE DEF n
  <2>2. cool' \in [Processes -> [Keys -> Nat]]
    BY <1>9, <2>1 DEF MsgInv, MsgShape, n
  <2>3. MsgShape'
    <3>1. texted' \in [scope.custs -> Nat]
      BY <1>9 DEF MsgInv, MsgShape
    <3>2. QED
      BY <1>1, <1>3, <1>9, <2>2, <3>1 DEF MsgInv, MsgShape
  <2>4. CASE "sms" \notin scope.chans
    BY <1>1, <1>4, <2>3, <2>4 DEF MsgInv
  <2>5. CASE "sms" \in scope.chans
    <3>1. \A c \in scope.custs : FollowUpKey(c) \in Keys /\ Worker \in Processes
      BY <2>5, FollowUpKeys DEF Processes
    <3>2. \A c \in scope.custs :
            cool'[Worker][FollowUpKey(c)] = IF t.proc = Worker /\ key = FollowUpKey(c) THEN cooldownOf(t.ch, t.msg)
                                            ELSE cool[Worker][FollowUpKey(c)]
      BY <1>9, <3>1 DEF MsgInv, MsgShape
    <3>3. \A c \in scope.custs : key = FollowUpKey(c) => FollowUp(t) /\ t.cust = c
      BY DEF FollowUpKey, FollowUp
    <3>4. FollowUp(t) => daytime
      BY DEF MsgInv, OfTheDay, FollowUps
    <3>5. \A c \in scope.custs : texted'[c] = IF FollowUp(t) /\ t.cust = c THEN 0 ELSE texted[c]
      BY <1>9 DEF MsgInv, MsgShape, FollowUp
    <3> HIDE DEF key
    <3>6. CooledToday'
      <4> SUFFICES ASSUME NEW c \in scope.custs
                   PROVE  IF daytime THEN cool'[Worker][FollowUpKey(c)] = 0
                                          \/ (cool'[Worker][FollowUpKey(c)] <= 2 /\ texted'[c] = 0)
                          ELSE cool'[Worker][FollowUpKey(c)] <= 1
        BY <1>1 DEF CooledToday, FollowUpKey
      <4>1. CASE t.proc = Worker /\ key = FollowUpKey(c)
        <5>1. cool'[Worker][FollowUpKey(c)] = 2 /\ texted'[c] = 0 /\ daytime
          BY <2>1, <3>2, <3>3, <3>4, <3>5, <4>1 DEF FollowUp
        <5>2. QED
          BY <5>1
      <4>2. CASE ~(t.proc = Worker /\ key = FollowUpKey(c))
        <5>1. cool'[Worker][FollowUpKey(c)] = cool[Worker][FollowUpKey(c)] /\ (texted'[c] = 0 \/ texted'[c] = texted[c])
          BY <3>2, <3>5, <4>2
        <5>2. QED
          BY <2>5, <5>1 DEF MsgInv, CooledToday
      <4>3. QED
        BY <4>1, <4>2
    <3>7. ASSUME NEW c \in scope.custs, Stuck(c)' PROVE Within(c, Lag(c))'
      <4>1. Lag(c)' \in Nat
        BY <2>3 DEF MsgShape, Spent, Lag
      <4>2. CASE FollowUp(t) /\ t.cust = c
        <5>1. texted'[c] = 0
          BY <3>5, <4>2
        <5>2. QED
          BY <4>1, <5>1 DEF Within
      <4>3. CASE ~(FollowUp(t) /\ t.cust = c)
        <5>1. texted'[c] = texted[c] /\ idle'[c] = idle[c] /\ Stuck(c)
          BY <1>5, <3>5, <3>7, <4>3
        <5>2. Awaited(c) <=> Awaited(c)'
          BY <1>1, <1>6, <4>3 DEF Awaited, FollowUps
        <5>3. Lag(c)' = Lag(c)
          BY <1>1, <1>9, <5>2 DEF Lag, Spent
        <5>4. Within(c, Lag(c))
          BY <2>5, <5>1 DEF MsgInv, TextedInTime
        <5>5. QED
          BY <5>1, <5>3, <5>4 DEF Within
      <4>4. QED
        BY <4>2, <4>3
    <3>8. TextedInTime'
      BY <1>1, <3>7 DEF TextedInTime
    <3>9. QED
      BY <1>4, <2>3, <3>6, <3>8 DEF MsgInv
  <2>6. QED
    BY <2>4, <2>5
<1>10. QED
  BY <1>2, <1>7, <1>8, <1>9

\* A restart loses what was under way, and is counted.
LEMMA RestartInv == ASSUME MsgInv, NEW p \in Processes, processRestarts(p) PROVE MsgInv'
<1>1. /\ UNCHANGED <<scope, life, idle, daytime, ran, texted>>
      /\ msgSpent' = [msgSpent EXCEPT !.restarts = @ + 1]
      /\ \A t \in tasks' : t \in tasks
      /\ left' = (IF p = Worker THEN [k \in Crons |-> {}] ELSE left)
      /\ cool' = [cool EXCEPT ![p] = [k \in Keys |-> 0]]
  BY DEF processRestarts
<1>2. MsgShape'
  <2>1. cool' \in [Processes -> [Keys -> Nat]] /\ left' \in [Crons -> SUBSET scope.custs]
    BY <1>1 DEF MsgInv, MsgShape
  <2>2. Keys' = Keys
    BY <1>1 DEF Keys
  <2>3. QED
    BY <1>1, <2>1, <2>2 DEF MsgInv, MsgShape
<1>3. OfTheDay'
  BY <1>1 DEF MsgInv, OfTheDay, FollowUps
<1>4. Spent < Spent' /\ Spent <= Spent'
  BY <1>1 DEF MsgInv, MsgShape, Spent
<1>5. \A c \in scope.custs : Stuck(c)' => Stuck(c) /\ idle'[c] = idle[c]
  BY <1>1 DEF Stuck
<1>6. CASE "sms" \in scope.chans
  <2>1. \A c \in scope.custs : cool'[Worker][FollowUpKey(c)] \in {0, cool[Worker][FollowUpKey(c)]}
    BY <1>1, <1>6, FollowUpKeys DEF MsgInv, MsgShape, Processes
  <2>2. QED
    BY <1>1, <1>2, <1>3, <1>4, <1>5, <2>1, NobodyTexted
<1>7. CASE "sms" \notin scope.chans
  BY <1>1, <1>2, <1>3, <1>7 DEF MsgInv
<1>8. QED
  BY <1>6, <1>7

\* Half a day: the clocks go on, and so does what they may show.
LEMMA HalfDayInv == ASSUME OneBatch, MsgInv, halfDay PROVE MsgInv'
<1>1. /\ UNCHANGED <<scope, life, left, tasks, msgSpent>> /\ daytime' = ~daytime /\ ran' = {}
      /\ tasks = {} /\ (\A k \in Crons : left[k] = {})
      /\ daytime => \A k \in Crons : channelOf(k) \in scope.chans => k \in ran
      /\ idle' = [c \in scope.custs |-> IF idle[c] > Lookback THEN idle[c] ELSE idle[c] + 1]
      /\ cool' = [p \in Processes |-> [k \in Keys |-> IF cool[p][k] = 0 THEN 0 ELSE cool[p][k] - 1]]
      /\ texted' = [c \in scope.custs |-> IF texted[c] = LongAgo THEN LongAgo ELSE texted[c] + 1]
  BY DEF halfDay
<1>2. MsgShape'
  <2>1. idle' \in [scope.custs -> Nat] /\ texted' \in [scope.custs -> Nat]
    BY <1>1 DEF MsgInv, MsgShape, LongAgo
  <2> DEFINE cooler(p, k) == IF cool[p][k] = 0 THEN 0 ELSE cool[p][k] - 1
  <2>2. \A p \in Processes, k \in Keys : cooler(p, k) \in Nat
    <3>1. \A p \in Processes, k \in Keys : cool[p][k] \in Nat
      BY DEF MsgInv, MsgShape
    <3>2. QED
      BY <3>1
  <2>3. cool' \in [Processes -> [Keys -> Nat]]
    <3>1. cool' = [p \in Processes |-> [k \in Keys |-> cooler(p, k)]]
      BY <1>1
    <3> HIDE DEF cooler
    <3>2. QED
      BY <2>2, <3>1
  <2>4. Keys' = Keys
    BY <1>1 DEF Keys
  <2>5. QED
    BY <1>1, <2>1, <2>3, <2>4 DEF MsgInv, MsgShape
<1>3. OfTheDay'
  BY <1>1 DEF MsgInv, OfTheDay, FollowUps
<1>4. CASE "sms" \notin scope.chans
  BY <1>1, <1>2, <1>3, <1>4 DEF MsgInv
<1>5. CASE "sms" \in scope.chans
  <2>1. CooledToday'
    <3> SUFFICES ASSUME NEW c \in scope.custs
                 PROVE  IF ~daytime THEN cool'[Worker][FollowUpKey(c)] = 0
                                         \/ (cool'[Worker][FollowUpKey(c)] <= 2 /\ texted'[c] = 0)
                        ELSE cool'[Worker][FollowUpKey(c)] <= 1
      BY <1>1 DEF CooledToday, FollowUpKey
    <3> DEFINE n == cool[Worker][FollowUpKey(c)]
    <3>1. n \in Nat /\ cool'[Worker][FollowUpKey(c)] = (IF n = 0 THEN 0 ELSE n - 1)
      BY <1>1, <1>5, FollowUpKeys DEF MsgInv, MsgShape, Processes
    <3>2. IF daytime THEN n <= 2 ELSE n <= 1
      BY <1>5, <3>1 DEF MsgInv, CooledToday
    <3> HIDE DEF n
    <3>3. QED
      BY <3>1, <3>2
  <2>2. ASSUME NEW c \in scope.custs, Stuck(c)' PROVE Within(c, Lag(c))'
    <3>1. Spent \in Nat /\ Spent' = Spent
      BY <1>1 DEF MsgInv, MsgShape, Spent
    <3>2. /\ idle[c] \in Nat /\ texted[c] \in Nat /\ idle'[c] <= idle[c] + 1 /\ texted'[c] <= texted[c] + 1
          /\ idle'[c] \in Nat /\ texted'[c] \in Nat
      BY <1>1, <1>2 DEF MsgInv, MsgShape, LongAgo
    <3>3. Stuck(c)
      BY <1>1, <2>2 DEF Stuck, MsgInv, MsgShape, OneBatch
    <3>4. daytime => ~Awaited(c)
      BY <1>1, <1>5 DEF Awaited, FollowUps, Crons, channelOf
    <3>5. Within(c, Lag(c))
      BY <1>5, <3>3 DEF MsgInv, TextedInTime
    <3>6. Awaited(c)'
      BY <1>1 DEF Awaited
    <3> HIDE DEF Spent, Stuck, Awaited
    <3>7. Lag(c) \in Nat /\ Lag(c)' = Lag(c) + 1
      <4>1. CASE daytime
        <5>1. Lag(c) = 2 * Spent /\ Lag(c)' = 1 + 2 * Spent'
          BY <1>1, <3>4, <4>1 DEF Lag
        <5>2. QED
          BY <3>1, <5>1
      <4>2. CASE ~daytime
        <5>1. Lag(c) = 1 + 2 * Spent /\ Lag(c)' = 2 + 2 * Spent'
          BY <1>1, <3>6, <4>2 DEF Lag
        <5>2. QED
          BY <3>1, <5>1
      <4>3. QED
        BY <4>1, <4>2
    <3> HIDE DEF Lag
    <3>8. QED
      BY <3>2, <3>5, <3>7 DEF Within
  <2>3. QED
    BY <1>1, <1>2, <1>3, <2>1, <2>2 DEF MsgInv, TextedInTime
<1>6. QED
  BY <1>4, <1>5

LEMMA MsgNextInv == OneBatch /\ MsgInv /\ [MsgNext]_msgVars => MsgInv'
<1> SUFFICES ASSUME OneBatch, MsgInv, [MsgNext]_msgVars PROVE MsgInv'
  OBVIOUS
<1>1. CASE UNCHANGED msgVars
  <2>1. Keys' = Keys
    BY <1>1 DEF msgVars, Keys
  <2>2. MsgShape' /\ OfTheDay'
    BY <1>1, <2>1 DEF msgVars, MsgInv, MsgShape, OfTheDay, FollowUps
  <2>3. Spent <= Spent'
    BY <1>1 DEF msgVars, MsgInv, MsgShape, Spent
  <2>4. QED
    BY <1>1, <2>2, <2>3, NobodyTexted DEF msgVars, Stuck, Awaited
<1>2. ASSUME messagingWork PROVE MsgInv'
  BY <1>2, SendInv, CronStartsInv, CronRowInv DEF messagingWork
<1>3. QED
  BY <1>1, <1>2, HalfDayInv, LifeInv, RestartInv DEF MsgNext

\* A customer who stays stuck is texted within a day and again every day, one day later for each
\* failed send or restart, for any customers, servers, channels, stretches of a life and faults,
\* as long as the batch of the cron holds every customer.
THEOREM StuckIsFollowedUpHolds == OneBatch => (MsgSpec => []StuckIsFollowedUp)
<1> SUFFICES ASSUME OneBatch PROVE MsgSpec => []StuckIsFollowedUp
  OBVIOUS
<1>1. MsgInv => StuckIsFollowedUp
  <2> SUFFICES ASSUME MsgInv, "sms" \in scope.chans, NEW c \in scope.custs, Stuck(c)
               PROVE  Within(c, 2 + 2 * Spent)
    BY DEF StuckIsFollowedUp, Stuck, Within, Spent
  <2>1. Spent \in Nat /\ idle[c] \in Nat /\ texted[c] \in Nat
    BY DEF MsgInv, MsgShape, Spent
  <2>2. Within(c, Lag(c))
    BY DEF MsgInv, TextedInTime
  <2> HIDE DEF Spent
  <2>3. Lag(c) \in Nat /\ Lag(c) <= 2 + 2 * Spent
    BY <2>1 DEF Lag
  <2> HIDE DEF Lag
  <2>4. QED
    BY <2>1, <2>2, <2>3 DEF Within
<1>3. MsgInv /\ [MsgNext]_msgVars => MsgInv'
  BY MsgNextInv
<1>4. MsgInit => MsgInv
  BY MsgInitInv
<1>5. QED
  BY <1>1, <1>3, <1>4, PTL DEF MsgSpec

--------------------------------------------------------------------------------
(* The policy that decides an application (PolicyEvaluation).                *)

\* Rules that the form and the service store as they were entered: a boolean is tested with its
\* own operator, a number is positive.
SoundRules ==
  \A r \in Entered :
    /\ r = [code |-> r.code, op |-> r.op, value |-> r.value] /\ r.code \in DOMAIN Catalogue
    /\ IF Catalogue[r.code].type = "BOOLEAN" THEN r.op # "EQUALS"
       ELSE \E n \in Nat \ {0} : r.value = Value(n)

\* Dates, of people not older than 200.
RealDates ==
  /\ Births \cup Today \subseteq Nat \X Nat \X Nat
  /\ \A b \in Births, d \in Today : d[1] - b[1] <= 200
  /\ Balances \subseteq Int

\* The kinds of values are told apart.
LEMMA ValuesDiffer ==
  /\ True # False /\ Null # True /\ Null # False
  /\ \A n : Value(n).number = n /\ Value(n) # Null
  /\ \A d : Date(d).date = d /\ Date(d) # Null
<1>1. \A n, d : DOMAIN Value(n) = {"number"} /\ DOMAIN Date(d) = {"date"}
  BY DEF Value, Date
<1>2. DOMAIN Null = {"null"} /\ DOMAIN True = {"boolean"} /\ DOMAIN False = {"boolean"}
  BY DEF Null, True, False
<1>3. True.boolean = TRUE /\ False.boolean = FALSE
  BY DEF True, False
<1>4. \A n, d : Value(n).number = n /\ Date(d).date = d
  BY DEF Value, Date
<1>5. QED
  BY <1>1, <1>2, <1>3, <1>4

\* The number of birthdays up to a day is the number of completed years.
LEMMA CompletedYears ==
  ASSUME NEW dob \in Nat \X Nat \X Nat, NEW day \in Nat \X Nat \X Nat, day[1] - dob[1] <= 200
  PROVE  /\ calculateCompletedYears(dob, day) \in Int
         /\ Age(dob, day) = IF calculateCompletedYears(dob, day) < 0 THEN 0
                            ELSE calculateCompletedYears(dob, day)
<1> DEFINE c == calculateCompletedYears(dob, day)
<1>1. /\ dob[1] \in Nat /\ dob[2] \in Nat /\ dob[3] \in Nat
      /\ day[1] \in Nat /\ day[2] \in Nat /\ day[3] \in Nat
  OBVIOUS
<1>2. c \in Int /\ c <= 200
  BY <1>1 DEF calculateCompletedYears
<1>3. ASSUME NEW y \in 1..200 PROVE Before(<<dob[1] + y, dob[2], dob[3]>>, day) <=> y <= c
  <2> DEFINE b == <<dob[1] + y, dob[2], dob[3]>>
  <2>1. b[1] = dob[1] + y /\ b[2] = dob[2] /\ b[3] = dob[3]
    OBVIOUS
  <2>2. Before(b, day) <=> \/ dob[1] + y < day[1]
                           \/ dob[1] + y = day[1] /\ dob[2] < day[2]
                           \/ dob[1] + y = day[1] /\ dob[2] = day[2] /\ dob[3] <= day[3]
    BY <2>1 DEF Before
  <2>3. QED
    BY <1>1, <2>2 DEF calculateCompletedYears
<1>4. {y \in 1..200 : Before(<<dob[1] + y, dob[2], dob[3]>>, day)} = 1..(IF c < 0 THEN 0 ELSE c)
  <2>1. \A y : y \in 1..(IF c < 0 THEN 0 ELSE c) <=> y \in 1..200 /\ y <= c
    BY <1>2
  <2>2. QED
    BY <1>3, <2>1
<1>5. QED
  <2> HIDE DEF c
  <2>1. Cardinality(1..(IF c < 0 THEN 0 ELSE c)) = IF c < 0 THEN 0 ELSE c
    <3> DEFINE top == IF c < 0 THEN 0 ELSE c
    <3>1. top \in Nat
      BY <1>2
    <3> HIDE DEF top
    <3>2. Cardinality(1..top) = top
      BY <3>1, FS_Interval
    <3>3. QED
      BY <3>2 DEF top
  <2>2. QED
    BY <1>2, <1>4, <2>1 DEF c, Age

\* What is stored of a sound rule: its value, or nothing for a boolean.
StoredRule(rule) ==
  [rule EXCEPT !.value = IF editorValue(rule) = Value(0) THEN Null ELSE editorValue(rule)]

\* A stored rule passes exactly when the rule holds as it was entered, and is missing only
\* when its input is.
LEMMA RuleAsEntered ==
  ASSUME PeAssumption, SoundRules, RealDates, NEW rule \in Entered, NEW f \in Facts, NEW day \in Today
  PROVE  LET out == ruleOutcome(StoredRule(rule), f, day)
         IN  /\ out \in {"PASS", "FAIL", "missing"}
             /\ out = "PASS" <=> Holds(rule, f, day)
             /\ out = "missing" <=> Input(rule, f) = Null
<1> DEFINE s == StoredRule(rule)
<1>0. /\ rule = [code |-> rule.code, op |-> rule.op, value |-> rule.value]
      /\ rule.code \in {"PAN_VERIFIED", "NO_ACTIVE_APPLICATION", "MINIMUM_AGE", "MAXIMUM_AGE", "MINIMUM_ABB"}
      /\ rule.op \in Catalogue[rule.code].operators
  BY DEF SoundRules, PeAssumption, Catalogue
<1>1. /\ s.code = rule.code /\ s.op = rule.op
      /\ s.value = IF editorValue(rule) = Value(0) THEN Null ELSE editorValue(rule)
  BY <1>0 DEF StoredRule
<1>2. /\ f.isPanVerified \in {True, False} /\ f.hasActiveApplication \in {True, False}
      /\ f.dateOfBirth = Null \/ \E d \in Births : f.dateOfBirth = Date(d)
      /\ f.averageBankBalance = Null \/ \E n \in Balances : f.averageBankBalance = Value(n)
  BY DEF Facts
<1>3. Input(s, f) = Input(rule, f) /\ AgeRule(s) = AgeRule(rule)
  BY <1>1 DEF Input, AgeRule
<1>4. CASE rule.code = "PAN_VERIFIED"
  <2>1. rule.op = "IS_TRUE" /\ Catalogue[rule.code].type = "BOOLEAN" /\ Input(rule, f) = f.isPanVerified
    BY <1>0, <1>4 DEF SoundRules, Catalogue, Input
  <2>2. QED
    BY <1>1, <1>2, <1>3, <1>4, <2>1, ValuesDiffer DEF ruleOutcome, evaluateRuleCondition, Holds, AgeRule
<1>5. CASE rule.code = "NO_ACTIVE_APPLICATION"
  <2>1. rule.op = "IS_FALSE" /\ Catalogue[rule.code].type = "BOOLEAN" /\ Input(rule, f) = f.hasActiveApplication
    BY <1>0, <1>5 DEF SoundRules, Catalogue, Input
  <2>2. QED
    BY <1>1, <1>2, <1>3, <1>5, <2>1, ValuesDiffer DEF ruleOutcome, evaluateRuleCondition, Holds, AgeRule
<1>6. CASE rule.code \in {"MINIMUM_AGE", "MAXIMUM_AGE", "MINIMUM_ABB"}
  <2>1. /\ Catalogue[rule.code].type # "BOOLEAN"
        /\ rule.op \in {"GREATER_THAN_OR_EQUAL", "GREATER_THAN", "LESS_THAN_OR_EQUAL", "LESS_THAN"}
    BY <1>0, <1>6 DEF Catalogue
  <2>2. PICK n \in Nat \ {0} : rule.value = Value(n)
    BY <2>1 DEF SoundRules
  <2>3. s.value = Value(n) /\ s.value # Null /\ s.value.number = n /\ rule.value.number = n
    BY <1>1, <2>1, <2>2, ValuesDiffer DEF editorValue
  <2>4. \A a : evaluateRuleCondition(s, a) = IF compare(rule.op, a.number, n) THEN "PASS" ELSE "FAIL"
    BY <1>1, <2>1, <2>3 DEF evaluateRuleCondition
  <2>5. CASE rule.code = "MINIMUM_ABB"
    <3>1. Input(rule, f) = f.averageBankBalance /\ ~AgeRule(rule)
      BY <2>5 DEF Input, Catalogue, AgeRule
    <3>2. QED
      BY <1>1, <1>3, <2>1, <2>3, <2>4, <3>1 DEF ruleOutcome, Holds
  <2>6. CASE rule.code # "MINIMUM_ABB"
    <3>1. Input(rule, f) = f.dateOfBirth /\ AgeRule(rule)
      BY <1>6, <2>6 DEF Input, Catalogue, AgeRule
    <3>2. CASE f.dateOfBirth = Null
      BY <1>1, <1>3, <2>1, <2>3, <3>1, <3>2 DEF ruleOutcome, Holds
    <3>3. ASSUME NEW d \in Births, f.dateOfBirth = Date(d)
          PROVE  LET out == ruleOutcome(s, f, day)
                 IN  /\ out \in {"PASS", "FAIL"} /\ Input(rule, f) # Null
                     /\ out = "PASS" <=> Holds(rule, f, day)
      <4> DEFINE c == calculateCompletedYears(d, day)
      <4>1. Input(rule, f).date = d /\ Input(rule, f) # Null
        BY <3>1, <3>3, ValuesDiffer
      <4>2. c \in Int /\ Age(d, day) = IF c < 0 THEN 0 ELSE c
        BY CompletedYears DEF RealDates
      <4> HIDE DEF c
      <4>3. compare(rule.op, c, n) <=> compare(rule.op, Age(d, day), n)
        BY <2>1, <4>2 DEF compare
      <4>4. ruleOutcome(s, f, day) = IF compare(rule.op, c, n) THEN "PASS" ELSE "FAIL"
        BY <1>3, <2>4, <3>1, <4>1, ValuesDiffer DEF ruleOutcome, c
      <4>5. Holds(rule, f, day) <=> compare(rule.op, Age(d, day), n)
        BY <2>1, <2>3, <3>1, <4>1 DEF Holds
      <4>6. QED
        BY <4>1, <4>3, <4>4, <4>5
    <3>4. QED
      BY <1>2, <3>1, <3>2, <3>3
  <2>7. QED
    BY <2>5, <2>6
<1>7. QED
  BY <1>0, <1>4, <1>5, <1>6

\* The answer to a list of rules.
LEMMA EvaluatedAsEntered ==
  ASSUME PeAssumption, SoundRules, RealDates,
         NEW rules \in Seq(Entered), NEW f \in Facts, NEW day \in Today
  PROVE  LET out == evaluate(updateVersionRules(rules), f, day)
         IN  /\ out = "PASS" <=> \A i \in DOMAIN rules : Holds(rules[i], f, day)
             /\ out = "FAIL" => \E i \in DOMAIN rules : Input(rules[i], f) # Null /\ ~Holds(rules[i], f, day)
<1> DEFINE read == updateVersionRules(rules)
           outcome(i) == ruleOutcome(read[i], f, day)
           failing == {i \in DOMAIN rules : outcome(i) # "PASS"}
<1>1. /\ DOMAIN read = DOMAIN rules /\ DOMAIN rules = 1..Len(rules) /\ Len(rules) \in Nat
      /\ \A i \in DOMAIN rules : rules[i] \in Entered /\ read[i] = StoredRule(rules[i])
  BY DEF updateVersionRules, StoredRule
<1>2. \A i \in DOMAIN rules : /\ outcome(i) \in {"PASS", "FAIL", "missing"}
                              /\ outcome(i) = "PASS" <=> Holds(rules[i], f, day)
                              /\ outcome(i) = "missing" <=> Input(rules[i], f) = Null
  BY <1>1, RuleAsEntered
<1>3. evaluate(read, f, day) =
        CASE failing = {} -> "PASS"
          [] \E i \in failing : outcome(i) = "error" -> "error"
          [] OTHER -> outcome(CHOOSE i \in failing : \A j \in failing : j <= i)
  BY <1>1 DEF evaluate
<1> HIDE DEF outcome, read
<1>4. CASE failing = {}
  BY <1>2, <1>3, <1>4 DEF read
<1>5. CASE failing # {}
  <2> DEFINE last == CHOOSE i \in failing : \A j \in failing : j <= i
  <2>1. \E i \in failing : \A j \in failing : j <= i
    <3>1. failing \in SUBSET (0..Len(rules))
      BY <1>1
    <3> HIDE DEF failing
    <3>2. QED
      BY <1>1, <1>5, <3>1, LargestNumber
  <2>2. last \in failing
    <3> HIDE DEF failing
    <3>1. QED
      BY <2>1
  <2>3. evaluate(read, f, day) = outcome(last)
    BY <1>2, <1>3, <1>5
  <2> HIDE DEF last
  <2>4. QED
    BY <1>2, <2>2, <2>3 DEF read
<1>6. QED
  BY <1>4, <1>5

\* The answer is that of rules that were entered, on the data it was given for.
PeInv ==
  /\ entered \in Seq(Entered) /\ stored = updateVersionRules(entered) /\ facts \in Facts
  /\ answer # NoAnswer =>
       /\ answer.rules \in Seq(Entered) /\ answer.day \in Today
       /\ answer.outcome = evaluate(updateVersionRules(answer.rules), facts, answer.day)

\* No rule has been saved and nobody was evaluated.
LEMMA PeStarts == PeInit => PeInv
<1>1. <<>> \in Seq(Entered) /\ updateVersionRules(<<>>) = <<>>
  BY DEF updateVersionRules
<1>2. QED
  BY <1>1 DEF PeInit, PeInv

\* Saving rules, collecting data and running the policy keep the answer true to its rules.
LEMMA PeKept ==
  ASSUME PeInv, [PeNext]_peVars
  PROVE  PeInv'
<1>1. ASSUME NEW rule \in Entered, saveRules(rule) PROVE PeInv'
  <2>1. entered' \in Seq(Entered) /\ stored' = updateVersionRules(entered') /\ UNCHANGED <<facts, answer>>
    BY <1>1 DEF saveRules, PeInv
  <2>2. QED
    BY <2>1 DEF PeInv
<1>2. ASSUME NEW f \in Facts, collectInputs(f) PROVE PeInv'
  BY <1>2 DEF collectInputs, PeInv
<1>3. ASSUME NEW day \in Today, runPolicy(day) PROVE PeInv'
  <2>1. /\ answer' = [outcome |-> evaluate(stored, facts, day), day |-> day, rules |-> entered, read |-> stored]
        /\ UNCHANGED <<entered, stored, facts>>
    BY <1>3 DEF runPolicy
  <2>2. answer'.rules = entered /\ answer'.day = day /\ answer'.outcome = evaluate(stored, facts, day)
    BY <2>1
  <2>3. QED
    BY <2>1, <2>2 DEF PeInv
<1>4. CASE UNCHANGED peVars
  BY <1>4 DEF peVars, PeInv
<1>5. QED
  BY <1>1, <1>2, <1>3, <1>4 DEF PeNext

\* An applicant passes exactly when every rule holds as the administrator entered it, and is
\* turned down only for a rule that does not hold of data that is there, for any rules, data
\* and dates: of rules that survive the form and the service, which store nothing of a boolean
\* under EQUALS and take a number of 0 for none, and of people not older than the two hundred
\* years the definition of age counts.
THEOREM RulesAsEnteredHolds == SoundRules /\ RealDates => (PeSpec => []RulesAsEntered)
<1> SUFFICES ASSUME SoundRules, RealDates PROVE PeSpec => []RulesAsEntered
  OBVIOUS
<1>1. PeInv => RulesAsEntered
  <2> SUFFICES ASSUME PeInv, answer # NoAnswer PROVE RulesAsEntered
    BY DEF RulesAsEntered
  <2> DEFINE holding == \A i \in DOMAIN answer.rules : Holds(answer.rules[i], facts, answer.day)
  <2>1. /\ answer.rules \in Seq(Entered) /\ facts \in Facts /\ answer.day \in Today
        /\ answer.outcome = evaluate(updateVersionRules(answer.rules), facts, answer.day)
    BY DEF PeInv
  <2>2. /\ answer.outcome = "PASS" <=> holding
        /\ answer.outcome = "FAIL" =>
             \E i \in DOMAIN answer.rules :
               Input(answer.rules[i], facts) # Null /\ ~Holds(answer.rules[i], facts, answer.day)
    BY <2>1, PeAssumption, EvaluatedAsEntered
  <2>3. (answer.outcome = "PASS") = holding
    <3> HIDE DEF holding
    <3>1. holding \in BOOLEAN
      BY DEF holding
    <3>2. QED
      BY <2>2, <3>1
  <2>4. QED
    BY <2>2, <2>3 DEF RulesAsEntered
<1>2. QED
  BY PeStarts, PeKept, <1>1, PTL DEF PeSpec
================================================================================
