------------------------------ MODULE MakerChecker ------------------------------
(***************************************************************************)
(* The four catalogues an operator drafts and a second one approves:       *)
(* lenders (LendersService), lender product versions (ProductsService),    *)
(* platform policy versions (PlatformPoliciesService) and allocation       *)
(* policy versions (MlmService).  They share one life cycle and differ in  *)
(* what a write is conditioned on: a lender's and a policy's on the row    *)
(* version that was read, a product's on the status, an allocation         *)
(* policy's on the id alone.  An operator opens the page, clicks on a      *)
(* button it shows, the service reads the row and writes it in a later     *)
(* step: the page may be stale at the click and the read at the write.     *)
(***************************************************************************)
EXTENDS Naturals, Sequences, FiniteSets

CONSTANTS
  Kinds,          \* the catalogues of the instance
  Operators,      \* administrators
  Slots,          \* browser tabs, each with at most one request in flight
  Broken,         \* contents the services' validations refuse
  MaxVersions,    \* bound: versions of the entry
  MaxWrites       \* bound: successful writes

ASSUME McAssumption ==
  /\ Kinds \subseteq {"lender", "product", "policy", "mlm"}
  /\ MaxVersions \in Nat \ {0} /\ MaxWrites \in Nat

VARIABLES
  kind,           \* the catalogue this behaviour is about
  versions,       \* its rows; a lender has one
  operational,    \* the lender's operationalStatus is ACTIVE
  request,        \* per tab: the page shown or the request in flight
  writes

mcVars == <<kind, versions, operational, request, writes>>

Draft(u, content) ==
  [status |-> "DRAFT", version |-> 1, content |-> content, createdBy |-> u,
   submittedBy |-> "none", approvedBy |-> "none", seen |-> 0]
NoRequest == [op |-> "none", by |-> "none", v |-> 0, shown |-> Draft("none", 0),
              read |-> Draft("none", 0), actives |-> {}]

McInit ==
  /\ kind \in Kinds
  /\ \E u \in Operators : versions = <<Draft(u, 1)>>
  /\ operational = FALSE
  /\ request = [s \in Slots |-> NoRequest]
  /\ writes = 0

Ops == {"edit", "submit", "approve", "reject", "activate", "deactivate"}
Maker(row) == IF row.submittedBy # "none" THEN row.submittedBy ELSE row.createdBy
Statuses(status) == {v \in DOMAIN versions : versions[v].status = status}

\* The maker cannot decide on their own row; an allocation policy may be rejected by its maker.
mayDecide(op, row, u) ==
  IF kind = "mlm" THEN op = "reject" \/ u \notin {row.createdBy, row.submittedBy}
  ELSE Maker(row) # u

\* The status an operation asks for when it reads the row.
Required(op) ==
  CASE op = "edit" -> IF kind = "mlm" THEN {"DRAFT"} ELSE {"DRAFT", "REJECTED"}
    [] op = "submit" -> {"DRAFT"}
    [] op \in {"approve", "reject"} -> {"SUBMITTED"}
    [] op \in {"activate", "deactivate"} -> {"APPROVED"}

\* validateAmounts(), validateMultipliers(): on what is edited and on what is submitted.
productValid(op, content) == op \in {"edit", "submit"} => content \notin Broken
\* enforceMandatoryRules(), enforceNoReferRules(), enforceProductionResolvers()
policyValid(op, content) == op \in {"submit", "approve", "activate"} => content \notin Broken
\* validateVersionConfiguration(): active routes add up to 100.
mlmValid(op, content) == op \in {"submit", "approve", "activate"} => content \notin Broken

Valid(op, content) ==
  CASE kind = "product" -> productValid(op, content)
    [] kind = "policy" -> policyValid(op, content)
    [] kind = "mlm" -> mlmValid(op, content)
    [] kind = "lender" -> TRUE

\* The details page of a catalogue shows the row as it is now.
openPage(s, u, v) ==
  /\ request[s].op \in {"none", "open"} /\ writes < MaxWrites
  /\ request' = [request EXCEPT ![s] =
       [op |-> "open", by |-> u, v |-> v, shown |-> versions[v], read |-> versions[v], actives |-> {}]]
  /\ UNCHANGED <<kind, versions, operational, writes>>

\* The buttons the four details pages show; the lender's page hides the decision from the
\* maker.  Policies are rejected through the route, which has no button.
lenderOffers(op, row, u) ==
  row.status \in Required(op) /\ (op \in {"approve", "reject"} => Maker(row) # u)
productOffers(op, row) == op # "deactivate" /\ row.status \in Required(op)
policyOffers(op, row) == op # "deactivate" /\ row.status \in Required(op)
mlmOffers(op, row) == op # "deactivate" /\ row.status \in Required(op)

offers(op, row, u) ==
  CASE kind = "lender" -> lenderOffers(op, row, u)
    [] kind = "product" -> productOffers(op, row)
    [] kind = "policy" -> policyOffers(op, row)
    [] kind = "mlm" -> mlmOffers(op, row)

\* A click: the service reads the row and checks it.  The policy page sends the version it
\* shows; the other services take the version they read.
begin(s, op) ==
  LET r == request[s]
      row == versions[r.v]
  IN /\ r.op = "open" /\ offers(op, r.shown, r.by)
     /\ IF /\ row.status \in Required(op)
           /\ op \in {"approve", "reject"} => mayDecide(op, row, r.by)
           /\ op = "deactivate" => kind = "lender" /\ operational
           /\ op = "activate" => kind # "lender" \/ ~operational
           /\ Valid(op, IF op = "edit" THEN row.content + 1 ELSE row.content)
          THEN request' = [request EXCEPT ![s] =
                 [r EXCEPT !.op = op, !.actives = Statuses("ACTIVE"),
                           !.read = IF kind = "policy" THEN r.shown ELSE row]]
          ELSE request' = [request EXCEPT ![s] = NoRequest]
     /\ UNCHANGED <<kind, versions, operational, writes>>

\* The where clauses of the four services' writes.
lenderWhere(op, row, read) == row.version = read.version /\ row.status \in Required(op)
productWhere(op, row, read) ==
  IF op = "edit" THEN row.version = read.version ELSE row.status \in Required(op)

\* Mutant: the status alone, as for products.
policyWhereStatus(op, row, read) == row.status \in Required(op)

policyWhere(op, row, read) == row.version = read.version
mlmWhere(op, row, read) == TRUE

matches(op, row, read) ==
  CASE kind = "lender" -> lenderWhere(op, row, read)
    [] kind = "product" -> productWhere(op, row, read)
    [] kind = "policy" -> policyWhere(op, row, read)
    [] kind = "mlm" -> mlmWhere(op, row, read)

\* An edit: a lender that was rejected forgets its submission, products and policies go back
\* to draft, an allocation policy's routes are replaced under whatever status it has by now.
lenderEdited(row, read) ==
  [row EXCEPT !.status = "DRAFT", !.submittedBy = IF read.status = "REJECTED" THEN "none" ELSE @]
productEdited(row) == [row EXCEPT !.status = "DRAFT"]
policyEdited(row) == [row EXCEPT !.status = "DRAFT"]
mlmEdited(row) == row

edited(row, read) ==
  LET new == [row EXCEPT !.content = @ + 1]
  IN CASE kind = "lender" -> lenderEdited(new, read)
       [] kind = "product" -> productEdited(new)
       [] kind = "policy" -> policyEdited(new)
       [] kind = "mlm" -> mlmEdited(new)

\* The data of the write: what the operation does to the row it hits.
submitted(row, u) == [row EXCEPT !.status = "SUBMITTED", !.submittedBy = u]
approved(row, u, shown) ==
  [row EXCEPT !.status = "APPROVED", !.approvedBy = u, !.seen = shown.content]
rejected(row) == [row EXCEPT !.status = "REJECTED"]
activated(row) == IF kind = "lender" THEN row ELSE [row EXCEPT !.status = "ACTIVE"]

written(r) ==
  LET row == [versions[r.v] EXCEPT !.version = @ + 1]
  IN CASE r.op = "edit" -> edited(row, r.read)
       [] r.op = "submit" -> submitted(row, r.by)
       [] r.op = "approve" -> approved(row, r.by, r.shown)
       [] r.op = "reject" -> rejected(row)
       [] r.op = "activate" -> activated(row)
       [] r.op = "deactivate" -> row

\* What an activation supersedes: the versions a product's transaction read as active, and
\* all of a policy's or an allocation policy's that are.
productSupersedes(r) == r.actives \ {r.v}
policySupersedes(r) == Statuses("ACTIVE") \ {r.v}
mlmSupersedes(r) == Statuses("ACTIVE") \ {r.v}

Superseded(r) ==
  CASE r.op # "activate" \/ kind = "lender" -> {}
    [] r.op = "activate" /\ kind = "product" -> productSupersedes(r)
    [] r.op = "activate" /\ kind = "policy" -> policySupersedes(r)
    [] r.op = "activate" /\ kind = "mlm" -> mlmSupersedes(r)

\* A lender is switched on and off by activate() and deactivate(), and off by reject().
lenderOperational(op) ==
  CASE op = "activate" -> TRUE
    [] op \in {"deactivate", "reject"} -> FALSE
    [] OTHER -> operational

\* The write; a request whose condition no longer holds is answered with a conflict.
end(s) ==
  LET r == request[s]
  IN /\ r.op \in Ops
     /\ request' = [request EXCEPT ![s] = NoRequest]
     /\ IF matches(r.op, versions[r.v], r.read)
          THEN /\ versions' = [v \in DOMAIN versions |->
                     CASE v = r.v -> written(r)
                       [] v # r.v /\ v \in Superseded(r) -> [versions[v] EXCEPT !.status = "SUPERSEDED"]
                       [] OTHER -> versions[v]]
               /\ operational' = (kind = "lender" /\ lenderOperational(r.op))
               /\ writes' = writes + 1
          ELSE UNCHANGED <<versions, operational, writes>>
     /\ UNCHANGED kind

\* A new version may be drafted when no version is open; the allocation policy looks at its
\* newest version only.
Open(v) == versions[v].status \in {"DRAFT", "SUBMITTED"}
productNext == \A v \in DOMAIN versions : ~Open(v)
policyNext == \A v \in DOMAIN versions : ~Open(v)
mlmNext == ~Open(Len(versions))

createNextVersion(u) ==
  /\ \/ kind = "product" /\ productNext
     \/ kind = "policy" /\ policyNext
     \/ kind = "mlm" /\ mlmNext
  /\ Len(versions) < MaxVersions /\ writes < MaxWrites
  /\ versions' = Append(versions, Draft(u, versions[Len(versions)].content))
  /\ writes' = writes + 1
  /\ UNCHANGED <<kind, operational, request>>

McNext ==
  \/ \E s \in Slots, u \in Operators, v \in DOMAIN versions : openPage(s, u, v)
  \/ \E s \in Slots, op \in Ops : begin(s, op)
  \/ \E s \in Slots : end(s)
  \/ \E u \in Operators : createNextVersion(u)

McSpec == McInit /\ [][McNext]_mcVars

McTypeOK ==
  /\ kind \in Kinds
  /\ \A v \in DOMAIN versions :
       versions[v].status \in {"DRAFT", "SUBMITTED", "APPROVED", "REJECTED", "ACTIVE", "SUPERSEDED"}
  /\ operational \in BOOLEAN
  /\ writes \in 0 .. (MaxWrites + Cardinality(Slots))

Decided(row) == row.status \in {"APPROVED", "ACTIVE", "SUPERSEDED"}

\* An approved lender or policy was approved by someone other than its maker, whatever
\* rejections, edits and submissions came between the look and the write; an approved policy
\* is valid and is what the checker saw, and only an approved lender is in operation.
FourEyes ==
  /\ kind \in {"lender", "policy"} =>
       \A v \in DOMAIN versions : Decided(versions[v]) =>
         /\ versions[v].approvedBy # Maker(versions[v])
         /\ kind = "policy" => /\ versions[v].content = versions[v].seen
                               /\ versions[v].content \notin Broken
  /\ operational => versions[1].status = "APPROVED"

\* The same of a lender's contents fails: approve() names no version, so a lender edited and
\* submitted again after the page was opened is approved unseen.
LenderApprovedAsSeen ==
  kind = "lender" => \A v \in DOMAIN versions : Decided(versions[v]) => versions[v].content = versions[v].seen

\* products.service.ts, "Maker cannot approve their own submitted version.": the same of a
\* lender product, whose approval is conditioned on the status alone.
ProductCheckedByOther ==
  kind = "product" =>
    \A v \in DOMAIN versions : Decided(versions[v]) => versions[v].approvedBy # Maker(versions[v])
==============================================================================
