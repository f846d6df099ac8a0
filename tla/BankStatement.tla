----------------------------- MODULE BankStatement -----------------------------
(***************************************************************************)
(* The bank statement of an application (unaport.service.ts and            *)
(* boost-money-bsa.service.ts) with the page that collects it              *)
(* (AccountAggregatorStep.jsx): one customer, one loan account number.  A  *)
(* request of the account aggregator is driven by the page, by the         *)
(* webhooks of the aggregator and by polls; every handler reads the row    *)
(* first and writes it later by id, so the tasks below interleave between  *)
(* their queries.                                                          *)
(***************************************************************************)
EXTENDS Naturals, Sequences, FiniteSets

CONSTANTS
  Tasks,          \* concurrent requests and background jobs of the server
  MaxRequests,    \* bound: CustomerAccountAggregatorRequest rows
  MaxFaults,      \* bound: lost or repeated webhooks, failed calls, ended consents, restarts
  Reordered       \* a webhook may arrive after what followed it

ASSUME BankStatementAssumption == MaxRequests \in Nat /\ MaxFaults \in Nat /\ Reordered \in BOOLEAN

VARIABLES
  aaRows,         \* the request rows of the loan, oldest first
  aggregator,     \* what the aggregator knows of each row
  aaHooks,        \* webhooks on their way
  aaTask,         \* what each task of the server is doing
  aaJobs,         \* background jobs: <<"analyse", row>> and <<"export", row>>
  aaFile,         \* BANK_STATEMENT document, best analysis, plLoan.bankVerified
  aaPage,         \* the page: its step, the number in the SDK address, row and popup
  bankMobile,     \* the number initiateAccountAggregator() would use now
  aaFaults

aaVars == <<aaRows, aggregator, aaHooks, aaTask, aaJobs, aaFile, aaPage, bankMobile, aaFaults>>

AaRows == DOMAIN aaRows
Pending == {"INITIATED", "CONSENT_APPROVED", "DATA_PENDING"}
Ended == {"FAILED", "EXPIRED", "CANCELLED"}
DataStates == {"none", "PENDING", "READY", "DATA_PENDING", "COMPLETED", "DENIED", "CANCELLED",
               "EXPIRED", "BSA_VERIFIED"}
NoTask == [pc |-> "idle", row |-> 0, seen |-> "none", retry |-> FALSE, page |-> FALSE]
NewRow(number, st, data) == [mobile |-> number, status |-> st, data |-> data,
                             session |-> FALSE, bank |-> FALSE]
AaFree(p) == aaTask[p].pc = "idle"
Hook(kind, i, value) == [kind |-> kind, row |-> i, value |-> value]
\* findFirst({ lan }, orderBy id desc): the row every poll and upload looks at.
Newest == Len(aaRows)

AaInit ==
  /\ aaRows = <<>>
  /\ aggregator = <<>>
  /\ aaHooks = {}
  /\ aaTask = [p \in Tasks |-> NoTask]
  /\ aaJobs = {}
  /\ aaFile = [document |-> FALSE, analysis |-> "none", bankVerified |-> FALSE]
  /\ aaPage = [step |-> "idle", url |-> "none", row |-> 0, popup |-> FALSE]
  /\ bankMobile = "login"
  /\ aaFaults = 0

----------------------------------------------------------------------------
\* The page and the SDK window

\* The rows that may be reused: pending, and asked for with the number of today.
Reusable == {i \in AaRows : /\ aaRows[i].status \in Pending
                            /\ \A j \in AaRows : aaRows[j].status \in Pending => j <= i
                            /\ aaRows[i].mobile = bankMobile}

\* handleConnectBank() and handleRetry(): the number and the row are read, then the server
\* waits for the aggregator's tokens.  A reusable row older than 30 minutes is left alone.
handleConnectBank(p) ==
  /\ AaFree(p)
  /\ aaPage.step # "done"
  /\ \A q \in Tasks : aaTask[q].pc # "initiate"
  /\ \E i \in Reusable \cup {0} :
       /\ i = 0 => Newest < MaxRequests
       /\ aaTask' = [aaTask EXCEPT ![p] = [NoTask EXCEPT !.pc = "initiate", !.row = i, !.seen = bankMobile]]
  /\ UNCHANGED <<aaRows, aggregator, aaHooks, aaJobs, aaFile, aaPage, bankMobile, aaFaults>>

\* The upsert by trackingId: a reused row goes back to INITIATED whatever happened meanwhile.
initiateAccountAggregator(p) ==
  /\ aaTask[p].pc = "initiate"
  /\ \E opened \in BOOLEAN :
       IF aaTask[p].row = 0
       THEN /\ Newest < MaxRequests
            /\ aaRows' = Append(aaRows, NewRow(aaTask[p].seen, "INITIATED", "none"))
            /\ aggregator' = Append(aggregator, "none")
            /\ aaPage' = [step |-> "waiting", url |-> aaTask[p].seen, row |-> Newest + 1, popup |-> opened]
       ELSE /\ aaRows' = [aaRows EXCEPT ![aaTask[p].row].status = "INITIATED"]
            /\ aaPage' = [step |-> "waiting", url |-> aaTask[p].seen, row |-> aaTask[p].row, popup |-> opened]
            /\ UNCHANGED aggregator
  /\ aaTask' = [aaTask EXCEPT ![p] = NoTask]
  /\ UNCHANGED <<aaHooks, aaJobs, aaFile, bankMobile, aaFaults>>

\* "Re-open Bank Consent Window": the address made before is opened again.
handleOpenSdk ==
  /\ aaPage.step # "done" /\ aaPage.url # "none" /\ ~aaPage.popup
  /\ aaPage' = [aaPage EXCEPT !.popup = TRUE]
  /\ UNCHANGED <<aaRows, aggregator, aaHooks, aaTask, aaJobs, aaFile, bankMobile, aaFaults>>

\* "Save & Use" of the bank-registered number.
saveSecondaryMobile ==
  /\ aaPage.step = "waiting" /\ bankMobile = "login"
  /\ bankMobile' = "secondary"
  /\ UNCHANGED <<aaRows, aggregator, aaHooks, aaTask, aaJobs, aaFile, aaPage, aaFaults>>

\* The customer answers in the SDK window; the window closes.
DecideConsent ==
  /\ aaPage.popup
  /\ aggregator[aaPage.row] = "none"
  /\ \E d \in {"APPROVED", "REJECTED"} :
       /\ aggregator' = [aggregator EXCEPT ![aaPage.row] = d]
       /\ aaHooks' = aaHooks \cup {Hook("consent", aaPage.row, d)}
  /\ aaPage' = [aaPage EXCEPT !.popup = FALSE]
  /\ UNCHANGED <<aaRows, aaTask, aaJobs, aaFile, bankMobile, aaFaults>>

\* Every webhook sent so far has been written.
NoticesHandled == aaHooks = {} /\ \A p \in Tasks : aaTask[p].pc \notin {"consent", "data"}

\* The aggregator opens a data session on the consent, or the bank denies it.  A READY notice
\* may be sent while the bank's answer is still being compiled.
OpenSession(i) ==
  /\ aggregator[i] = "APPROVED"
  /\ Reordered \/ NoticesHandled
  /\ \/ /\ aggregator' = [aggregator EXCEPT ![i] = "compiling"]
        /\ \E v \in {"PENDING", "READY"} : aaHooks' = aaHooks \cup {Hook("data", i, v)}
     \/ /\ aggregator' = [aggregator EXCEPT ![i] = "denied"]
        /\ aaHooks' = aaHooks \cup {Hook("data", i, "DENIED")}
  /\ UNCHANGED <<aaRows, aaTask, aaJobs, aaFile, aaPage, bankMobile, aaFaults>>

Compile(i) ==
  /\ aggregator[i] = "compiling"
  /\ Reordered \/ NoticesHandled
  /\ aggregator' = [aggregator EXCEPT ![i] = "ready"]
  /\ aaHooks' = aaHooks \cup {Hook("data", i, "READY")}
  /\ UNCHANGED <<aaRows, aaTask, aaJobs, aaFile, aaPage, bankMobile, aaFaults>>

\* The customer revokes the consent, or it expires, at the aggregator.
EndConsent(i) ==
  /\ aggregator[i] \in {"compiling", "ready"}
  /\ Reordered \/ NoticesHandled
  /\ aaFaults < MaxFaults
  /\ aaFaults' = aaFaults + 1
  /\ \E v \in {"REVOKED", "EXPIRED"} : aaHooks' = aaHooks \cup {Hook("consent", i, v)}
  /\ aggregator' = [aggregator EXCEPT ![i] = "ended"]
  /\ UNCHANGED <<aaRows, aaTask, aaJobs, aaFile, aaPage, bankMobile>>

----------------------------------------------------------------------------
\* Webhooks.  A delivery that is repeated, or lost, is a fault.

Receive(h) == \/ aaHooks' = aaHooks \ {h} /\ UNCHANGED aaFaults
              \/ aaFaults < MaxFaults /\ aaFaults' = aaFaults + 1 /\ UNCHANGED aaHooks

LoseHook ==
  /\ aaFaults < MaxFaults
  /\ \E h \in aaHooks : aaHooks' = aaHooks \ {h}
  /\ aaFaults' = aaFaults + 1
  /\ UNCHANGED <<aaRows, aggregator, aaTask, aaJobs, aaFile, aaPage, bankMobile>>

\* The loan number inside the tracking id is one of the alternatives of the query, so the
\* newest row of the loan is found, whichever row the consent belongs to.
readConsentRequest(p) ==
  /\ AaFree(p)
  /\ \E h \in aaHooks :
       /\ h.kind = "consent"
       /\ Receive(h)
       /\ aaTask' = [aaTask EXCEPT ![p] = [pc |-> "consent", row |-> Newest, retry |-> FALSE, page |-> FALSE,
                                           seen |-> <<h.value, aaRows[Newest].data>>]]
  /\ UNCHANGED <<aaRows, aggregator, aaJobs, aaFile, aaPage, bankMobile>>

\* Every column is written from the row as it was read; the journey consent goes to the outbox.
handleConsentNotification(p) ==
  LET value == aaTask[p].seen[1]
      data == aaTask[p].seen[2]
      st == [APPROVED |-> "CONSENT_APPROVED", REJECTED |-> "FAILED", EXPIRED |-> "EXPIRED", REVOKED |-> "CANCELLED"]
      d == [APPROVED |-> data, REJECTED |-> "CANCELLED", EXPIRED |-> "EXPIRED", REVOKED |-> "CANCELLED"]
  IN /\ aaTask[p].pc = "consent"
     /\ aaRows' = [aaRows EXCEPT ![aaTask[p].row].status = st[value], ![aaTask[p].row].data = d[value]]
     /\ aaTask' = [aaTask EXCEPT ![p] = NoTask]
     /\ UNCHANGED <<aggregator, aaHooks, aaJobs, aaFile, aaPage, bankMobile, aaFaults>>

\* The row of the session, the tracking id or the consent.
readDataRequest(p) ==
  /\ AaFree(p)
  /\ \E h \in aaHooks :
       /\ h.kind = "data"
       /\ Receive(h)
       /\ aaTask' = [aaTask EXCEPT ![p] = [NoTask EXCEPT !.pc = "data", !.row = h.row,
                                                         !.seen = <<h.value, aaRows[h.row].status>>]]
  /\ UNCHANGED <<aaRows, aggregator, aaJobs, aaFile, aaPage, bankMobile>>

\* Denied by every bank: the request fails and the analysis of what is on file is started.
\* Ready: the fetch goes on in this task after the webhook was answered.
handleDataNotification(p) ==
  LET value == aaTask[p].seen[1]
      i == aaTask[p].row
      st == [READY |-> "DATA_PENDING", DENIED |-> "FAILED", PENDING |-> aaTask[p].seen[2]]
  IN /\ aaTask[p].pc = "data"
     /\ aaRows' = [aaRows EXCEPT ![i].session = TRUE, ![i].data = value, ![i].status = st[value]]
     /\ aaJobs' = IF value = "DENIED" THEN aaJobs \cup {<<"analyse", i>>} ELSE aaJobs
     /\ aaTask' = [aaTask EXCEPT ![p] = IF value = "READY" THEN [NoTask EXCEPT !.pc = "fetch", !.row = i] ELSE NoTask]
     /\ UNCHANGED <<aggregator, aaHooks, aaFile, aaPage, bankMobile, aaFaults>>

----------------------------------------------------------------------------
\* Fetching the data of a session

\* Done already, or the call is made with what was read.
fetchDataBySession(p) ==
  LET i == aaTask[p].row
  IN /\ aaTask[p].pc = "fetch"
     /\ aaTask' = [aaTask EXCEPT ![p] =
          IF aaRows[i].status = "SUCCESS" /\ aaRows[i].bank
          THEN IF @.page THEN [@ EXCEPT !.pc = "answer"] ELSE NoTask
          ELSE [@ EXCEPT !.pc = "call"]]
     /\ UNCHANGED <<aaRows, aggregator, aaHooks, aaJobs, aaFile, aaPage, bankMobile, aaFaults>>

AfterFetch(p) == IF aaTask[p].page THEN [aaTask[p] EXCEPT !.pc = "answer"] ELSE NoTask

\* No account in the answer, or neither address answers and the stored webhook, which holds
\* none, takes its place: tried again once, then left to the next poll.
keepWaiting(p) ==
  LET i == aaTask[p].row
  IN /\ aaTask[p].pc = "call"
     /\ \/ aggregator[i] # "ready" /\ UNCHANGED aaFaults
        \/ aaFaults < MaxFaults /\ aaFaults' = aaFaults + 1
     /\ IF aaTask[p].retry
        THEN /\ aaRows' = [aaRows EXCEPT ![i].status = "DATA_PENDING", ![i].data = "DATA_PENDING"]
             /\ aaTask' = [aaTask EXCEPT ![p] = AfterFetch(p)]
        ELSE /\ aaTask' = [aaTask EXCEPT ![p].pc = "fetch", ![p].retry = TRUE]
             /\ UNCHANGED aaRows
     /\ UNCHANGED <<aggregator, aaHooks, aaJobs, aaFile, aaPage, bankMobile>>

\* Mutant: an answer without accounts is taken for the statement.
storeAnyAnswer(p) ==
  LET i == aaTask[p].row
  IN /\ aaTask[p].pc = "call"
     /\ aaRows' = [aaRows EXCEPT ![i].status = "SUCCESS", ![i].data = "COMPLETED",
                                 ![i].bank = @ \/ aggregator[i] = "ready"]
     /\ aaTask' = [aaTask EXCEPT ![p] = AfterFetch(p)]
     /\ UNCHANGED <<aggregator, aaHooks, aaJobs, aaFile, aaPage, bankMobile, aaFaults>>

\* One transaction: account data, the loan's bank columns, the transactions, SUCCESS; the
\* statement document is printed afterwards.
storeAccounts(p) ==
  LET i == aaTask[p].row
  IN /\ aaTask[p].pc = "call"
     /\ aggregator[i] = "ready"
     /\ aaRows' = [aaRows EXCEPT ![i].status = "SUCCESS", ![i].data = "COMPLETED", ![i].bank = TRUE]
     /\ aaFile' = [aaFile EXCEPT !.bankVerified = TRUE]
     /\ aaJobs' = aaJobs \cup {<<"export", i>>}
     /\ aaTask' = [aaTask EXCEPT ![p] = AfterFetch(p)]
     /\ UNCHANGED <<aggregator, aaHooks, aaPage, bankMobile, aaFaults>>

exportAndSaveStatementDocuments(i) ==
  /\ <<"export", i>> \in aaJobs
  /\ aaJobs' = aaJobs \ {<<"export", i>>}
  /\ aaFile' = [aaFile EXCEPT !.document = TRUE]
  /\ UNCHANGED <<aaRows, aggregator, aaHooks, aaTask, aaPage, bankMobile, aaFaults>>

----------------------------------------------------------------------------
\* Polls

\* What the page does with a status.
fetchStatus(st) ==
  IF st = "SUCCESS" THEN [aaPage EXCEPT !.step = "done", !.popup = FALSE]
  ELSE IF st \in Ended THEN [aaPage EXCEPT !.step = "stopped"] ELSE aaPage

\* A row whose session may hold data that is not stored yet.
WorthFetching(r) ==
  /\ r.session
  /\ r.status # "SUCCESS" \/ ~r.bank
  /\ (IF r.data = "none" THEN r.status ELSE r.data) \in {"READY", "DATA_PENDING", "COMPLETED", "SUCCESS"}

\* Mutant: the poll only looks at the row.
getStatusOnly(p) ==
  /\ AaFree(p) /\ aaPage.step # "done" /\ aaRows # <<>>
  /\ aaPage' = fetchStatus(aaRows[Newest].status)
  /\ UNCHANGED <<aaRows, aggregator, aaHooks, aaTask, aaJobs, aaFile, bankMobile, aaFaults>>

\* getStatus() of the mounted page: every 4 seconds, on focus and on mount.
getStatus(p) ==
  /\ AaFree(p) /\ aaPage.step # "done" /\ aaRows # <<>>
  /\ IF WorthFetching(aaRows[Newest])
     THEN /\ aaTask' = [aaTask EXCEPT ![p] = [NoTask EXCEPT !.pc = "fetch", !.row = Newest, !.page = TRUE]]
          /\ UNCHANGED aaPage
     ELSE /\ aaPage' = fetchStatus(aaRows[Newest].status)
          /\ UNCHANGED aaTask
  /\ UNCHANGED <<aaRows, aggregator, aaHooks, aaJobs, aaFile, bankMobile, aaFaults>>

\* The row is read again for the page that waited for the fetch.
buildStatusResponse(p) ==
  /\ aaTask[p].pc = "answer"
  /\ aaPage' = IF aaPage.step = "done" THEN aaPage ELSE fetchStatus(aaRows[aaTask[p].row].status)
  /\ aaTask' = [aaTask EXCEPT ![p] = NoTask]
  /\ UNCHANGED <<aaRows, aggregator, aaHooks, aaJobs, aaFile, bankMobile, aaFaults>>

----------------------------------------------------------------------------
\* Bank statement analysis

\* parseTransactions() on the transactions on file; any successful parse verifies the request.
executeBankStatementAnalysisFallback(i) ==
  /\ <<"analyse", i>> \in aaJobs
  /\ aaJobs' = aaJobs \ {<<"analyse", i>>}
  /\ \/ /\ aaFile' = [aaFile EXCEPT !.analysis = "SUCCESS"]
        /\ aaRows' = [aaRows EXCEPT ![i].status = "SUCCESS", ![i].data = "BSA_VERIFIED"]
     \/ /\ aaFile' = [aaFile EXCEPT !.analysis = IF @ = "none" THEN "FAILED" ELSE @]
        /\ UNCHANGED aaRows
  /\ UNCHANGED <<aggregator, aaHooks, aaTask, aaPage, bankMobile, aaFaults>>

\* handleUploadBankStatement() of the page: the file and its document row are stored first.
handleUploadBankStatement(p) ==
  /\ AaFree(p) /\ aaPage.step # "done"
  /\ \A q \in Tasks : aaTask[q].pc \notin {"parse", "verify", "summary"}
  /\ aaFile' = [aaFile EXCEPT !.document = TRUE]
  /\ aaTask' = [aaTask EXCEPT ![p] = [NoTask EXCEPT !.pc = "parse"]]
  /\ UNCHANGED <<aaRows, aggregator, aaHooks, aaJobs, aaPage, bankMobile, aaFaults>>

\* Two attempts with a renewed token; the outcome is recorded, not returned as an error.
uploadMultipleStatements(p) ==
  /\ aaTask[p].pc = "parse"
  /\ \E r \in {"SUCCESS", "FAILED"} :
       aaFile' = [aaFile EXCEPT !.analysis = IF @ = "SUCCESS" THEN @ ELSE r]
  /\ aaTask' = [aaTask EXCEPT ![p].pc = "verify"]
  /\ UNCHANGED <<aaRows, aggregator, aaHooks, aaJobs, aaPage, bankMobile, aaFaults>>

\* The newest row becomes SUCCESS whatever the parse said; without a row one is created.
uploadBankStatementAndAnalyze(p) ==
  /\ aaTask[p].pc = "verify"
  /\ IF aaRows = <<>>
     THEN /\ aaRows' = <<NewRow("none", "SUCCESS", "BSA_VERIFIED")>>
          /\ aggregator' = <<"none">>
          /\ aaTask' = [aaTask EXCEPT ![p].pc = "summary", ![p].row = 1]
     ELSE /\ aaRows' = [aaRows EXCEPT ![Newest].status = "SUCCESS", ![Newest].data = "BSA_VERIFIED"]
          /\ aaTask' = [aaTask EXCEPT ![p].pc = "summary", ![p].row = Newest]
          /\ UNCHANGED aggregator
  /\ UNCHANGED <<aaHooks, aaJobs, aaFile, aaPage, bankMobile, aaFaults>>

saveBankSummary(p) ==
  /\ aaTask[p].pc = "summary"
  /\ aaRows' = [aaRows EXCEPT ![aaTask[p].row].bank = TRUE]
  /\ aaPage' = [aaPage EXCEPT !.step = "done"]
  /\ aaTask' = [aaTask EXCEPT ![p] = NoTask]
  /\ UNCHANGED <<aggregator, aaHooks, aaJobs, aaFile, bankMobile, aaFaults>>

\* The process dies: tasks and background jobs are gone, the page goes on polling.
RestartServer ==
  /\ aaFaults < MaxFaults
  /\ aaFaults' = aaFaults + 1
  /\ aaTask' = [p \in Tasks |-> NoTask]
  /\ aaJobs' = {}
  /\ UNCHANGED <<aaRows, aggregator, aaHooks, aaFile, aaPage, bankMobile>>

----------------------------------------------------------------------------
RunTask(p) ==
  \/ initiateAccountAggregator(p) \/ handleConsentNotification(p) \/ handleDataNotification(p)
  \/ fetchDataBySession(p) \/ keepWaiting(p) \/ storeAccounts(p)
  \/ buildStatusResponse(p)
  \/ uploadMultipleStatements(p) \/ uploadBankStatementAndAnalyze(p) \/ saveBankSummary(p)

AaNext ==
  \/ \E p \in Tasks :
       \/ handleConnectBank(p) \/ readConsentRequest(p) \/ readDataRequest(p)
       \/ getStatus(p) \/ handleUploadBankStatement(p) \/ RunTask(p)
  \/ handleOpenSdk \/ saveSecondaryMobile \/ DecideConsent
  \/ \E i \in AaRows : \/ OpenSession(i) \/ Compile(i) \/ EndConsent(i)
                       \/ executeBankStatementAnalysisFallback(i) \/ exportAndSaveStatementDocuments(i)
  \/ LoseHook \/ RestartServer

\* The server runs what it started, a webhook that is not lost reaches it (strong: the bound on
\* tasks is the model's), the aggregator finishes compiling and the customer comes back to the
\* page, which polls whenever it is mounted.
AaFairness ==
  /\ \A p \in Tasks : WF_aaVars(RunTask(p))
  /\ SF_aaVars(\E p \in Tasks : readConsentRequest(p) \/ readDataRequest(p))
  /\ WF_aaVars(\E p \in Tasks : getStatus(p))
  /\ WF_aaVars(\E i \in AaRows : Compile(i))

AaSpec == AaInit /\ [][AaNext]_aaVars /\ AaFairness

----------------------------------------------------------------------------
\* Type invariant of the rows, the tasks and the page.
AaTypeOK ==
  /\ aaRows \in Seq([mobile : {"none", "login", "secondary"}, status : Pending \cup Ended \cup {"SUCCESS"},
                     data : DataStates, session : BOOLEAN, bank : BOOLEAN])
  /\ Len(aggregator) = Len(aaRows)
  /\ \A p \in Tasks : aaTask[p].row \in 0..Len(aaRows)
  /\ aaJobs \subseteq {"analyse", "export"} \X AaRows
  /\ aaPage.row \in 0..Len(aaRows)
  /\ aaFaults \in 0..MaxFaults

\* A bank step the page or a row calls finished rests on something a reviewer can open: account
\* data, an uploaded statement or a successful analysis (fetchDataBySession() marks SUCCESS only
\* with data, uploadBankStatementAndAnalyze() stores the file before anything else).
VerifiedHasEvidence ==
  (aaPage.step = "done" \/ \E i \in AaRows : aaRows[i].status = "SUCCESS")
    => aaFile.document \/ aaFile.analysis = "SUCCESS" \/ \E i \in AaRows : aaRows[i].bank

\* A READY notice that was stored is settled although the process may die before its fetch and
\* calls may fail: the polls of the page take the fetch up (getStatus()), unless an upload
\* finished the step meanwhile.
NoticeSettles ==
  \A i \in 1..MaxRequests :
    (i \in AaRows /\ aaRows[i].data = "READY")
      ~> (i # Newest \/ aaPage.step = "done" \/ aaRows[i].status \in Ended \cup {"SUCCESS"})

\* The page says of a saved number: 'Saved! Click "Re-open Bank Consent Window" to retry with
\* this number.'
SavedNumberUsed == [][handleOpenSdk => aaPage.url = bankMobile]_aaVars
================================================================================
