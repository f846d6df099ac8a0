-------------------------------- MODULE AadhaarKyc --------------------------------
(***************************************************************************)
(* Aadhaar verification through DigiLocker before the application is       *)
(* submitted: the KYC step of the customer page, the KYC service, the      *)
(* provider's sessions and webhooks, and what a verification feeds: the    *)
(* snapshot of the application, its permanent address, the stored document *)
(* and the background comparison with the live photograph.                  *)
(***************************************************************************)
EXTENDS Naturals, FiniteSets

CONSTANTS MaxKycSessions,  \* DigiLocker sessions the provider opens
          MaxKycLost,      \* webhooks, callbacks and provider calls that may be lost
          CrashPoints,  \* the steps of a handler before which the process may die
          FailedDetails,\* whether the provider has details to give of a failed session
          PhotoTabs     \* tabs that capture a live photograph

KycSessions == 1..MaxKycSessions

VARIABLES akCustomer, \* customer row: verified flag, status, DigiLocker session
          akKyc,      \* KYC row: status and transaction
          akSnap,     \* the application's KYC snapshot and addresses
          akDocs,     \* stored documents: Aadhaar PDF, live photo
          digitap,    \* the provider: outcome per session
          akHooks,    \* webhooks on their way
          akJobs,     \* handlers between two awaits
          akPage,     \* the KYC step of the page
          akFace,     \* face-match row
          liveness,   \* the application's liveness row
          camera,     \* photograph each tab is working on
          akLost      \* faults so far

akVars == <<akCustomer, akKyc, akSnap, akDocs, digitap, akHooks, akJobs, akPage, akFace,
            liveness, camera, akLost>>
kycVars == <<akCustomer, akKyc, akSnap, digitap, akHooks, akJobs, akPage>>
photoVars == <<liveness, camera>>

KycState == {"NONE", "INITIATED", "VERIFIED", "FAILED"}
KycSteps == {"initiate", "persist", "webhook", "commit", "snapshot", "document", "face"}

\* Every variable holds a value of its table, of the provider or of the page.
AkTypeOK ==
  /\ akCustomer \in [verified: BOOLEAN, status: KycState, session: 0..MaxKycSessions]
  /\ akKyc \in [status: KycState, session: 0..MaxKycSessions]
  /\ akSnap \in [kyc: BOOLEAN, permanent: BOOLEAN, current: BOOLEAN]
  /\ akDocs \in [aadhaar: BOOLEAN, photo: BOOLEAN, live: BOOLEAN]
  /\ digitap \in [KycSessions -> {"unused", "open", "done", "failed"}]
  /\ akHooks \subseteq [session: KycSessions, ok: BOOLEAN]
  /\ akJobs \subseteq [at: KycSteps, session: 0..MaxKycSessions, by: {"page", "hook"}, ok: BOOLEAN]
  /\ akPage \in [open: 0..MaxKycSessions, callback: BOOLEAN, verified: BOOLEAN]
  /\ akFace \in {"NONE", "SKIPPED", "ERROR", "MATCHED", "NOT_MATCHED"}
  /\ liveness \in {"NONE", "FAILED", "VERIFIED"}
  /\ camera \in [PhotoTabs -> [st: {"off", "captured", "passed"}, live: BOOLEAN]]
  /\ akLost \in 0..MaxKycLost

AkInit ==
  /\ akCustomer = [verified |-> FALSE, status |-> "NONE", session |-> 0]
  /\ akKyc = [status |-> "NONE", session |-> 0]
  /\ akSnap = [kyc |-> FALSE, permanent |-> FALSE, current |-> FALSE]
  /\ akDocs = [aadhaar |-> FALSE, photo |-> FALSE, live |-> FALSE]
  /\ digitap = [s \in KycSessions |-> "unused"]
  /\ akHooks = {} /\ akJobs = {}
  /\ akPage = [open |-> 0, callback |-> FALSE, verified |-> FALSE]
  /\ akFace = "NONE" /\ liveness = "NONE"
  /\ camera = [t \in PhotoTabs |-> [st |-> "off", live |-> FALSE]]
  /\ akLost = 0

KycJob(at, s, by, ok) == [at |-> at, session |-> s, by |-> by, ok |-> ok]
StartJob(j) == akJobs' = akJobs \cup {j}
MoveJob(j, at) == akJobs' = (akJobs \ {j}) \cup {[j EXCEPT !.at = at]}
EndJob(j) == akJobs' = akJobs \ {j}
AadhaarVerified == akCustomer.verified \/ akCustomer.status = "VERIFIED"
CompletedSession(s) == s # 0 /\ digitap[s] = "done"

-----------------------------------------------------------------------------
(* Starting a session.                                                      *)

\* readStoredInitiation(): a session opened less than its validity ago is handed out again.
readStoredInitiation == akCustomer.status = "INITIATED" /\ akCustomer.session # 0

\* The page asks for DigiLocker; the service answers from the customer row, adopts a
\* session the provider has finished, resumes one, or goes on to open a new one.
handleStartDigilocker ==
  /\ ~akPage.verified /\ ~akSnap.kyc
  /\ \A j \in akJobs : j.by # "page"
  /\ \/ /\ AadhaarVerified
        /\ akPage' = [akPage EXCEPT !.verified = TRUE]
        /\ UNCHANGED akJobs
     \/ /\ ~AadhaarVerified /\ CompletedSession(akCustomer.session)
        /\ StartJob(KycJob("persist", akCustomer.session, "page", TRUE))
        /\ UNCHANGED akPage
     \/ /\ ~AadhaarVerified /\ ~CompletedSession(akCustomer.session) /\ readStoredInitiation
        /\ akPage' = [akPage EXCEPT !.open = akCustomer.session]
        /\ UNCHANGED akJobs
     \/ /\ ~AadhaarVerified /\ ~CompletedSession(akCustomer.session)
        /\ StartJob(KycJob("initiate", 0, "page", TRUE))
        /\ UNCHANGED akPage
  /\ UNCHANGED <<akCustomer, akKyc, akSnap, akDocs, digitap, akHooks, akFace, photoVars, akLost>>

\* initiate(): the provider opens a session, then both rows are set to it.
initiate(j) ==
  /\ j.at = "initiate"
  /\ \E s \in KycSessions :
       /\ digitap[s] = "unused" /\ \A r \in 1..(s - 1) : digitap[r] # "unused"
       /\ digitap' = [digitap EXCEPT ![s] = "open"]
       /\ akKyc' = [status |-> "INITIATED", session |-> s]
       /\ akCustomer' = [akCustomer EXCEPT !.status = "INITIATED", !.session = s]
       /\ akPage' = [akPage EXCEPT !.open = s]
  /\ EndJob(j)
  /\ UNCHANGED <<akSnap, akDocs, akHooks, akFace, photoVars, akLost>>

\* The provider cannot open a session (its own limit, an outage): the page shows an error.
initiateFails(j) ==
  /\ j.at = "initiate" /\ \A s \in KycSessions : digitap[s] # "unused"
  /\ EndJob(j)
  /\ UNCHANGED <<akCustomer, akKyc, akSnap, akDocs, digitap, akHooks, akPage, akFace, photoVars, akLost>>

\* External: the customer finishes or abandons the window; the provider notifies, and
\* the window's own callback page tells the page that opened it.
finishSession(s) ==
  /\ digitap[s] = "open" /\ akPage.open = s
  /\ \E done \in BOOLEAN :
       /\ digitap' = [digitap EXCEPT ![s] = IF done THEN "done" ELSE "failed"]
       /\ akHooks' = akHooks \cup {[session |-> s, ok |-> done]}
  /\ akPage' = [akPage EXCEPT !.callback = TRUE, !.open = 0]
  /\ UNCHANGED <<akCustomer, akKyc, akSnap, akDocs, akJobs, akFace, photoVars, akLost>>

\* External: one of the two notices of a finished session never arrives.
loseNotice ==
  /\ akLost < MaxKycLost /\ akLost' = akLost + 1
  /\ \/ \E h \in akHooks : akHooks' = akHooks \ {h} /\ UNCHANGED akPage
     \/ akPage.callback /\ akPage' = [akPage EXCEPT !.callback = FALSE] /\ UNCHANGED akHooks
  /\ UNCHANGED <<akCustomer, akKyc, akSnap, akDocs, digitap, akJobs, akFace, photoVars>>

-----------------------------------------------------------------------------
(* What a verification stores.                                              *)

\* processAndPersistVerifiedDetails(): the transaction over the customer and the KYC row.
processAndPersistVerifiedDetails(j) ==
  /\ j.at = "persist"
  /\ akCustomer' = [akCustomer EXCEPT !.verified = TRUE, !.status = "VERIFIED"]
  /\ akKyc' = [akKyc EXCEPT !.status = "VERIFIED"]
  /\ MoveJob(j, "snapshot")
  /\ UNCHANGED <<akSnap, akDocs, digitap, akHooks, akPage, akFace, photoVars, akLost>>

\* Mutant: an Aadhaar record without a full address ends the handler.
snapshotNeedsAddress(j) ==
  /\ j.at = "snapshot"
  /\ \/ akSnap' = [akSnap EXCEPT !.kyc = TRUE, !.permanent = TRUE]
     \/ UNCHANGED akSnap
  /\ IF j.by = "hook" THEN MoveJob(j, "face") ELSE MoveJob(j, "document")
  /\ UNCHANGED <<akCustomer, akKyc, akDocs, digitap, akHooks, akPage, akFace, photoVars, akLost>>

\* snapshotVerifiedApplicationKyc(): the snapshot always, the permanent address when
\* the Aadhaar record has a city, a state and a pincode.
snapshotVerifiedApplicationKyc(j) ==
  /\ j.at = "snapshot"
  /\ \E full \in BOOLEAN :
       akSnap' = [akSnap EXCEPT !.kyc = TRUE, !.permanent = @ \/ full]
  /\ IF j.by = "hook" THEN MoveJob(j, "face") ELSE MoveJob(j, "document")
  /\ UNCHANGED <<akCustomer, akKyc, akDocs, digitap, akHooks, akPage, akFace, photoVars, akLost>>

\* storeDigitapDocuments(): a download that fails is logged and left out.
storeDigitapDocuments(j) ==
  /\ j.at = "document"
  /\ \E got \in BOOLEAN : akDocs' = [akDocs EXCEPT !.aadhaar = @ \/ got]
  /\ IF j.by = "hook" THEN MoveJob(j, "commit") ELSE MoveJob(j, "face")
  /\ UNCHANGED <<akCustomer, akKyc, akSnap, digitap, akHooks, akPage, akFace, photoVars, akLost>>

\* persist(): the row of one comparison replaces the last one.
persistFaceMatch(status) == akFace' = status

\* runForApplication(): a conclusive row is kept; without both documents the run is
\* SKIPPED; the provider may match, refuse or fail.
runForApplication ==
  IF akFace \in {"MATCHED", "NOT_MATCHED"} THEN UNCHANGED akFace
  ELSE IF ~(akDocs.aadhaar /\ akDocs.photo) THEN persistFaceMatch("SKIPPED")
  ELSE \E r \in {"MATCHED", "NOT_MATCHED", "ERROR"} : persistFaceMatch(r)

\* triggerFaceMatch() at the end of either path; the page gets its answer.
triggerFaceMatch(j) ==
  /\ j.at = "face"
  /\ runForApplication
  /\ EndJob(j)
  /\ akPage' = IF j.by = "page" THEN [akPage EXCEPT !.verified = TRUE] ELSE akPage
  /\ UNCHANGED <<akCustomer, akKyc, akSnap, akDocs, digitap, akHooks, photoVars, akLost>>

-----------------------------------------------------------------------------
(* The provider's webhook.                                                  *)

\* handleDigitapWebhook() up to its first await: a transaction the KYC row does not
\* name is ignored, and so is a failure of a verified customer.
handleDigitapWebhook(h) ==
  /\ h \in akHooks /\ akHooks' = akHooks \ {h}
  /\ IF akKyc.session # h.session \/ (akKyc.status = "VERIFIED" /\ akCustomer.verified /\ ~h.ok)
     THEN UNCHANGED akJobs
     ELSE StartJob(KycJob("webhook", h.session, "hook", h.ok))
  /\ UNCHANGED <<akCustomer, akKyc, akSnap, akDocs, digitap, akPage, akFace, photoVars, akLost>>

\* The success path asks the provider for the authoritative result of the session.
fetchAuthoritative(j) == digitap[j.session] = "done"

\* A success is confirmed and goes on; an unconfirmed one is only acknowledged; a
\* failure is written over both rows.
settleWebhook(j) ==
  /\ j.at = "webhook"
  /\ \/ /\ j.ok /\ fetchAuthoritative(j) /\ MoveJob(j, "document")
        /\ UNCHANGED <<akCustomer, akKyc>>
     \/ /\ j.ok /\ ~fetchAuthoritative(j) /\ EndJob(j)
        /\ UNCHANGED <<akCustomer, akKyc>>
     \/ /\ ~j.ok /\ EndJob(j)
        /\ akKyc' = [status |-> "FAILED", session |-> j.session]
        /\ akCustomer' = [akCustomer EXCEPT !.status = "FAILED"]
  /\ UNCHANGED <<akSnap, akDocs, digitap, akHooks, akPage, akFace, photoVars, akLost>>

\* The webhook's transaction, with its second look at the KYC row.
commitVerified(j) ==
  /\ j.at = "commit"
  /\ IF akKyc.status = "VERIFIED"
     THEN UNCHANGED <<akCustomer, akKyc>>
     ELSE /\ akKyc' = [status |-> "VERIFIED", session |-> j.session]
          /\ akCustomer' = [akCustomer EXCEPT !.verified = TRUE, !.status = "VERIFIED"]
  /\ MoveJob(j, "snapshot")
  /\ UNCHANGED <<akSnap, akDocs, digitap, akHooks, akPage, akFace, photoVars, akLost>>

\* The process dies with a handler under way (its database work so far stays).
crashKyc ==
  /\ akJobs # {} /\ (\A j \in akJobs : j.at \in CrashPoints) /\ akJobs' = {}
  /\ akLost < MaxKycLost /\ akLost' = akLost + 1
  /\ UNCHANGED <<akCustomer, akKyc, akSnap, akDocs, digitap, akHooks, akPage, akFace, photoVars>>

-----------------------------------------------------------------------------
(* The page while it waits, and the address that ends the step.             *)

\* getKycStatus(): what the rows say, without asking the provider.
getKycStatus == AadhaarVerified

\* The poll every five seconds while the step waits.
fetchKycStatus ==
  /\ akPage.open # 0 \/ akPage.callback \/ akCustomer.session # 0
  /\ ~akPage.verified /\ getKycStatus
  /\ akPage' = [akPage EXCEPT !.verified = TRUE]
  /\ UNCHANGED <<akCustomer, akKyc, akSnap, akDocs, digitap, akHooks, akJobs, akFace, photoVars, akLost>>

\* External: getDigitapDigilockerDetails() has details of a session, or answers DG1007.
HasDetails(s) == digitap[s] = "done" \/ (FailedDetails /\ digitap[s] = "failed")

\* refreshKycStatus(): asks the provider about the session of the customer row; any
\* details it gets are taken for a verification.
refreshKycStatus ==
  IF ~AadhaarVerified /\ akCustomer.session # 0 /\ HasDetails(akCustomer.session)
  THEN StartJob(KycJob("persist", akCustomer.session, "page", TRUE))
  ELSE UNCHANGED akJobs

\* The callback message of the window, or the refresh button.
handleRefreshKyc ==
  /\ akPage.callback /\ ~akPage.verified /\ \A j \in akJobs : j.by # "page"
  /\ refreshKycStatus
  /\ akPage' = [akPage EXCEPT !.callback = FALSE, !.verified = getKycStatus]
  /\ UNCHANGED <<akCustomer, akKyc, akSnap, akDocs, digitap, akHooks, akFace, photoVars, akLost>>

\* handleSaveAddress(): the customer completes and saves both addresses.
handleSaveAddress ==
  /\ akPage.verified /\ ~akSnap.current
  /\ akSnap' = [akSnap EXCEPT !.permanent = TRUE, !.current = TRUE]
  /\ UNCHANGED <<akCustomer, akKyc, akDocs, digitap, akHooks, akJobs, akPage, akFace, photoVars, akLost>>

-----------------------------------------------------------------------------
(* The live photograph.                                                     *)

\* handleOpenCamera() and handleCapturePhoto(): a new photograph, of a person or not.
handleCapturePhoto(t) ==
  /\ camera[t].st = "off"
  /\ \E live \in BOOLEAN : camera' = [camera EXCEPT ![t] = [st |-> "captured", live |-> live]]
  /\ UNCHANGED <<kycVars, akDocs, akFace, liveness, akLost>>

\* checkFaceLiveness(): one row per application, replaced by every check.
checkFaceLiveness(t) == liveness' = IF camera[t].live THEN "VERIFIED" ELSE "FAILED"

\* handleVerifyAndSave(), first half: the photograph is checked; one that is not live
\* ends in an error.
handleVerifyAndSave(t) ==
  /\ camera[t].st = "captured"
  /\ checkFaceLiveness(t)
  /\ camera' = [camera EXCEPT ![t].st = IF camera[t].live THEN "passed" ELSE "off"]
  /\ UNCHANGED <<kycVars, akDocs, akFace, akLost>>

\* Second half: saveCustomerLivePhoto() wants the row verified at that moment.
saveCustomerLivePhoto(t) ==
  /\ camera[t].st = "passed"
  /\ akDocs' = IF liveness = "VERIFIED"
               THEN [akDocs EXCEPT !.photo = TRUE, !.live = camera[t].live] ELSE akDocs
  /\ camera' = [camera EXCEPT ![t] = [st |-> "off", live |-> FALSE]]
  /\ UNCHANGED <<kycVars, akFace, liveness, akLost>>

-----------------------------------------------------------------------------
kycJobStep(by) == \E j \in {i \in akJobs : i.by = by} :
  \/ initiate(j) \/ initiateFails(j) \/ processAndPersistVerifiedDetails(j)
  \/ snapshotVerifiedApplicationKyc(j) \/ storeDigitapDocuments(j) \/ triggerFaceMatch(j)
  \/ settleWebhook(j) \/ commitVerified(j)

AkNext ==
  \/ handleStartDigilocker \/ (\E s \in KycSessions : finishSession(s)) \/ loseNotice
  \/ kycJobStep("page") \/ kycJobStep("hook") \/ (\E h \in akHooks : handleDigitapWebhook(h)) \/ crashKyc
  \/ fetchKycStatus \/ handleRefreshKyc \/ handleSaveAddress
  \/ \E t \in PhotoTabs : handleCapturePhoto(t) \/ handleVerifyAndSave(t) \/ saveCustomerLivePhoto(t)

\* Handlers run to their end, notices that are not lost arrive, the page polls and
\* refreshes, and the customer comes back to a step that is not finished.
AkFairness ==
  /\ WF_akVars(kycJobStep("page")) /\ WF_akVars(kycJobStep("hook")) /\ WF_akVars(fetchKycStatus) /\ WF_akVars(handleRefreshKyc)
  /\ WF_akVars(\E h \in akHooks : handleDigitapWebhook(h))
  /\ WF_akVars(handleStartDigilocker) /\ WF_akVars(handleSaveAddress)
AkSpec == AkInit /\ [][AkNext]_akVars /\ AkFairness

-----------------------------------------------------------------------------
(* A customer is verified only by a session the provider reports as done,   *)
(* and the live photograph on file passed the liveness check itself, however *)
(* the checks of two tabs overwrite the one liveness row.                    *)
VerifiedByProvider ==
  /\ akCustomer.verified => \E s \in KycSessions : digitap[s] = "done"
  /\ akDocs.photo => akDocs.live

(* A session the customer completed ends with the application's KYC snapshot *)
(* and both addresses, through the webhook, the callback or the next visit,  *)
(* whichever survives, unless a new session has taken its place.             *)
CompletedKycLeavesStep ==
  CompletedSession(akCustomer.session) ~> (akSnap.kyc /\ akSnap.current) \/ ~CompletedSession(akCustomer.session)

(* The webhook handler calls itself "Fully idempotent: VERIFIED is final".   *)
(* (A failure read before the success, or a session being opened meanwhile,  *)
(* writes over it.)                                                          *)
VerifiedIsFinal == [][akKyc.status = "VERIFIED" => akKyc'.status = "VERIFIED"]_akVars
=============================================================================
