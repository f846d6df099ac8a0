------------------------------ MODULE PanVerification ------------------------------
(***************************************************************************)
(* PAN verification: the customer page (MyApplicationPage), verifyPan()    *)
(* with its primary and fallback provider, the OCR of a PAN card photo, and *)
(* the two rows they write: the customer and its KYC status.  A handler is  *)
(* split at its awaits, so two tabs and two customers interleave.           *)
(***************************************************************************)
EXTENDS Naturals, FiniteSets

CONSTANTS Holders,  \* customers
          PanTabs,     \* browser tabs of one customer
          Pans,     \* PAN numbers
          NoPan

ASSUME PanAssumption == NoPan \notin Pans

VARIABLES panCustomer, \* customer row: number, verified flag, name on file
          panKyc,      \* KYC row: pan status and what panApiResponse holds
          panCall,     \* the verifyPan() call each tab has under way
          panPage,     \* what each tab shows
          panTruth     \* pairs <<customer, pan>> some provider called valid

panVars == <<panCustomer, panKyc, panCall, panPage, panTruth>>

PanStatus == {"NONE", "INITIATED", "VERIFIED", "FAILED"}
PanAnswers == {"none", "verified", "already", "conflict", "noName", "error"}
IdleCall == [st |-> "idle", pan |-> NoPan, named |-> FALSE, ans |-> "none", scanned |-> FALSE]

\* Every variable holds a value of its table or of its page.
PanTypeOK ==
  /\ panCustomer \in [Holders -> [pan: Pans \cup {NoPan}, verified: BOOLEAN, name: BOOLEAN]]
  /\ panKyc \in [Holders -> [status: PanStatus, reply: {"null", "ocr", "primary", "zoop", "error"}]]
  /\ panCall \in [Holders \X PanTabs ->
        [st: {"idle", "check", "mark", "primary", "fallback", "save", "fail", "answered"},
         pan: Pans \cup {NoPan}, named: BOOLEAN, ans: PanAnswers, scanned: BOOLEAN]]
  /\ panPage \in [Holders \X PanTabs -> {"open", "waiting", "verified", "invalid"}]
  /\ panTruth \subseteq Holders \X Pans

PanInit ==
  /\ panCustomer = [c \in Holders |-> [pan |-> NoPan, verified |-> FALSE, name |-> FALSE]]
  /\ panKyc = [c \in Holders |-> [status |-> "NONE", reply |-> "null"]]
  /\ panCall = [k \in Holders \X PanTabs |-> IdleCall]
  /\ panPage = [k \in Holders \X PanTabs |-> "open"]
  /\ panTruth = {}

-----------------------------------------------------------------------------
(* The page.                                                                *)

\* savePanOcrLog(): the answer of the OCR service becomes panApiResponse.
savePanOcrLog(c, reply) == panKyc' = [panKyc EXCEPT ![c].reply = reply]

\* The scan of a PAN card: a readable one leaves its name in the KYC row.
processPanOcr(c, readable) ==
  savePanOcrLog(c, IF readable THEN "ocr" ELSE "error")

\* The customer photographs or picks a card; the form is filled with what was read.
handlePanOcrFile(c) ==
  /\ \E t \in PanTabs : panPage[<<c, t>>] = "open"
  /\ \E readable \in BOOLEAN : processPanOcr(c, readable)
  /\ UNCHANGED <<panCustomer, panCall, panPage, panTruth>>

\* The customer submits a PAN; the form may or may not hold a name by then.
handleVerifyPan(c, t) ==
  /\ panPage[<<c, t>>] \in {"open", "invalid"}
  /\ panCall[<<c, t>>].st = "idle"
  /\ panPage' = [panPage EXCEPT ![<<c, t>>] = "waiting"]
  /\ \E p \in Pans, named \in BOOLEAN :
        panCall' = [panCall EXCEPT ![<<c, t>>] =
                      [IdleCall EXCEPT !.st = "check", !.pan = p, !.named = named,
                                       !.scanned = panKyc[c].reply = "ocr"]]
  /\ UNCHANGED <<panCustomer, panKyc, panTruth>>

-----------------------------------------------------------------------------
(* verifyPan().                                                             *)

PanAnswer(k, a) == [panCall EXCEPT ![k].st = "answered", ![k].ans = a]

\* The reads before the providers are asked: this PAN already verified for the
\* customer, or linked to another one.
checkPan(c, t) ==
  LET k == <<c, t>> IN
  /\ panCall[k].st = "check"
  /\ panCall' =
       IF panCustomer[c].verified /\ panCustomer[c].pan = panCall[k].pan
       THEN PanAnswer(k, "already")
       ELSE IF \E d \in Holders \ {c} : panCustomer[d].pan = panCall[k].pan
            THEN PanAnswer(k, "conflict")
            ELSE [panCall EXCEPT ![k].st = "mark", ![k].named = @ \/ panCustomer[c].name]
  /\ UNCHANGED <<panCustomer, panKyc, panPage, panTruth>>

\* markPanInitiated(): the status restarts and the stored answer is cleared.
markPanInitiated(c, t) ==
  LET k == <<c, t>> IN
  /\ panCall[k].st = "mark"
  /\ panKyc' = [panKyc EXCEPT ![c] = [status |-> "INITIATED", reply |-> "null"]]
  /\ panCall' = [panCall EXCEPT ![k].st = "primary"]
  /\ UNCHANGED <<panCustomer, panPage, panTruth>>

\* Finanalyz: valid with a name, or anything else (which may still carry a name).
callFinanalyz(c, t) ==
  LET k == <<c, t>> IN
  /\ panCall[k].st = "primary"
  /\ \/ /\ panTruth' = panTruth \cup {<<c, panCall[k].pan>>}
        /\ panCall' = [panCall EXCEPT ![k].st = "save"]
     \/ /\ \E named \in BOOLEAN :
             panCall' = [panCall EXCEPT ![k].st = "fallback", ![k].named = @ \/ named]
        /\ UNCHANGED panTruth
  /\ UNCHANGED <<panCustomer, panKyc, panPage>>

\* Mutant: the fallback's answer is not looked at.
callZoopPanTrusting(c, t) ==
  LET k == <<c, t>> IN
  /\ panCall[k].st = "fallback"
  /\ panCall' = [panCall EXCEPT ![k].st = "save"]
  /\ UNCHANGED <<panCustomer, panKyc, panPage, panTruth>>

\* The fallback needs a name: the one known so far, or the one in the stored OCR answer.
callZoopPan(c, t) ==
  LET k == <<c, t>> IN
  /\ panCall[k].st = "fallback"
  /\ IF ~panCall[k].named /\ panKyc[c].reply # "ocr"
     THEN /\ panCall' = [panCall EXCEPT ![k].st = "fail", ![k].ans = "noName"]
          /\ UNCHANGED panTruth
     ELSE \/ /\ panTruth' = panTruth \cup {<<c, panCall[k].pan>>}
             /\ panCall' = [panCall EXCEPT ![k].st = "save"]
          \/ /\ panCall' = [panCall EXCEPT ![k].st = "fail", ![k].ans = "error"]
             /\ UNCHANGED panTruth
  /\ UNCHANGED <<panCustomer, panKyc, panPage>>

\* customer.panNumber is unique in the database.
UniquePan(c, p) == \A d \in Holders \ {c} : panCustomer[d].pan # p

\* saveVerifiedPan(): one transaction over both rows, refused as a whole by the index.
saveVerifiedPan(c, t) ==
  LET k == <<c, t>>
      p == panCall[k].pan IN
  /\ panCall[k].st = "save"
  /\ IF UniquePan(c, p)
     THEN /\ panCustomer' = [panCustomer EXCEPT ![c] = [pan |-> p, verified |-> TRUE, name |-> TRUE]]
          /\ panKyc' = [panKyc EXCEPT ![c] = [status |-> "VERIFIED", reply |-> "primary"]]
          /\ panCall' = PanAnswer(k, "verified")
     ELSE /\ panCall' = PanAnswer(k, "error")
          /\ UNCHANGED <<panCustomer, panKyc>>
  /\ UNCHANGED <<panPage, panTruth>>

\* markPanFailed(): the KYC row fails, whatever the customer row says by then.
markPanFailed(c, t) ==
  LET k == <<c, t>> IN
  /\ panCall[k].st = "fail"
  /\ panKyc' = [panKyc EXCEPT ![c] = [status |-> "FAILED", reply |-> "error"]]
  /\ panCall' = [panCall EXCEPT ![k].st = "answered"]
  /\ UNCHANGED <<panCustomer, panPage, panTruth>>

\* What the page makes of an answer: only one that carries the verification details counts.
extractPanVerificationPayload(a) == IF a = "verified" THEN "verified" ELSE "invalid"

\* The answer reaches the tab, or is lost on the way and the tab shows an error.
showPanAnswer(c, t) ==
  LET k == <<c, t>> IN
  /\ panCall[k].st = "answered"
  /\ panPage' = [panPage EXCEPT ![k] = extractPanVerificationPayload(panCall[k].ans)]
  /\ panCall' = [panCall EXCEPT ![k] = IdleCall]
  /\ UNCHANGED <<panCustomer, panKyc, panTruth>>

\* A reload: mapCustomerToForm() shows the customer row again.
mapCustomerToForm(c, t) ==
  LET k == <<c, t>> IN
  /\ panCall[k].st = "idle" /\ panPage[k] # "waiting"
  /\ panPage' = [panPage EXCEPT ![k] = IF panCustomer[c].verified THEN "verified" ELSE "open"]
  /\ UNCHANGED <<panCustomer, panKyc, panCall, panTruth>>

panServerStep(c, t) ==
  \/ checkPan(c, t) \/ markPanInitiated(c, t) \/ callFinanalyz(c, t) \/ callZoopPan(c, t)
  \/ saveVerifiedPan(c, t) \/ markPanFailed(c, t) \/ showPanAnswer(c, t)

PanNext ==
  \/ \E c \in Holders : handlePanOcrFile(c)
  \/ \E c \in Holders, t \in PanTabs :
        handleVerifyPan(c, t) \/ panServerStep(c, t) \/ mapCustomerToForm(c, t)

\* The server finishes what it began: every provider call has a time-out.
PanFairness == \A c \in Holders, t \in PanTabs : WF_panVars(panServerStep(c, t))
PanSpec == PanInit /\ [][PanNext]_panVars /\ PanFairness

-----------------------------------------------------------------------------
(* Two customers that submit one PAN at once both pass the check of the     *)
(* customer table; only one of them ends up with the number, and whoever    *)
(* has a verified number has had that number confirmed by a provider.       *)
OnePanOneHolder ==
  /\ \A c, d \in Holders : c # d /\ panCustomer[c].pan # NoPan => panCustomer[c].pan # panCustomer[d].pan
  /\ \A c \in Holders : panCustomer[c].verified => <<c, panCustomer[c].pan>> \in panTruth

(* verifyPan() says that with no other name it will "check OCR log from     *)
(* previous PAN card photo scan": a call that began with a scanned card on  *)
(* file is not refused for want of a name.  (It is: markPanInitiated() has  *)
(* cleared the answer that held it.)                                        *)
OcrNameUsed == \A k \in Holders \X PanTabs : panCall[k].scanned => panCall[k].ans # "noName"

(* A second verification of a verified PAN is answered "PAN is already      *)
(* verified", and the page shows a verified number.  (It shows an error: the *)
(* answer carries no verification details.)                                 *)
RepeatAccepted ==
  [][\A k \in Holders \X PanTabs :
        panCall[k].ans = "already" /\ panCall[k].st = "answered" /\ panPage'[k] # panPage[k]
          => panPage'[k] = "verified"]_panVars

(* The status a reviewer reads agrees with the customer row: a number that   *)
(* was verified and not resubmitted stays verified.  (A second tab's failed  *)
(* call overwrites it.)                                                      *)
PanStatusAgrees ==
  \A c \in Holders : (\A t \in PanTabs : panCall[<<c, t>>].st = "idle")
                        /\ panCustomer[c].verified => panKyc[c].status = "VERIFIED"
=============================================================================
