------------------------------ MODULE ElectronicSign ------------------------------
(***************************************************************************)
(* The e-sign of the loan agreement (ElectronicSignService, EsignStep of    *)
(* PostApprovalJourneyPage): one signing row, the stored PDF and its hash,  *)
(* one-time codes, and the tabs that prepare, view, send and verify.        *)
(* Every write is by id after a read; PDF rendering and the SMS lie         *)
(* between the two.  Of the PDF only this matters: whether the file is the  *)
(* one the hash in the row is of.                                           *)
(***************************************************************************)
EXTENDS Naturals

CONSTANTS EsTabs,       \* browser tabs of the signer
          MaxResends    \* resends of one signing row (3 in the code)

ASSUME EsAssumption == MaxResends \in Nat

VARIABLES esRow,     \* the signing row
          esFile,    \* the stored file is the one the row's hash is of
          esLoan,    \* the loan's e-sign columns: reference of the signing, or NoRef
          esDocs,    \* signing whose accepted agreement and certificate are stored
          esTab      \* each tab: call under way, what it read, its code session

esVars == <<esRow, esFile, esLoan, esDocs, esTab>>

Sessions == 0..(MaxResends + 1)
Refs == {<<t, n>> : t \in EsTabs, n \in Sessions}
NoRef == <<"none", 0>>
EsStatuses == {"none", "DOCUMENT_READY", "DOCUMENT_VIEWED", "OTP_SENT", "SIGNING", "SIGNED", "FAILED"}

\* Every variable holds a value of its table or of its page.
EsTypeOK ==
  /\ esRow \in [st: EsStatuses, viewed: BOOLEAN, sess: Sessions, live: BOOLEAN]
  /\ esFile \in BOOLEAN
  /\ esLoan \in Refs \cup {NoRef}
  /\ esDocs \in Refs \cup {NoRef}
  /\ esTab \in [EsTabs -> [pc: {"idle", "rendering", "saved", "viewing", "sending", "delivering", "checked",
                                "locked", "marked", "stamping", "done"},
                           for: {"preview", "send"}, read: EsStatuses, same: BOOLEAN, viewed: BOOLEAN,
                           sess: Sessions]]

EsInit ==
  /\ esRow = [st |-> "none", viewed |-> FALSE, sess |-> 0, live |-> FALSE]
  /\ esFile = TRUE
  /\ esLoan = NoRef
  /\ esDocs = NoRef
  /\ esTab = [t \in EsTabs |-> [pc |-> "idle", for |-> "preview", read |-> "none", same |-> TRUE,
                                viewed |-> FALSE, sess |-> 0]]

\* A file written by tab t is not the one the calls under way have the hash of.
Overwritten(t) == [u \in EsTabs |-> IF u = t THEN esTab[u] ELSE [esTab[u] EXCEPT !.same = FALSE]]

-----------------------------------------------------------------------------
(* Preparing and viewing.                                                   *)

\* Opening the agreement, or asking for a code, prepares the document first: the row
\* is read; a signed one is left alone.
prepareDocument(t, for) ==
  /\ esTab[t].pc = "idle"
  /\ for = "send" => esTab[t].viewed
  /\ esTab' = [esTab EXCEPT ![t].pc = IF esRow.st = "SIGNED" THEN IF for = "send" THEN "sending" ELSE "viewing"
                                      ELSE "rendering",
                            ![t].for = for, ![t].read = esRow.st]
  /\ UNCHANGED <<esRow, esFile, esLoan, esDocs>>

\* The rendered PDF replaces the stored file, before the row is looked at again.
saveBuffer(t) ==
  /\ esTab[t].pc = "rendering"
  /\ esFile' = FALSE
  /\ esTab' = [Overwritten(t) EXCEPT ![t].pc = "saved"]
  /\ UNCHANGED <<esRow, esLoan, esDocs>>

\* A row read as being signed is refused; otherwise it is ready again, its code
\* session and its viewing kept.
documentReady(t) ==
  /\ esTab[t].pc = "saved"
  /\ \/ /\ esTab[t].read = "SIGNING"
        /\ esTab' = [esTab EXCEPT ![t].pc = "idle"]
        /\ UNCHANGED <<esRow, esFile>>
     \/ /\ esTab[t].read # "SIGNING"
        /\ esRow' = [esRow EXCEPT !.st = "DOCUMENT_READY"]
        /\ esFile' = TRUE
        /\ esTab' = [esTab EXCEPT ![t].pc = IF esTab[t].for = "send" THEN "sending" ELSE "viewing"]
  /\ UNCHANGED <<esLoan, esDocs>>

\* getOriginalDocument() renders once more unless signed, then the page marks it viewed.
markDocumentViewed(t) ==
  /\ esTab[t].pc = "viewing"
  /\ esFile' = TRUE
  /\ esTab' = [(IF esRow.st = "SIGNED" THEN esTab ELSE Overwritten(t)) EXCEPT ![t].pc = "idle", ![t].viewed = TRUE]
  /\ esRow' = IF esRow.st = "SIGNED" THEN esRow
              ELSE [esRow EXCEPT !.viewed = TRUE, !.st = IF @ = "DOCUMENT_READY" THEN "DOCUMENT_VIEWED" ELSE @]
  /\ UNCHANGED <<esLoan, esDocs>>

-----------------------------------------------------------------------------
(* The code.                                                                *)

\* sendSigningOtp() reads the row; a signed one, one never viewed and the resend limit
\* refuse.  A hash that is not the file's is corrected on the way.
sendSigningOtp(t) ==
  /\ esTab[t].pc = "sending"
  /\ LET refused == esRow.st = "SIGNED" \/ ~esRow.viewed \/ esRow.sess > MaxResends IN
     /\ esTab' = [esTab EXCEPT ![t].pc = IF refused THEN "idle" ELSE "delivering"]
     /\ esFile' = IF refused THEN esFile ELSE TRUE
  /\ UNCHANGED <<esRow, esLoan, esDocs>>

\* The code has gone out by SMS; the row gets the new session, whatever happened since.
otpSent(t) ==
  /\ esTab[t].pc = "delivering"
  /\ esRow.sess <= MaxResends          \* the bound on the sessions: two sends that read the same count
  /\ esRow' = [esRow EXCEPT !.st = "OTP_SENT", !.sess = @ + 1, !.live = TRUE]
  /\ esTab' = [esTab EXCEPT ![t].pc = "idle", ![t].sess = esRow.sess + 1]
  /\ UNCHANGED <<esFile, esLoan, esDocs>>

\* The code expires, or five wrong entries use it up.
otpDies ==
  /\ esRow.live
  /\ esRow' = [esRow EXCEPT !.live = FALSE]
  /\ UNCHANGED <<esFile, esLoan, esDocs, esTab>>

-----------------------------------------------------------------------------
(* verifyOtpAndAccept().                                                    *)

\* The row is read: signed is answered, another session or a dead code refused.
verifyOtp(t) ==
  /\ esTab[t].pc = "idle"
  /\ esTab[t].sess # 0
  /\ \/ /\ esRow.st = "SIGNED"
        /\ esTab' = [esTab EXCEPT ![t].pc = "done"]
     \/ /\ esRow.st # "SIGNED" /\ esTab[t].sess = esRow.sess /\ esRow.live
        /\ esTab' = [esTab EXCEPT ![t].pc = "checked", ![t].read = esRow.st, ![t].same = esFile]
     \/ /\ esRow.st # "SIGNED" /\ ~(esTab[t].sess = esRow.sess /\ esRow.live)
        /\ esTab' = esTab
  /\ UNCHANGED <<esRow, esFile, esLoan, esDocs>>

\* The conditional update OTP_SENT -> SIGNING; who read SIGNING passes without it.
lockSigning(t) ==
  /\ esTab[t].pc = "checked"
  /\ esRow' = IF esRow.st = "OTP_SENT" THEN [esRow EXCEPT !.st = "SIGNING"] ELSE esRow
  /\ esTab' = [esTab EXCEPT ![t].pc = IF esRow.st = "OTP_SENT" \/ esTab[t].read = "SIGNING" THEN "locked" ELSE "idle"]
  /\ UNCHANGED <<esFile, esLoan, esDocs>>

\* The file must be the one read; then the row is SIGNED, for the rendering to show it.
checkIntegrity(t) ==
  /\ esTab[t].pc = "locked"
  /\ esRow' = [esRow EXCEPT !.st = IF esTab[t].same THEN "SIGNED" ELSE "FAILED"]
  /\ esTab' = [esTab EXCEPT ![t].pc = IF esTab[t].same THEN "marked" ELSE "idle"]
  /\ UNCHANGED <<esFile, esLoan, esDocs>>

\* The loan gets the reference before the documents exist.
markLoanSigned(t) ==
  /\ esTab[t].pc = "marked"
  /\ esLoan' = <<t, esTab[t].sess>>
  /\ esTab' = [esTab EXCEPT ![t].pc = "stamping"]
  /\ UNCHANGED <<esRow, esFile, esDocs>>

\* Mutant: the last transaction leaves the loan to the earlier write.
commitRowOnly(t) ==
  /\ esTab[t].pc = "stamping"
  /\ esDocs' = <<t, esTab[t].sess>>
  /\ esRow' = [esRow EXCEPT !.st = "SIGNED"]
  /\ esTab' = [esTab EXCEPT ![t].pc = "done"]
  /\ UNCHANGED <<esFile, esLoan>>

\* The last transaction stores documents, certificate and evidence with the row, and
\* the loan's columns again.
commitSigning(t) ==
  /\ esTab[t].pc = "stamping"
  /\ esDocs' = <<t, esTab[t].sess>>
  /\ esRow' = [esRow EXCEPT !.st = "SIGNED"]
  /\ esLoan' = <<t, esTab[t].sess>>
  /\ esTab' = [esTab EXCEPT ![t].pc = "done"]
  /\ UNCHANGED esFile

-----------------------------------------------------------------------------

EsNext ==
  \/ \E t \in EsTabs :
       \/ \E for \in {"preview", "send"} : prepareDocument(t, for)
       \/ saveBuffer(t)
       \/ documentReady(t)
       \/ markDocumentViewed(t)
       \/ sendSigningOtp(t)
       \/ otpSent(t)
       \/ verifyOtp(t)
       \/ lockSigning(t)
       \/ checkIntegrity(t)
       \/ markLoanSigned(t)
       \/ commitSigning(t)
  \/ otpDies

EsSpec == EsInit /\ [][EsNext]_esVars

-----------------------------------------------------------------------------

\* Once no signing is between the loan's first write and its last transaction, the
\* reference on a signed loan is that of the agreement and certificate in store, even
\* when two tabs signed at the same time (verifyOtpAndAccept).
EvidenceMatches ==
  (\A t \in EsTabs : esTab[t].pc # "stamping") => esLoan = esDocs

\* A signed loan's row stays signed.
SignedRowStays == [][esLoan # NoRef /\ esRow.st = "SIGNED" => esRow'.st = "SIGNED"]_esVars

\* A code that is current and alive is not refused.
LiveCodeAccepted ==
  \A t \in EsTabs : esTab[t].pc = "idle" /\ esTab[t].sess # 0 /\ esTab[t].sess = esRow.sess /\ esRow.live
                    => esRow.st \in {"OTP_SENT", "SIGNING", "SIGNED"}
=============================================================================
