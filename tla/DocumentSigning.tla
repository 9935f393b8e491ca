--------------------------- MODULE DocumentSigning ---------------------------
(***************************************************************************)
(* Drafting and signing a document: the ComplianceWorkflow widget with its *)
(* hooks and the signature overlay, the compliance gateway, the PDF        *)
(* generator and the eSign responder behind NATS requests, the object      *)
(* store and the documents table.                                          *)
(*                                                                         *)
(* A request outlives whoever waits for it: the browser's fetch is cut     *)
(* while the gateway goes on, the gateway gives up on a responder that     *)
(* goes on, the widget is reset under a request that still comes back.     *)
(* What becomes of the event a signature hands to the broker client is     *)
(* TransferPipeline's.  Documents are numbered in the order their drafts   *)
(* are asked for, signings in the order they are submitted; a stored PDF   *)
(* is the number of the signing that made it.                              *)
(***************************************************************************)
EXTENDS Naturals, Sequences

CONSTANTS
  MaxDrafts,   \* bound: drafts asked for
  MaxSignings  \* bound: signatures submitted

Document == 1..MaxDrafts
Signing == 1..MaxSignings

ASSUME BoundsType == MaxDrafts \in Nat /\ MaxSignings \in Nat

VARIABLES
  pdf,          \* pdfBlobUrl: a document and whether the PDF is the signed one
  unsigned,     \* unsignedDocumentData: the document a signature will go to
  overlay,      \* showSignatureOverlay
  submitting,   \* localSubmitting: the signing this overlay waits for, 0 if none
  isSigning, isSigned,
  draft,        \* the draft request in flight, its document and stage
  asked,        \* drafts asked for so far
  drafts,       \* documents under compliance/drafts in the object store
  signings,     \* every submitted signature: its document and where it stands with
                \* responder, gateway and browser
  object,       \* the signed PDF stored for each document, 0 if none
  row           \* the signing whose hash the document's row holds, 0 if no row

widget == <<pdf, unsigned, overlay, submitting, isSigning, isSigned>>
drafting == <<draft, asked, drafts>>
records == <<object, row>>
vars == <<widget, drafting, signings, records>>

NoPdf == [document |-> 0, signed |-> FALSE]
NoDraft == [document |-> 0, stage |-> "none"]
Shows(d, signed) == [document |-> d, signed |-> signed]

Init ==
  /\ pdf = NoPdf
  /\ unsigned = 0
  /\ overlay = FALSE
  /\ submitting = 0
  /\ isSigning = FALSE
  /\ isSigned = FALSE
  /\ draft = NoDraft
  /\ asked = 0
  /\ drafts = {}
  /\ signings = << >>
  /\ object = [d \in Document |-> 0]
  /\ row = [d \in Document |-> 0]

-----------------------------------------------------------------------------
(***************************************************************************)
(* The widget.                                                             *)
(***************************************************************************)

(***************************************************************************)
(* The host selects another template: the effect resets the view and the   *)
(* signing state.  Neither request in flight is aborted, and               *)
(* unsignedDocumentData stays.                                             *)
(***************************************************************************)
SelectTemplate ==
  /\ pdf' = NoPdf
  /\ overlay' = FALSE
  /\ submitting' = 0
  /\ isSigning' = FALSE
  /\ isSigned' = FALSE
  /\ UNCHANGED <<unsigned, drafting, signings, records>>

(***************************************************************************)
(* The button is covered by the overlay and not disabled: without a PDF    *)
(* the overlay is unmounted with its localSubmitting, showSignatureOverlay *)
(* stays.                                                                  *)
(***************************************************************************)
BackToInteractiveView ==
  /\ pdf # NoPdf
  /\ pdf' = NoPdf
  /\ submitting' = 0
  /\ UNCHANGED <<unsigned, overlay, isSigning, isSigned,
                 drafting, signings, records>>

OverlayShown == overlay /\ pdf # NoPdf

(***************************************************************************)
(* generatePdf; the button is disabled while one is loading.               *)
(***************************************************************************)
GeneratePdf ==
  /\ pdf = NoPdf
  /\ draft = NoDraft
  /\ asked < MaxDrafts
  /\ asked' = asked + 1
  /\ draft' = [document |-> asked + 1, stage |-> "requested"]
  /\ UNCHANGED <<widget, drafts, signings, records>>

OpenOverlay ==
  /\ pdf # NoPdf
  /\ ~ isSigned /\ ~ overlay
  /\ overlay' = TRUE
  /\ submitting' = 0
  /\ UNCHANGED <<pdf, unsigned, isSigning, isSigned,
                 drafting, signings, records>>

(***************************************************************************)
(* Mutant: the overlay relies on the hook's isSigning alone.               *)
(***************************************************************************)
OnlyIsSigning == isSigning

Submitting == isSigning \/ submitting # 0

CancelOverlay ==
  /\ OverlayShown
  /\ ~ Submitting
  /\ overlay' = FALSE
  /\ UNCHANGED <<pdf, unsigned, submitting, isSigning, isSigned,
                 drafting, signings, records>>

(***************************************************************************)
(* handleSubmit, handleSign and signPdf: the request leaves for the        *)
(* gateway, which passes it on to the eSign responder at once.             *)
(***************************************************************************)
SubmitSignature ==
  /\ OverlayShown
  /\ ~ Submitting
  /\ Len(signings) < MaxSignings
  /\ signings' = Append(signings, [document |-> unsigned, esign |-> "queued",
                                   gateway |-> "waiting", browser |-> "waiting"])
  /\ submitting' = Len(signings) + 1
  /\ isSigning' = TRUE
  /\ UNCHANGED <<pdf, unsigned, overlay, isSigned, drafting, records>>

-----------------------------------------------------------------------------
(***************************************************************************)
(* The draft's way: template lookup and payload pipeline, PDF generator,   *)
(* object store, download.                                                 *)
(***************************************************************************)
Stage(s) == draft' = [draft EXCEPT !.stage = s]

(***************************************************************************)
(* The PDF responder renders the HTML and uploads the draft.               *)
(***************************************************************************)
RenderDraft ==
  /\ draft.stage = "requested"
  /\ drafts' = drafts \union {draft.document}
  /\ Stage("rendered")
  /\ UNCHANGED <<widget, asked, signings, records>>

(***************************************************************************)
(* Mutant: the URL is answered before the PDF is stored.                   *)
(***************************************************************************)
AnswersUnrendered ==
  /\ draft.stage = "requested"
  /\ Stage("answered")
  /\ UNCHANGED <<widget, asked, drafts, signings, records>>

AnswerDraft ==
  /\ draft.stage = "rendered"
  /\ Stage("answered")
  /\ UNCHANGED <<widget, asked, drafts, signings, records>>

(***************************************************************************)
(* The PDF is downloaded and shown, whichever template is selected by now. *)
(***************************************************************************)
ShowDraft ==
  /\ draft.stage = "answered"
  /\ pdf' = Shows(draft.document, FALSE)
  /\ unsigned' = draft.document
  /\ draft' = NoDraft
  /\ UNCHANGED <<overlay, submitting, isSigning, isSigned,
                 asked, drafts, signings, records>>

(***************************************************************************)
(* 404, 400, 500 after the generator failed or took longer than 15         *)
(* seconds, a rejected fetch, or no download.  What the generator may      *)
(* still store goes under an id nobody will ask for.                       *)
(***************************************************************************)
DraftFails ==
  /\ draft # NoDraft
  /\ draft' = NoDraft
  /\ UNCHANGED <<widget, asked, drafts, signings, records>>

-----------------------------------------------------------------------------
(***************************************************************************)
(* The signature's way.                                                    *)
(***************************************************************************)
Of(k) == signings[k].document

(***************************************************************************)
(* EventBroker.respond handles one request at a time, in the order they    *)
(* reach it: requests sent one after the other may overtake each other.    *)
(* The responder reads the draft, signs it and uploads it under the key of *)
(* the document, over a PDF that is there.  "failed" is a reply that does  *)
(* not reach the gateway.                                                  *)
(***************************************************************************)
SignDraft(k) ==
  /\ signings[k].esign = "queued"
  /\ Of(k) \in drafts
  /\ object' = [object EXCEPT ![Of(k)] = k]
  /\ \E reply \in {"signed", "failed"} :
       signings' = [signings EXCEPT ![k].esign = reply]
  /\ UNCHANGED <<widget, drafting, row>>

(***************************************************************************)
(* The handler throws and an error is the reply, or the pod dies and there *)
(* is none: a core NATS request is not sent again.                         *)
(***************************************************************************)
SignDraftFails(k) ==
  /\ signings[k].esign = "queued"
  /\ signings' = [signings EXCEPT ![k].esign = "failed"]
  /\ UNCHANGED <<widget, drafting, records>>

(***************************************************************************)
(* Mutant: ON CONFLICT DO NOTHING.                                         *)
(***************************************************************************)
KeepsFirstRow(k) ==
  /\ signings[k].gateway = "waiting"
  /\ signings[k].esign = "signed"
  /\ row' = [row EXCEPT ![Of(k)] = IF @ = 0 THEN k ELSE @]
  /\ signings' = [signings EXCEPT ![k].gateway = "recorded"]
  /\ UNCHANGED <<widget, drafting, object>>

(***************************************************************************)
(* signDocument gets the reply in time and upserts the row, whoever wrote  *)
(* it before.                                                              *)
(***************************************************************************)
RecordSigning(k) ==
  /\ signings[k].gateway = "waiting"
  /\ signings[k].esign = "signed"
  /\ row' = [row EXCEPT ![Of(k)] = k]
  /\ signings' = [signings EXCEPT ![k].gateway = "recorded"]
  /\ UNCHANGED <<widget, drafting, object>>

(***************************************************************************)
(* Mutant: the answer does not wait for the upsert.                        *)
(***************************************************************************)
AnswersEarly(k) ==
  /\ signings[k].gateway = "waiting"
  /\ signings[k].esign = "signed"
  /\ signings' = [signings EXCEPT ![k].gateway = "answered"]
  /\ UNCHANGED <<widget, drafting, records>>

(***************************************************************************)
(* 200: the event has been handed to the broker client, whose publication  *)
(* nobody waits for.                                                       *)
(***************************************************************************)
AnswerSigning(k) ==
  /\ signings[k].gateway = "recorded"
  /\ signings' = [signings EXCEPT ![k].gateway = "answered"]
  /\ UNCHANGED <<widget, drafting, records>>

(***************************************************************************)
(* Mutant: nothing ends a request that gets no reply.                      *)
(***************************************************************************)
WaitsForReply(k) ==
  /\ \/ signings[k].gateway = "waiting" /\ signings[k].esign = "signed"
     \/ signings[k].gateway = "recorded"
  /\ signings' = [signings EXCEPT ![k].gateway = "failed"]
  /\ UNCHANGED <<widget, drafting, records>>

(***************************************************************************)
(* 500: an error reply, no reply within 10 seconds, no database, or a row  *)
(* that does not parse as the event's data; or the server ends.            *)
(***************************************************************************)
GiveUp(k) ==
  /\ signings[k].gateway \in {"waiting", "recorded"}
  /\ signings' = [signings EXCEPT ![k].gateway = "failed"]
  /\ UNCHANGED <<widget, drafting, records>>

(***************************************************************************)
(* signPdf and handleSubmit end; localSubmitting belongs to the overlay    *)
(* that submitted, isSigning to the widget.                                *)
(***************************************************************************)
SigningEnds(k) ==
  /\ isSigning' = FALSE
  /\ submitting' = IF submitting = k THEN 0 ELSE submitting

(***************************************************************************)
(* Mutant: onSuccess leaves the overlay open.                              *)
(***************************************************************************)
LeavesOverlay(k) ==
  /\ signings[k].browser = "waiting"
  /\ signings[k].gateway = "answered"
  /\ signings' = [signings EXCEPT ![k].browser = "done"]
  /\ pdf' = Shows(Of(k), TRUE)
  /\ isSigned' = TRUE
  /\ SigningEnds(k)
  /\ UNCHANGED <<unsigned, overlay, drafting, records>>

ShowSigned(k) ==
  /\ signings[k].browser = "waiting"
  /\ signings[k].gateway = "answered"
  /\ signings' = [signings EXCEPT ![k].browser = "done"]
  /\ pdf' = Shows(Of(k), TRUE)
  /\ overlay' = FALSE
  /\ isSigned' = TRUE
  /\ SigningEnds(k)
  /\ UNCHANGED <<unsigned, drafting, records>>

(***************************************************************************)
(* The answer is an error or lost with the server, or the signed PDF       *)
(* cannot be downloaded.  The overlay stays for another try.               *)
(***************************************************************************)
SigningFails(k) ==
  /\ signings[k].browser = "waiting"
  /\ signings[k].gateway \in {"answered", "failed"}
  /\ signings' = [signings EXCEPT ![k].browser = "done"]
  /\ SigningEnds(k)
  /\ UNCHANGED <<pdf, unsigned, overlay, isSigned, drafting, records>>

(***************************************************************************)
(* The fetch is rejected while the gateway still works on the request,     *)
(* which is not told: network or proxy dropped the connection.             *)
(***************************************************************************)
FetchFails(k) ==
  /\ signings[k].browser = "waiting"
  /\ signings[k].gateway \in {"waiting", "recorded"}
  /\ signings' = [signings EXCEPT ![k].browser = "cut"]
  /\ SigningEnds(k)
  /\ UNCHANGED <<pdf, unsigned, overlay, isSigned, drafting, records>>

Submitted == 1..Len(signings)

Serve(k) ==
  \/ SignDraft(k) \/ SignDraftFails(k)
  \/ RecordSigning(k) \/ AnswerSigning(k) \/ GiveUp(k)
  \/ ShowSigned(k) \/ SigningFails(k)

ServeDraft == RenderDraft \/ AnswerDraft \/ ShowDraft \/ DraftFails

Next ==
  \/ SelectTemplate \/ BackToInteractiveView \/ GeneratePdf
  \/ OpenOverlay \/ CancelOverlay \/ SubmitSignature
  \/ ServeDraft
  \/ \E k \in Submitted : Serve(k) \/ FetchFails(k)

(***************************************************************************)
(* The gateway's timeouts end what the responders leave open; the user     *)
(* need not do anything, no connection need drop.                          *)
(***************************************************************************)
Fairness ==
  /\ WF_vars(ServeDraft)
  /\ \A k \in Signing : WF_vars(k \in Submitted /\ Serve(k))

Spec == Init /\ [][Next]_vars /\ Fairness

-----------------------------------------------------------------------------
(***************************************************************************)
(* Type invariant.                                                         *)
(***************************************************************************)
SigningTypeOK ==
  /\ pdf \in [document : 0..asked, signed : BOOLEAN]
  /\ unsigned \in 0..asked
  /\ overlay \in BOOLEAN /\ isSigning \in BOOLEAN /\ isSigned \in BOOLEAN
  /\ submitting \in 0..Len(signings)
  /\ draft \in [document : 0..asked,
                stage : {"none", "requested", "rendered", "answered"}]
  /\ asked \in 0..MaxDrafts
  /\ drafts \subseteq 1..asked
  /\ signings \in Seq([document : drafts,
                       esign : {"queued", "signed", "failed"},
                       gateway : {"waiting", "recorded", "answered", "failed"},
                       browser : {"waiting", "done", "cut"}])
  /\ row \in [Document -> 0..Len(signings)] /\ object \in [Document -> 0..Len(signings)]

(***************************************************************************)
(* What you see is what you sign: whenever a signature can be submitted,   *)
(* the PDF on the screen is the unsigned draft of the very document the    *)
(* signature will go to, however late answers and template changes fell.   *)
(***************************************************************************)
WhatYouSeeIsWhatYouSign ==
  OverlayShown => unsigned # 0 /\ pdf = Shows(unsigned, FALSE)

(***************************************************************************)
(* The browser never has two signatures of one document under way, though  *)
(* a template change clears isSigning under a request that still runs and  *)
(* an old request clears it under a new one.                               *)
(***************************************************************************)
OneSignatureAtATime ==
  \A j, k \in Submitted :
    (/\ Of(j) = Of(k)
     /\ signings[j].browser = "waiting"
     /\ signings[k].browser = "waiting") => j = k

(***************************************************************************)
(* A signed PDF on the screen has its row, with the hash of a PDF that was *)
(* stored, and a signing of its document went all the way through the      *)
(* gateway, which hands the event to the broker client before it answers.  *)
(* The event may still be on its way, or lost.                             *)
(***************************************************************************)
SignedMeansRecorded ==
  pdf.signed =>
    /\ isSigned
    /\ row[pdf.document] \in Submitted
    /\ signings[row[pdf.document]].esign = "signed"
    /\ \E k \in Submitted : Of(k) = pdf.document /\ signings[k].gateway = "answered"

(***************************************************************************)
(* The row and the stored PDF of a document part only by the signing that  *)
(* stored the PDF, while the gateway waits for it or because it gave up on *)
(* it, or by one whose fetch was cut: it may upsert the row after the      *)
(* signing that was submitted in its place.  Signings the browser waited   *)
(* for leave the row with the hash of the PDF they stored.                 *)
(***************************************************************************)
RowMatchesObject ==
  \A d \in Document :
    row[d] # object[d] =>
      \E k \in Submitted \cap {row[d], object[d]} :
        \/ k = object[d] /\ signings[k].gateway \in {"waiting", "failed"}
        \/ signings[k].browser = "cut"

(***************************************************************************)
(* Every submitted signature comes to an end in the browser, also when the *)
(* responder dies with the request and when no connection ever drops.      *)
(***************************************************************************)
EverySignatureEnds ==
  \A k \in Signing :
    k <= Len(signings) ~> k <= Len(signings) /\ signings[k].browser # "waiting"

=============================================================================
