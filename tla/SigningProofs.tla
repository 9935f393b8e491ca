----------------------------- MODULE SigningProofs -----------------------------
(***************************************************************************)
(* Proofs about DocumentSigning: for any number of drafts and signatures,  *)
(* answers as late as may be and connections cut at any time.              *)
(***************************************************************************)
EXTENDS DocumentSigning, SequenceTheorems, TLAPS

(***************************************************************************)
(* The draft asked for last is the only one under way, and new: nothing    *)
(* shows it and nobody signed it yet.                                      *)
(***************************************************************************)
DraftOK ==
  IF draft.stage = "none" THEN draft = NoDraft
  ELSE /\ draft.document = asked
       /\ asked # 0
       /\ draft.stage \in {"rendered", "answered"} => asked \in drafts
       /\ unsigned < asked
       /\ \A k \in Submitted : Of(k) < asked

Answered(d) == \E k \in Submitted : Of(k) = d /\ signings[k].gateway = "answered"

(***************************************************************************)
(* What is on the screen: a signed PDF, or the draft a signature goes to.  *)
(* An overlay left behind by BackToInteractiveView waits for the latter.   *)
(***************************************************************************)
ScreenOK ==
  /\ unsigned # 0 => unsigned \in drafts
  /\ pdf.document = 0 => pdf = NoPdf
  /\ pdf # NoPdf => IF pdf.signed
                      THEN isSigned /\ row[pdf.document] # 0 /\ Answered(pdf.document)
                      ELSE unsigned # 0 /\ pdf = Shows(unsigned, FALSE)
  /\ overlay => ~ isSigned

(***************************************************************************)
(* A signature of the draft on the screen keeps its overlay open and the   *)
(* button disabled until it ends in the browser; only then can the next    *)
(* one of the document be submitted.                                       *)
(***************************************************************************)
WaitingOK ==
  /\ \A k \in Submitted :
       (signings[k].browser = "waiting" /\ pdf = Shows(Of(k), FALSE)) => overlay /\ submitting = k
  /\ \A j, k \in Submitted : j < k /\ Of(j) = Of(k) => signings[j].browser # "waiting"

(***************************************************************************)
(* A signature on its way through responder and gateway, and what it left. *)
(* Only a fetch that was cut ends before the gateway does.                 *)
(***************************************************************************)
SigningOK(k) ==
  /\ signings[k].gateway \in {"waiting", "recorded"} => signings[k].browser # "done"
  /\ signings[k].gateway \in {"recorded", "answered"} =>
       signings[k].esign = "signed" /\ row[Of(k)] # 0
  /\ signings[k].esign = "signed" => object[Of(k)] # 0

(***************************************************************************)
(* Nothing the gateway will answer while the browser waits.                *)
(***************************************************************************)
Abandoned(k) == signings[k].browser = "cut" \/ signings[k].gateway = "failed"

(***************************************************************************)
(* The stored PDF is an earlier signing's than one already signed only if  *)
(* that earlier signing was abandoned: it overtook nobody the browser      *)
(* waited for.                                                             *)
(***************************************************************************)
StoreOK(d) ==
  /\ row[d] # 0 => signings[row[d]].esign = "signed"
  /\ object[d] # 0 =>
       /\ Of(object[d]) = d
       /\ \A k \in Submitted :
            (Of(k) = d /\ object[d] < k /\ signings[k].esign = "signed") => Abandoned(object[d])

IInv ==
  /\ SigningTypeOK
  /\ DraftOK
  /\ ScreenOK
  /\ WaitingOK
  /\ \A k \in Submitted : SigningOK(k)
  /\ \A d \in Document : StoreOK(d)
  /\ RowMatchesObject

Record ==
  [document : drafts,
   esign : {"queued", "signed", "failed"},
   gateway : {"waiting", "recorded", "answered", "failed"},
   browser : {"waiting", "done", "cut"}]

LEMMA Types ==
  ASSUME IInv
  PROVE  /\ asked \in Nat /\ asked <= MaxDrafts /\ MaxDrafts \in Nat
         /\ unsigned \in Nat /\ unsigned <= asked
         /\ drafts \subseteq 1..asked /\ drafts \subseteq Document
         /\ signings \in Seq(Record) /\ Len(signings) \in Nat
         /\ \A k \in Submitted : signings[k] \in Record /\ Of(k) \in drafts /\ k \in Nat /\ k > 0
         /\ row \in [Document -> 0..Len(signings)]
         /\ object \in [Document -> 0..Len(signings)]
         /\ pdf \in [document : 0..asked, signed : BOOLEAN]
<1>1. SigningTypeOK
  BY DEF IInv
<1>2. asked \in Nat /\ asked <= MaxDrafts /\ MaxDrafts \in Nat
  BY <1>1, BoundsType DEF SigningTypeOK
<1>3. signings \in Seq(Record)
  BY <1>1 DEF SigningTypeOK, Record
<1>4. Len(signings) \in Nat
  BY <1>3, LenProperties
<1>5. \A k \in Submitted : signings[k] \in Record /\ k \in Nat /\ k > 0
  BY <1>3, <1>4, ElementOfSeq DEF Submitted
<1>6. \A k \in Submitted : Of(k) \in drafts
  BY <1>5 DEF Record, Of
<1>7. drafts \subseteq 1..asked /\ drafts \subseteq Document
  BY <1>1, <1>2 DEF SigningTypeOK, Document
<1>. QED BY <1>1, <1>2, <1>3, <1>4, <1>5, <1>6, <1>7 DEF SigningTypeOK

(***************************************************************************)
(* One field of one signature changes.                                     *)
(***************************************************************************)
LEMMA OneChanges ==
  ASSUME signings \in Seq(Record), NEW k \in Submitted, NEW r \in Record,
         signings' = [signings EXCEPT ![k] = r], UNCHANGED drafts
  PROVE  /\ signings' \in Seq(Record)'
         /\ Len(signings') = Len(signings) /\ Submitted' = Submitted
         /\ signings'[k] = r
         /\ \A j \in Submitted : j # k => signings'[j] = signings[j]
<1>1. Record' = Record
  BY DEF Record
<1>2. k \in 1..Len(signings)
  BY DEF Submitted
<1>3. /\ signings' \in Seq(Record)
      /\ Len(signings') = Len(signings)
      /\ \A j \in 1..Len(signings) : signings'[j] = IF j = k THEN r ELSE signings[j]
  BY <1>2, ExceptSeq
<1>. QED BY <1>1, <1>2, <1>3 DEF Submitted

LEMMA InvariantInit ==
  ASSUME Init
  PROVE  IInv
<1>1. Len(signings) = 0 /\ Submitted = {} /\ signings = << >>
  BY DEF Init, Submitted
<1>2. signings \in Seq(Record)
  BY <1>1
<1>3. MaxDrafts \in Nat /\ asked = 0
  BY BoundsType DEF Init
<1>4. SigningTypeOK
  <2>1. /\ pdf \in [document : 0..asked, signed : BOOLEAN]
        /\ draft \in [document : 0..asked,
                      stage : {"none", "requested", "rendered", "answered"}]
    BY <1>3 DEF Init, NoPdf, NoDraft
  <2>2. /\ unsigned \in 0..asked /\ submitting \in 0..Len(signings)
        /\ asked \in 0..MaxDrafts /\ drafts \subseteq 1..asked
    BY <1>1, <1>3 DEF Init
  <2>3. row \in [Document -> 0..Len(signings)] /\ object \in [Document -> 0..Len(signings)]
    BY <1>1 DEF Init
  <2>. QED BY <1>2, <2>1, <2>2, <2>3 DEF Init, SigningTypeOK, Record
<1>. QED BY <1>1, <1>4 DEF Init, IInv, DraftOK, ScreenOK, WaitingOK, StoreOK, RowMatchesObject,
                          NoPdf, NoDraft, Document

-----------------------------------------------------------------------------
(***************************************************************************)
(* The widget.                                                             *)
(***************************************************************************)

(***************************************************************************)
(* What a step of the widget leaves alone.                                 *)
(***************************************************************************)
LEMMA RecordsKept ==
  ASSUME IInv, UNCHANGED <<unsigned, drafting, signings, records>>
  PROVE  /\ DraftOK'
         /\ \A k \in Submitted' : SigningOK(k)'
         /\ \A d \in Document : StoreOK(d)'
         /\ RowMatchesObject'
         /\ \A k \in Submitted : Of(k)' = Of(k)
         /\ (\A d : Answered(d)' = Answered(d))
         /\ Submitted' = Submitted
BY DEF drafting, records, IInv, DraftOK, SigningOK, StoreOK, Abandoned, Answered, RowMatchesObject,
       Submitted, Of

LEMMA SelectTemplateStep ==
  ASSUME IInv, SelectTemplate
  PROVE  IInv'
<1>1. /\ pdf' = NoPdf /\ overlay' = FALSE /\ submitting' = 0
      /\ isSigning' = FALSE /\ isSigned' = FALSE
      /\ UNCHANGED <<unsigned, drafting, signings, records>>
  BY DEF SelectTemplate
<1>2. SigningTypeOK'
  <2>1. pdf' \in [document : 0..asked, signed : BOOLEAN] /\ submitting' \in 0..Len(signings)
    BY <1>1, Types DEF NoPdf
  <2>. QED BY <1>1, <2>1 DEF IInv, SigningTypeOK, drafting, records, Submitted
<1>3. ScreenOK'
  BY <1>1 DEF IInv, ScreenOK, drafting, NoPdf
<1>4. WaitingOK'
  <2>1. \A k \in Submitted : pdf' # Shows(Of(k), FALSE)
    BY <1>1, Types DEF NoPdf, Shows
  <2>. QED BY <1>1, <2>1, RecordsKept DEF IInv, WaitingOK
<1>. QED BY <1>1, <1>2, <1>3, <1>4, RecordsKept DEF IInv

LEMMA BackStep ==
  ASSUME IInv, BackToInteractiveView
  PROVE  IInv'
<1>1. /\ pdf' = NoPdf /\ submitting' = 0
      /\ UNCHANGED <<unsigned, overlay, isSigning, isSigned, drafting, signings, records>>
  BY DEF BackToInteractiveView
<1>2. SigningTypeOK'
  <2>1. pdf' \in [document : 0..asked, signed : BOOLEAN] /\ submitting' \in 0..Len(signings)
    BY <1>1, Types DEF NoPdf
  <2>. QED BY <1>1, <2>1 DEF IInv, SigningTypeOK, drafting, records, Submitted
<1>3. ScreenOK'
  BY <1>1 DEF IInv, ScreenOK, drafting, NoPdf
<1>4. WaitingOK'
  <2>1. \A k \in Submitted : pdf' # Shows(Of(k), FALSE)
    BY <1>1, Types DEF NoPdf, Shows
  <2>. QED BY <1>1, <2>1, RecordsKept DEF IInv, WaitingOK
<1>. QED BY <1>1, <1>2, <1>3, <1>4, RecordsKept DEF IInv

LEMMA OpenOverlayStep ==
  ASSUME IInv, OpenOverlay
  PROVE  IInv'
<1>1. /\ pdf # NoPdf /\ ~ isSigned /\ ~ overlay
      /\ overlay' = TRUE /\ submitting' = 0
      /\ UNCHANGED <<pdf, unsigned, isSigning, isSigned, drafting, signings, records>>
  BY DEF OpenOverlay
<1>2. SigningTypeOK'
  BY <1>1, Types DEF IInv, SigningTypeOK, drafting, records, Submitted
<1>3. ScreenOK'
  BY <1>1, RecordsKept DEF IInv, ScreenOK, drafting, records
<1>4. WaitingOK'
  BY <1>1, RecordsKept DEF IInv, WaitingOK
<1>. QED BY <1>1, <1>2, <1>3, <1>4, RecordsKept DEF IInv

LEMMA CancelOverlayStep ==
  ASSUME IInv, CancelOverlay
  PROVE  IInv'
<1>1. /\ submitting = 0 /\ overlay' = FALSE
      /\ UNCHANGED <<pdf, unsigned, submitting, isSigning, isSigned,
                     drafting, signings, records>>
  BY DEF CancelOverlay, Submitting
<1>2. SigningTypeOK'
  BY <1>1, Types DEF IInv, SigningTypeOK, drafting, records, Submitted
<1>3. ScreenOK'
  BY <1>1, RecordsKept DEF IInv, ScreenOK, drafting, records
<1>4. WaitingOK'
  <2>1. \A k \in Submitted : k # submitting
    BY <1>1, Types
  <2>. QED BY <1>1, <2>1, RecordsKept DEF IInv, WaitingOK
<1>. QED BY <1>1, <1>2, <1>3, <1>4, RecordsKept DEF IInv

-----------------------------------------------------------------------------
(***************************************************************************)
(* The draft's way.                                                        *)
(***************************************************************************)
LEMMA GeneratePdfStep ==
  ASSUME IInv, GeneratePdf
  PROVE  IInv'
<1>1. /\ asked < MaxDrafts /\ asked' = asked + 1
      /\ draft' = [document |-> asked + 1, stage |-> "requested"]
      /\ UNCHANGED <<pdf, unsigned, overlay, submitting, isSigning, isSigned,
                     drafts, signings, object, row>>
  BY DEF GeneratePdf, widget, records
<1>2. SigningTypeOK'
  <2>1. /\ pdf \in [document : 0..asked', signed : BOOLEAN]
        /\ draft' \in [document : 0..asked',
                       stage : {"none", "requested", "rendered", "answered"}]
    BY <1>1, Types
  <2>2. unsigned \in 0..asked' /\ asked' \in 0..MaxDrafts /\ drafts \subseteq 1..asked'
    BY <1>1, Types
  <2>. QED BY <1>1, <2>1, <2>2 DEF IInv, SigningTypeOK, Submitted
<1>3. DraftOK'
  <2>1. \A k \in Submitted : Of(k) < asked'
    BY <1>1, Types
  <2>2. unsigned < asked' /\ asked' # 0
    BY <1>1, Types
  <2>. QED BY <1>1, <2>1, <2>2 DEF DraftOK, Submitted, Of
<1>4. ScreenOK' /\ WaitingOK'
  BY <1>1 DEF IInv, ScreenOK, Answered, WaitingOK, Submitted, Of
<1>5. (\A k \in Submitted : SigningOK(k))' /\ (\A d \in Document : StoreOK(d))' /\ RowMatchesObject'
  BY <1>1 DEF IInv, SigningOK, StoreOK, Abandoned, RowMatchesObject, Submitted, Of
<1>. QED BY <1>2, <1>3, <1>4, <1>5 DEF IInv

LEMMA RenderDraftStep ==
  ASSUME IInv, RenderDraft
  PROVE  IInv'
<1>1. /\ draft.stage = "requested" /\ drafts' = drafts \union {draft.document}
      /\ draft' = [draft EXCEPT !.stage = "rendered"]
      /\ UNCHANGED <<pdf, unsigned, overlay, submitting, isSigning, isSigned,
                     asked, signings, object, row>>
  BY DEF RenderDraft, Stage, widget, records
<1>2. draft.document = asked /\ asked # 0
  BY <1>1 DEF IInv, DraftOK
<1>3. draft \in [document : 0..asked,
                 stage : {"none", "requested", "rendered", "answered"}]
  BY DEF IInv, SigningTypeOK
<1>4. draft' \in [document : 0..asked,
                  stage : {"none", "requested", "rendered", "answered"}]
      /\ draft'.document = asked /\ draft'.stage = "rendered"
  BY <1>1, <1>2, <1>3
<1>5. SigningTypeOK'
  <2>1. Record \subseteq Record'
    BY <1>1 DEF Record
  <2>2. signings' \in Seq(Record')
    BY <1>1, <2>1, Types, SeqMonotonic
  <2>3. drafts' \subseteq 1..asked
    BY <1>1, <1>2, Types
  <2>. QED BY <1>1, <1>4, <2>2, <2>3 DEF IInv, SigningTypeOK, Submitted, Record
<1>6. DraftOK'
  BY <1>1, <1>2, <1>4 DEF IInv, DraftOK, Submitted, Of
<1>7. ScreenOK' /\ WaitingOK'
  BY <1>1 DEF IInv, ScreenOK, Answered, WaitingOK, Submitted, Of
<1>8. (\A k \in Submitted : SigningOK(k))' /\ (\A d \in Document : StoreOK(d))' /\ RowMatchesObject'
  BY <1>1 DEF IInv, SigningOK, StoreOK, Abandoned, RowMatchesObject, Submitted, Of
<1>. QED BY <1>5, <1>6, <1>7, <1>8 DEF IInv

LEMMA DraftAnsweredStep ==
  ASSUME IInv, AnswerDraft \/ DraftFails
  PROVE  IInv'
<1>1. UNCHANGED <<pdf, unsigned, overlay, submitting, isSigning, isSigned,
                  asked, drafts, signings, object, row>>
  BY DEF AnswerDraft, DraftFails, widget, records
<1>2. draft \in [document : 0..asked,
                 stage : {"none", "requested", "rendered", "answered"}]
  BY DEF IInv, SigningTypeOK
<1>3. \/ draft' = NoDraft
      \/ /\ draft.stage # "none" /\ draft'.document = draft.document
         /\ draft'.stage = "answered" /\ draft.stage = "rendered"
         /\ draft' \in [document : 0..asked,
                        stage : {"none", "requested", "rendered", "answered"}]
  BY <1>2 DEF AnswerDraft, DraftFails, Stage
<1>4. NoDraft.stage = "none" /\ NoDraft \in [document : 0..asked,
                 stage : {"none", "requested", "rendered", "answered"}]
  BY Types DEF NoDraft
<1>5. SigningTypeOK'
  BY <1>1, <1>3, <1>4 DEF IInv, SigningTypeOK, Submitted
<1>6. DraftOK'
  BY <1>1, <1>3, <1>4 DEF IInv, DraftOK, Submitted, Of
<1>7. ScreenOK' /\ WaitingOK'
  BY <1>1 DEF IInv, ScreenOK, Answered, WaitingOK, Submitted, Of
<1>8. (\A k \in Submitted : SigningOK(k))' /\ (\A d \in Document : StoreOK(d))' /\ RowMatchesObject'
  BY <1>1 DEF IInv, SigningOK, StoreOK, Abandoned, RowMatchesObject, Submitted, Of
<1>. QED BY <1>5, <1>6, <1>7, <1>8 DEF IInv

(***************************************************************************)
(* The draft that is shown is new: no signature of it can be under way.    *)
(***************************************************************************)
LEMMA ShowDraftStep ==
  ASSUME IInv, ShowDraft
  PROVE  IInv'
<1>1. /\ draft.stage = "answered" /\ pdf' = Shows(draft.document, FALSE)
      /\ unsigned' = draft.document /\ draft' = NoDraft
      /\ UNCHANGED <<overlay, submitting, isSigning, isSigned,
                     asked, drafts, signings, object, row>>
  BY DEF ShowDraft, records
<1>2. /\ draft.document = asked /\ asked # 0 /\ asked \in drafts
      /\ \A k \in Submitted : Of(k) < asked
  BY <1>1 DEF IInv, DraftOK
<1>3. pdf'.document = asked /\ pdf'.signed = FALSE
  BY <1>1, <1>2 DEF Shows
<1>4. SigningTypeOK'
  <2>1. pdf' \in [document : 0..asked, signed : BOOLEAN]
    BY <1>1, <1>2, Types DEF Shows
  <2>2. draft' \in [document : 0..asked,
                    stage : {"none", "requested", "rendered", "answered"}]
    BY <1>1, Types DEF NoDraft
  <2>3. unsigned' \in 0..asked
    BY <1>1, <1>2, Types
  <2>. QED BY <1>1, <2>1, <2>2, <2>3 DEF IInv, SigningTypeOK, Submitted
<1>5. DraftOK'
  BY <1>1 DEF DraftOK, NoDraft
<1>6. ScreenOK'
  <2>1. pdf' = Shows(unsigned', FALSE) /\ unsigned' = asked
    BY <1>1, <1>2
  <2>2. pdf' # NoPdf
    BY <1>2, <1>3 DEF NoPdf
  <2>. QED BY <1>1, <1>2, <1>3, <2>1, <2>2 DEF IInv, ScreenOK
<1>7. WaitingOK'
  <2>1. \A k \in Submitted : pdf' # Shows(Of(k), FALSE)
    <3>1. \A k \in Submitted : Of(k) # asked
      BY <1>2, Types
    <3>. QED BY <1>3, <3>1 DEF Shows
  <2>. QED BY <1>1, <2>1 DEF IInv, WaitingOK, Submitted, Of
<1>8. (\A k \in Submitted : SigningOK(k))' /\ (\A d \in Document : StoreOK(d))' /\ RowMatchesObject'
  BY <1>1 DEF IInv, SigningOK, StoreOK, Abandoned, RowMatchesObject, Submitted, Of
<1>. QED BY <1>4, <1>5, <1>6, <1>7, <1>8 DEF IInv

-----------------------------------------------------------------------------
(***************************************************************************)
(* The signature's way.                                                    *)
(***************************************************************************)
LEMMA OneIsAdded ==
  ASSUME signings \in Seq(Record), NEW r \in Record,
         signings' = Append(signings, r), UNCHANGED drafts
  PROVE  /\ signings' \in Seq(Record)'
         /\ Len(signings') = Len(signings) + 1
         /\ Submitted' = Submitted \union {Len(signings) + 1}
         /\ signings'[Len(signings) + 1] = r
         /\ \A j \in Submitted : signings'[j] = signings[j] /\ j <= Len(signings)
<1>1. Record' = Record
  BY DEF Record
<1>2. Len(signings) \in Nat
  BY LenProperties
<1>3. /\ signings' \in Seq(Record)
      /\ Len(signings') = Len(signings) + 1
      /\ \A j \in 1..Len(signings) : signings'[j] = signings[j]
      /\ signings'[Len(signings) + 1] = r
  BY <1>2
<1>4. Submitted' = Submitted \union {Len(signings) + 1}
  BY <1>2, <1>3 DEF Submitted
<1>. QED BY <1>1, <1>2, <1>3, <1>4 DEF Submitted

LEMMA SubmitSignatureStep ==
  ASSUME IInv, SubmitSignature,
         NEW new, new = Len(signings) + 1
  PROVE  IInv'
<1>. DEFINE r == [document |-> unsigned, esign |-> "queued",
                  gateway |-> "waiting", browser |-> "waiting"]
<1>1. /\ overlay /\ pdf # NoPdf /\ submitting = 0
      /\ signings' = Append(signings, r)
      /\ submitting' = new /\ isSigning' = TRUE
      /\ UNCHANGED <<pdf, unsigned, overlay, isSigned,
                     draft, asked, drafts, object, row>>
  BY DEF SubmitSignature, OverlayShown, Submitting, drafting, records
<1>2. unsigned # 0 /\ pdf = Shows(unsigned, FALSE) /\ unsigned \in drafts
  BY <1>1 DEF IInv, ScreenOK
<1>3. r \in Record /\ r.document = unsigned /\ r.esign = "queued" /\ r.gateway = "waiting"
      /\ r.browser = "waiting"
  BY <1>2 DEF Record
<1>. HIDE DEF r
<1>4. /\ signings' \in Seq(Record)' /\ Len(signings') = new /\ Submitted' = Submitted \union {new}
      /\ signings'[new] = r /\ \A j \in Submitted : signings'[j] = signings[j] /\ j < new
  BY <1>1, <1>3, Types, OneIsAdded
<1>5. new \in Nat /\ new > 0 /\ new \notin Submitted
  BY <1>4, Types
<1>6. Of(new)' = unsigned /\ \A j \in Submitted : Of(j)' = Of(j)
  BY <1>3, <1>4 DEF Of
<1>7. SigningTypeOK'
  <2>1. row' \in [Document -> 0..Len(signings')] /\ object' \in [Document -> 0..Len(signings')]
    BY <1>1, <1>4, Types
  <2>2. submitting' \in 0..Len(signings')
    BY <1>1, <1>4, <1>5
  <2>. QED BY <1>1, <1>4, <2>1, <2>2 DEF IInv, SigningTypeOK, Record
<1>8. DraftOK' /\ ScreenOK'
  <2>1. DraftOK'
    BY <1>1, <1>4, <1>6 DEF IInv, DraftOK, Of
  <2>2. pdf.signed = FALSE
    BY <1>2 DEF Shows
  <2>. QED BY <1>1, <2>1, <2>2 DEF IInv, ScreenOK
<1>9. WaitingOK'
  <2>1. ASSUME NEW j \in Submitted, Of(j) = unsigned
        PROVE  signings[j].browser # "waiting"
    <3>1. submitting # j
      BY <1>1, Types
    <3>. QED BY <1>2, <2>1, <3>1 DEF IInv, WaitingOK
  <2>2. ASSUME NEW k \in Submitted', (signings[k].browser = "waiting")', pdf = Shows(Of(k)', FALSE)
        PROVE  overlay' /\ submitting' = k
    <3>1. CASE k = new
      BY <1>1, <3>1
    <3>2. CASE k \in Submitted
      <4>1. Of(k) = unsigned
        BY <1>2, <1>6, <2>2, <3>2 DEF Shows
      <4>2. signings[k].browser = "waiting"
        BY <1>4, <2>2, <3>2
      <4>. QED BY <2>1, <3>2, <4>1, <4>2
    <3>. QED BY <1>4, <3>1, <3>2
  <2>3. ASSUME NEW j \in Submitted', NEW k \in Submitted', j < k, Of(j)' = Of(k)'
        PROVE  (signings[j].browser # "waiting")'
    <3>1. j \in Submitted
      BY <1>4, <1>5, <2>3, Types
    <3>2. CASE k = new
      BY <1>4, <1>6, <2>1, <2>3, <3>1, <3>2
    <3>3. CASE k \in Submitted
      BY <1>4, <1>6, <2>3, <3>1, <3>3 DEF IInv, WaitingOK
    <3>. QED BY <1>4, <3>2, <3>3
  <2>. QED BY <1>1, <2>2, <2>3 DEF WaitingOK
<1>10. (\A k \in Submitted : SigningOK(k))'
  <2>1. ASSUME NEW k \in Submitted
        PROVE  SigningOK(k)'
    <3>1. SigningOK(k)
      BY DEF IInv
    <3>. QED BY <1>1, <1>4, <1>6, <3>1 DEF SigningOK
  <2>2. SigningOK(new)'
    BY <1>3, <1>4 DEF SigningOK
  <2>. QED BY <1>4, <2>1, <2>2
<1>11. (\A d \in Document : StoreOK(d))'
  <2>1. ASSUME NEW d \in Document
        PROVE  StoreOK(d)'
    <3>1. StoreOK(d) /\ row[d] \in {0} \union Submitted /\ object[d] \in {0} \union Submitted
      BY Types DEF IInv, Submitted
    <3>2. row[d] # 0 => signings'[row[d]].esign = "signed"
      BY <1>4, <3>1 DEF StoreOK
    <3>3. ASSUME object[d] # 0
          PROVE  /\ Of(object[d])' = d
                 /\ \A k \in Submitted' :
                      (Of(k)' = d /\ object[d] < k /\ (signings[k].esign = "signed")')
                        => Abandoned(object[d])'
      <4>1. Of(object[d])' = d /\ (Abandoned(object[d]) => Abandoned(object[d])')
        <5>1. object'[d] = object[d] /\ object[d] \in Submitted
          BY <1>1, <3>1, <3>3
        <5>2. signings'[object[d]] = signings[object[d]] /\ Of(object[d]) = d
          BY <1>4, <3>1, <3>3, <5>1 DEF StoreOK
        <5>. QED BY <5>1, <5>2 DEF Of, Abandoned
      <4>2. ASSUME NEW k \in Submitted', Of(k)' = d, object[d] < k, (signings[k].esign = "signed")'
            PROVE  Abandoned(object[d])
        <5>1. k # new
          BY <1>3, <1>4, <4>2
        <5>2. k \in Submitted
          BY <1>4, <5>1
        <5>. QED BY <1>4, <1>6, <3>1, <3>3, <4>2, <5>2 DEF StoreOK
      <4>. QED BY <4>1, <4>2
    <3>. QED BY <1>1, <3>2, <3>3 DEF StoreOK
  <2>. QED BY <2>1
<1>12. RowMatchesObject'
  <2>1. ASSUME NEW d \in Document, row[d] # object[d]
        PROVE  \E k \in Submitted' \cap {row[d], object[d]} :
                 \/ k = object[d] /\ (signings[k].gateway \in {"waiting", "failed"})'
                 \/ (signings[k].browser = "cut")'
    <3>1. PICK k \in Submitted \cap {row[d], object[d]} :
            \/ k = object[d] /\ signings[k].gateway \in {"waiting", "failed"}
            \/ signings[k].browser = "cut"
      BY <2>1 DEF IInv, RowMatchesObject
    <3>. QED BY <1>4, <3>1
  <2>. QED BY <1>1, <2>1 DEF RowMatchesObject
<1>. QED BY <1>7, <1>8, <1>9, <1>10, <1>11, <1>12 DEF IInv

(***************************************************************************)
(* What a signature that moves on keeps, and a step of responder or        *)
(* gateway leaves alone: everything on the screen.                         *)
(***************************************************************************)
LEMMA ScreenKept ==
  ASSUME IInv, NEW k \in Submitted, NEW r \in Record,
         r.document = Of(k), r.browser = signings[k].browser,
         signings[k].gateway = "answered" => r.gateway = "answered",
         signings' = [signings EXCEPT ![k] = r],
         UNCHANGED <<widget, drafting>>,
         \A d \in Document : row[d] # 0 => row'[d] # 0
  PROVE  DraftOK' /\ ScreenOK' /\ WaitingOK'
<1>1. /\ Submitted' = Submitted /\ signings'[k] = r
      /\ \A j \in Submitted : j # k => signings'[j] = signings[j]
  BY Types, OneChanges DEF drafting
<1>2. \A j \in Submitted : signings'[j].document = signings[j].document
                             /\ signings'[j].browser = signings[j].browser
  BY <1>1 DEF Of
<1>3. DraftOK'
  BY <1>1, <1>2 DEF IInv, DraftOK, Of, widget, drafting
<1>4. ScreenOK'
  <2>1. pdf.document # 0 => pdf.document \in Document
    BY Types DEF Document
  <2>2. ASSUME NEW d, Answered(d)
        PROVE  Answered(d)'
    BY <1>1, <1>2, <2>2 DEF Answered, Of
  <2>. QED BY <2>1, <2>2 DEF IInv, ScreenOK, widget, drafting
<1>5. WaitingOK'
  <2>1. UNCHANGED <<pdf, overlay, submitting>>
    BY DEF widget
  <2>2. \A j \in Submitted : Of(j)' = Of(j)
    BY <1>2 DEF Of
  <2>3. ASSUME NEW j \in Submitted, (signings[j].browser = "waiting")', pdf = Shows(Of(j)', FALSE)
        PROVE  overlay' /\ submitting' = j
    <3>1. signings[j].browser = "waiting" /\ pdf = Shows(Of(j), FALSE)
      BY <1>2, <2>2, <2>3
    <3>. QED BY <2>1, <3>1 DEF IInv, WaitingOK
  <2>4. ASSUME NEW i \in Submitted, NEW j \in Submitted, i < j, Of(i)' = Of(j)'
        PROVE  (signings[i].browser # "waiting")'
    BY <1>2, <2>2, <2>4 DEF IInv, WaitingOK
  <2>. QED BY <1>1, <2>1, <2>3, <2>4 DEF WaitingOK
<1>. QED BY <1>3, <1>4, <1>5

(***************************************************************************)
(* The responder may take a signing before one that was submitted earlier, *)
(* or one given up long ago: its PDF is then the stored one, and the       *)
(* gateway will answer it while the browser waits only if it is the last   *)
(* of its document.                                                        *)
(***************************************************************************)
LEMMA SignDraftStep ==
  ASSUME IInv, NEW k \in Submitted, SignDraft(k)
  PROVE  IInv'
<1>1. PICK reply \in {"signed", "failed"} : signings' = [signings EXCEPT ![k].esign = reply]
  BY DEF SignDraft
<1>. DEFINE r == [signings[k] EXCEPT !.esign = reply]
<1>2. /\ signings[k].esign = "queued"
      /\ object' = [object EXCEPT ![Of(k)] = k]
      /\ UNCHANGED <<widget, drafting, row>>
  BY DEF SignDraft
<1>3. signings[k] \in Record /\ Of(k) \in Document /\ k \in 1..Len(signings) /\ SigningOK(k)
  BY Types DEF IInv, Submitted
<1>4. r \in Record /\ r.document = Of(k) /\ r.esign = reply /\ r.gateway = signings[k].gateway
      /\ r.browser = signings[k].browser
  BY <1>3 DEF Record, Of
<1>. HIDE DEF r
<1>5. signings' = [signings EXCEPT ![k] = r]
  BY <1>1 DEF r
<1>6. /\ signings' \in Seq(Record)' /\ Len(signings') = Len(signings) /\ Submitted' = Submitted
      /\ signings'[k] = r
      /\ \A j \in Submitted : j # k => signings'[j] = signings[j]
  BY <1>2, <1>4, <1>5, Types, OneChanges DEF drafting
<1>7. object' \in [Document -> 0..Len(signings)] /\ object'[Of(k)] = k
      /\ \A d \in Document \ {Of(k)} : object'[d] = object[d]
  BY <1>2, <1>3, Types
<1>8. SigningTypeOK'
  BY <1>2, <1>6, <1>7 DEF IInv, SigningTypeOK, Record, widget, drafting
<1>9. DraftOK' /\ ScreenOK' /\ WaitingOK'
  BY <1>2, <1>4, <1>5, ScreenKept
<1>10. signings[k].gateway \in {"waiting", "failed"}
  BY <1>2, <1>3 DEF SigningOK, Record
<1>11. \A j \in Submitted :
        /\ signings'[j].gateway = signings[j].gateway
        /\ signings'[j].browser = signings[j].browser
        /\ signings'[j].document = signings[j].document
        /\ signings'[j].esign = IF j = k THEN reply ELSE signings[j].esign
  BY <1>4, <1>6 DEF Of
<1>12. (\A j \in Submitted : SigningOK(j))'
  <2>1. ASSUME NEW j \in Submitted
        PROVE  SigningOK(j)'
    <3>1. SigningOK(j) /\ Of(j) \in Document /\ k # 0
      BY <1>3, Types DEF IInv
    <3>2. (signings'[j].esign = "signed") => object'[Of(j)] # 0
      BY <1>7, <1>11, <3>1 DEF SigningOK
    <3>3. signings[j].gateway \in {"recorded", "answered"} => j # k
      BY <1>10
    <3>. QED BY <1>2, <1>11, <3>1, <3>2, <3>3 DEF SigningOK, Of
  <2>. QED BY <1>6, <2>1
<1>13. (\A d \in Document : StoreOK(d))'
  <2>1. ASSUME NEW d \in Document
        PROVE  StoreOK(d)'
    <3>1. StoreOK(d) /\ row[d] \in {0} \union Submitted /\ object[d] \in {0} \union Submitted
      BY Types DEF IInv, Submitted
    <3>2. row'[d] # 0 => signings'[row'[d]].esign = "signed"
      BY <1>2, <1>11, <3>1 DEF StoreOK
    <3>3. CASE d = Of(k)
      <4>1. ASSUME NEW j \in Submitted, Of(j) = d, k < j
            PROVE  Abandoned(k)
        <5>1. signings[k].browser # "waiting"
          BY <3>3, <4>1 DEF IInv, WaitingOK
        <5>. QED BY <1>3, <1>10, <5>1 DEF SigningOK, Abandoned, Record
      <4>2. Abandoned(k)' = Abandoned(k) /\ \A j \in Submitted : Of(j)' = Of(j)
        BY <1>11 DEF Abandoned, Of
      <4>. QED BY <1>6, <1>7, <3>2, <3>3, <4>1, <4>2 DEF StoreOK
    <3>4. CASE d # Of(k)
      <4>1. object'[d] = object[d]
        BY <1>7, <3>4
      <4>2. \A j \in Submitted : Of(j)' = Of(j) /\ Abandoned(j)' = Abandoned(j)
        BY <1>11 DEF Abandoned, Of
      <4>3. \A j \in Submitted : Of(j) = d => signings'[j].esign = signings[j].esign
        BY <1>11, <3>4
      <4>. QED BY <1>6, <3>1, <3>2, <4>1, <4>2, <4>3 DEF StoreOK
    <3>. QED BY <3>3, <3>4
  <2>. QED BY <2>1
<1>14. RowMatchesObject'
  <2>1. ASSUME NEW d \in Document, row[d] # object'[d]
        PROVE  \E j \in Submitted \cap {row[d], object'[d]} :
                 \/ j = object'[d] /\ signings'[j].gateway \in {"waiting", "failed"}
                 \/ signings'[j].browser = "cut"
    <3>1. CASE d = Of(k)
      BY <1>7, <1>10, <1>11, <3>1
    <3>2. CASE d # Of(k)
      <4>1. object'[d] = object[d]
        BY <1>7, <3>2
      <4>2. PICK j \in Submitted \cap {row[d], object[d]} :
              \/ j = object[d] /\ signings[j].gateway \in {"waiting", "failed"}
              \/ signings[j].browser = "cut"
        BY <2>1, <4>1 DEF IInv, RowMatchesObject
      <4>. QED BY <1>11, <4>1, <4>2
    <3>. QED BY <3>1, <3>2
  <2>. QED BY <1>2, <1>6, <2>1 DEF RowMatchesObject
<1>. QED BY <1>8, <1>9, <1>12, <1>13, <1>14 DEF IInv

(***************************************************************************)
(* The upsert whose PDF is not the stored one is of a signing that was cut *)
(* or follows one that was abandoned: the others were submitted after the  *)
(* stored one was answered, and have signed over it.                       *)
(***************************************************************************)
LEMMA RecordSigningStep ==
  ASSUME IInv, NEW k \in Submitted, RecordSigning(k)
  PROVE  IInv'
<1>. DEFINE r == [signings[k] EXCEPT !.gateway = "recorded"]
<1>1. /\ signings[k].gateway = "waiting" /\ signings[k].esign = "signed"
      /\ row' = [row EXCEPT ![Of(k)] = k]
      /\ signings' = [signings EXCEPT ![k].gateway = "recorded"]
      /\ UNCHANGED <<widget, drafting, object>>
  BY DEF RecordSigning
<1>2. signings[k] \in Record /\ Of(k) \in Document /\ k \in 1..Len(signings) /\ SigningOK(k)
  BY Types DEF IInv, Submitted
<1>3. r \in Record /\ r.document = Of(k) /\ r.esign = signings[k].esign /\ r.gateway = "recorded"
      /\ r.browser = signings[k].browser
  BY <1>2 DEF Record, Of
<1>. HIDE DEF r
<1>4. signings' = [signings EXCEPT ![k] = r]
  BY <1>1 DEF r
<1>5. /\ signings' \in Seq(Record)' /\ Len(signings') = Len(signings) /\ Submitted' = Submitted
      /\ signings'[k] = r
      /\ \A j \in Submitted : j # k => signings'[j] = signings[j]
  BY <1>1, <1>3, <1>4, Types, OneChanges DEF drafting
<1>6. row' \in [Document -> 0..Len(signings)] /\ row'[Of(k)] = k
      /\ \A d \in Document \ {Of(k)} : row'[d] = row[d]
  BY <1>1, <1>2, Types
<1>7. LET o == object[Of(k)]
      IN  /\ o \in Submitted
          /\ o # k => signings[k].browser = "cut" \/ Abandoned(o)
  <2>. DEFINE o == object[Of(k)]
  <2>1. o \in Submitted /\ Of(o) = Of(k)
    BY <1>1, <1>2, Types DEF IInv, SigningOK, StoreOK, Submitted
  <2>2. CASE o < k
    BY <1>1, <1>2, <2>1, <2>2 DEF IInv, StoreOK, SigningOK
  <2>3. CASE k < o
    <3>1. signings[k].browser # "waiting"
      BY <2>1, <2>3 DEF IInv, WaitingOK
    <3>. QED BY <1>1, <1>2, <2>1, <3>1 DEF SigningOK, Record
  <2>4. o \in Nat /\ k \in Nat
    BY <2>1, Types
  <2>. QED BY <2>1, <2>2, <2>3, <2>4
<1>8. SigningTypeOK'
  BY <1>1, <1>5, <1>6 DEF IInv, SigningTypeOK, Record, widget, drafting
<1>9. DraftOK' /\ ScreenOK' /\ WaitingOK'
  <2>1. \A d \in Document : row[d] # 0 => row'[d] # 0
    BY <1>2, <1>6
  <2>. QED BY <1>1, <1>3, <1>4, <2>1, ScreenKept
<1>10. \A j \in Submitted :
        /\ signings'[j].esign = signings[j].esign
        /\ signings'[j].browser = signings[j].browser
        /\ signings'[j].document = signings[j].document
        /\ signings'[j].gateway = IF j = k THEN "recorded" ELSE signings[j].gateway
  BY <1>3, <1>5 DEF Of
<1>11. (\A j \in Submitted : SigningOK(j))'
  <2>1. ASSUME NEW j \in Submitted
        PROVE  SigningOK(j)'
    <3>1. SigningOK(j) /\ Of(j) \in Document
      BY Types DEF IInv
    <3>2. row[Of(j)] # 0 \/ j = k => row'[Of(j)] # 0
      BY <1>2, <1>6, <3>1
    <3>. QED BY <1>1, <1>10, <3>1, <3>2 DEF SigningOK, Of
  <2>. QED BY <1>5, <2>1
<1>12. \A j \in Submitted : Of(j)' = Of(j) /\ Abandoned(j)' = Abandoned(j)
  BY <1>1, <1>10 DEF Of, Abandoned
<1>13. (\A d \in Document : StoreOK(d))'
  <2>1. ASSUME NEW d \in Document
        PROVE  StoreOK(d)'
    <3>1. StoreOK(d) /\ row[d] \in {0} \union Submitted /\ object[d] \in {0} \union Submitted
      BY Types DEF IInv, Submitted
    <3>2. row'[d] # 0 => signings'[row'[d]].esign = "signed"
      BY <1>1, <1>6, <1>10, <3>1 DEF StoreOK
    <3>. QED BY <1>1, <1>5, <1>10, <1>12, <3>1, <3>2 DEF StoreOK
  <2>. QED BY <2>1
<1>14. RowMatchesObject'
  <2>1. ASSUME NEW d \in Document, row'[d] # object[d]
        PROVE  \E j \in Submitted \cap {row'[d], object[d]} :
                 \/ j = object[d] /\ signings'[j].gateway \in {"waiting", "failed"}
                 \/ signings'[j].browser = "cut"
    <3>1. CASE d = Of(k)
      <4>1. object[d] \in Submitted /\ row'[d] = k /\ object[d] # k
        BY <1>6, <1>7, <2>1, <3>1
      <4>2. signings[k].browser = "cut" \/ Abandoned(object[d])
        BY <1>7, <3>1, <4>1
      <4>. QED BY <1>10, <4>1, <4>2 DEF Abandoned
    <3>2. CASE d # Of(k)
      <4>1. row'[d] = row[d]
        BY <1>6, <3>2
      <4>2. PICK j \in Submitted \cap {row[d], object[d]} :
              \/ j = object[d] /\ signings[j].gateway \in {"waiting", "failed"}
              \/ signings[j].browser = "cut"
        BY <2>1, <4>1 DEF IInv, RowMatchesObject
      <4>3. j = object[d] => j # k
        <5>1. object[d] # 0 => Of(object[d]) = d
          BY DEF IInv, StoreOK
        <5>. QED BY <3>2, <4>2, <5>1, Types
      <4>. QED BY <1>10, <4>1, <4>2, <4>3
    <3>. QED BY <3>1, <3>2
  <2>. QED BY <1>1, <1>5, <2>1 DEF RowMatchesObject
<1>. QED BY <1>8, <1>9, <1>11, <1>13, <1>14 DEF IInv

(***************************************************************************)
(* A signature moves on and no record changes: the reply is lost, the      *)
(* answer leaves, somebody gives up, the browser learns of the end.        *)
(***************************************************************************)
MovesOn(s, r) ==
  /\ r.document = s.document
  /\ r.esign = s.esign \/ (s.esign = "queued" /\ r.esign = "failed")
  /\ r.gateway \in {"recorded", "answered"} => s.gateway \in {"recorded", "answered"}
  /\ s.gateway = "failed" => r.gateway = "failed"
  /\ s.gateway = "waiting" => r.gateway \in {"waiting", "failed"}
  /\ s.browser = "cut" => r.browser = "cut"
  /\ r.gateway \in {"waiting", "recorded"} => r.browser # "done"

LEMMA StoresKept ==
  ASSUME IInv, NEW k \in Submitted, NEW r \in Record, MovesOn(signings[k], r),
         signings' = [signings EXCEPT ![k] = r],
         UNCHANGED <<drafting, records>>
  PROVE  /\ (\A j \in Submitted : SigningOK(j))'
         /\ (\A d \in Document : StoreOK(d))'
         /\ RowMatchesObject'
         /\ signings' \in Seq(Record)' /\ Len(signings') = Len(signings) /\ Submitted' = Submitted
         /\ \A j \in Submitted : Of(j)' = Of(j)
         /\ signings'[k] = r /\ \A j \in Submitted : j # k => signings'[j] = signings[j]
<1>1. /\ signings' \in Seq(Record)' /\ Len(signings') = Len(signings) /\ Submitted' = Submitted
      /\ signings'[k] = r
      /\ \A j \in Submitted : j # k => signings'[j] = signings[j]
  BY Types, OneChanges DEF drafting
<1>2. \A j \in Submitted :
        /\ signings'[j].document = signings[j].document
        /\ (signings'[j].esign = "signed") = (signings[j].esign = "signed")
        /\ signings[j].browser = "cut" => signings'[j].browser = "cut"
        /\ signings[j].gateway = "failed" => signings'[j].gateway = "failed"
        /\ signings[j].gateway = "waiting" => signings'[j].gateway \in {"waiting", "failed"}
  <2>1. \A j \in Submitted : j = k \/ signings'[j] = signings[j]
    BY <1>1
  <2>. QED BY <1>1, <2>1 DEF MovesOn
<1>3. UNCHANGED <<object, row>>
  BY DEF records
<1>4. \A j \in Submitted : Of(j)' = Of(j) /\ (Abandoned(j) => Abandoned(j)')
  BY <1>2 DEF Of, Abandoned
<1>5. (\A j \in Submitted : SigningOK(j))'
  <2>1. ASSUME NEW j \in Submitted
        PROVE  SigningOK(j)'
    <3>1. SigningOK(j)
      BY DEF IInv
    <3>2. CASE j = k
      BY <1>1, <1>2, <1>3, <1>4, <3>1, <3>2 DEF SigningOK, MovesOn
    <3>3. CASE j # k
      BY <1>1, <1>3, <1>4, <3>1, <3>3 DEF SigningOK
    <3>. QED BY <3>2, <3>3
  <2>. QED BY <1>1, <2>1
<1>6. (\A d \in Document : StoreOK(d))'
  <2>1. ASSUME NEW d \in Document
        PROVE  StoreOK(d)'
    <3>1. StoreOK(d) /\ row[d] \in {0} \union Submitted /\ object[d] \in {0} \union Submitted
      BY Types DEF IInv, Submitted
    <3>. QED BY <1>1, <1>2, <1>3, <1>4, <3>1 DEF StoreOK
  <2>. QED BY <2>1
<1>7. RowMatchesObject'
  <2>1. ASSUME NEW d \in Document, row[d] # object[d]
        PROVE  \E j \in Submitted \cap {row[d], object[d]} :
                 \/ j = object[d] /\ signings'[j].gateway \in {"waiting", "failed"}
                 \/ signings'[j].browser = "cut"
    <3>1. PICK j \in Submitted \cap {row[d], object[d]} :
            \/ j = object[d] /\ signings[j].gateway \in {"waiting", "failed"}
            \/ signings[j].browser = "cut"
      BY <2>1 DEF IInv, RowMatchesObject
    <3>. QED BY <1>2, <3>1
  <2>. QED BY <1>1, <1>3, <2>1 DEF RowMatchesObject
<1>. QED BY <1>1, <1>4, <1>5, <1>6, <1>7

LEMMA MovesOnStep ==
  ASSUME IInv, NEW k \in Submitted, NEW r \in Record, MovesOn(signings[k], r),
         r.browser = signings[k].browser,
         signings[k].gateway = "answered" => r.gateway = "answered",
         signings' = [signings EXCEPT ![k] = r],
         UNCHANGED <<widget, drafting, records>>
  PROVE  IInv'
<1>1. r.document = Of(k) /\ \A d \in Document : row[d] # 0 => row'[d] # 0
  BY DEF MovesOn, Of, records
<1>2. DraftOK' /\ ScreenOK' /\ WaitingOK'
  BY <1>1, ScreenKept
<1>3. /\ (\A j \in Submitted : SigningOK(j))'
      /\ (\A d \in Document : StoreOK(d))'
      /\ RowMatchesObject'
      /\ signings' \in Seq(Record)' /\ Len(signings') = Len(signings) /\ Submitted' = Submitted
  BY StoresKept
<1>4. SigningTypeOK'
  BY <1>3 DEF IInv, SigningTypeOK, Record, widget, drafting, records
<1>. QED BY <1>2, <1>3, <1>4 DEF IInv

LEMMA SignDraftFailsStep ==
  ASSUME IInv, NEW k \in Submitted, SignDraftFails(k)
  PROVE  IInv'
<1>. DEFINE r == [signings[k] EXCEPT !.esign = "failed"]
<1>1. /\ signings[k].esign = "queued"
      /\ signings' = [signings EXCEPT ![k] = r]
      /\ UNCHANGED <<widget, drafting, records>>
  BY DEF SignDraftFails
<1>2. signings[k] \in Record /\ SigningOK(k)
  BY Types DEF IInv
<1>3. /\ r \in Record /\ r.document = signings[k].document /\ r.esign = "failed"
      /\ r.gateway = signings[k].gateway /\ r.browser = signings[k].browser
  BY <1>2 DEF Record
<1>. HIDE DEF r
<1>4. MovesOn(signings[k], r)
  BY <1>1, <1>2, <1>3 DEF MovesOn, SigningOK
<1>. QED BY <1>1, <1>3, <1>4, MovesOnStep

LEMMA AnswerSigningStep ==
  ASSUME IInv, NEW k \in Submitted, AnswerSigning(k)
  PROVE  IInv'
<1>. DEFINE r == [signings[k] EXCEPT !.gateway = "answered"]
<1>1. /\ signings[k].gateway = "recorded"
      /\ signings' = [signings EXCEPT ![k] = r]
      /\ UNCHANGED <<widget, drafting, records>>
  BY DEF AnswerSigning
<1>2. signings[k] \in Record
  BY Types
<1>3. /\ r \in Record /\ r.document = signings[k].document /\ r.esign = signings[k].esign
      /\ r.gateway = "answered" /\ r.browser = signings[k].browser
  BY <1>2 DEF Record
<1>. HIDE DEF r
<1>4. MovesOn(signings[k], r)
  BY <1>1, <1>3 DEF MovesOn
<1>. QED BY <1>1, <1>3, <1>4, MovesOnStep

LEMMA GiveUpStep ==
  ASSUME IInv, NEW k \in Submitted, GiveUp(k)
  PROVE  IInv'
<1>. DEFINE r == [signings[k] EXCEPT !.gateway = "failed"]
<1>1. /\ signings[k].gateway \in {"waiting", "recorded"}
      /\ signings' = [signings EXCEPT ![k] = r]
      /\ UNCHANGED <<widget, drafting, records>>
  BY DEF GiveUp
<1>2. signings[k] \in Record
  BY Types
<1>3. /\ r \in Record /\ r.document = signings[k].document /\ r.esign = signings[k].esign
      /\ r.gateway = "failed" /\ r.browser = signings[k].browser
  BY <1>2 DEF Record
<1>. HIDE DEF r
<1>4. MovesOn(signings[k], r)
  BY <1>1, <1>3 DEF MovesOn
<1>. QED BY <1>1, <1>3, <1>4, MovesOnStep

LEMMA ShowSignedStep ==
  ASSUME IInv, NEW k \in Submitted, ShowSigned(k)
  PROVE  IInv'
<1>. DEFINE r == [signings[k] EXCEPT !.browser = "done"]
<1>1. /\ signings[k].browser = "waiting" /\ signings[k].gateway = "answered"
      /\ signings' = [signings EXCEPT ![k] = r]
      /\ pdf' = Shows(Of(k), TRUE) /\ overlay' = FALSE /\ isSigned' = TRUE /\ isSigning' = FALSE
      /\ submitting' = IF submitting = k THEN 0 ELSE submitting
      /\ UNCHANGED <<unsigned, drafting, records>>
  BY DEF ShowSigned, SigningEnds
<1>2. signings[k] \in Record /\ Of(k) \in 1..asked /\ SigningOK(k)
  BY Types DEF IInv
<1>3. r \in Record /\ r.document = signings[k].document /\ r.esign = signings[k].esign
      /\ r.gateway = signings[k].gateway /\ r.browser = "done"
  BY <1>2 DEF Record
<1>. HIDE DEF r
<1>4. MovesOn(signings[k], r)
  BY <1>1, <1>3 DEF MovesOn
<1>5. /\ (\A j \in Submitted : SigningOK(j))'
      /\ (\A d \in Document : StoreOK(d))'
      /\ RowMatchesObject'
      /\ signings' \in Seq(Record)' /\ Len(signings') = Len(signings) /\ Submitted' = Submitted
      /\ \A j \in Submitted : Of(j)' = Of(j)
      /\ signings'[k] = r /\ \A j \in Submitted : j # k => signings'[j] = signings[j]
  BY <1>1, <1>3, <1>4, StoresKept
<1>6. SigningTypeOK'
  <2>1. pdf' \in [document : 0..asked, signed : BOOLEAN]
    BY <1>1, <1>2, Types DEF Shows
  <2>2. submitting' \in 0..Len(signings)
    BY <1>1, Types DEF IInv, SigningTypeOK
  <2>. QED BY <1>1, <1>5, <2>1, <2>2 DEF IInv, SigningTypeOK, Record, drafting, records
<1>7. DraftOK'
  BY <1>1, <1>5 DEF IInv, DraftOK, drafting
<1>8. ScreenOK'
  <2>1. pdf'.document = Of(k) /\ pdf'.signed /\ Of(k) # 0
    BY <1>1, <1>2, Types DEF Shows
  <2>2. row'[Of(k)] # 0
    BY <1>1, <1>2 DEF SigningOK, records
  <2>3. Answered(pdf.document)'
    BY <1>1, <1>3, <1>5, <2>1 DEF Answered
  <2>4. unsigned' # 0 => unsigned' \in drafts'
    BY <1>1 DEF IInv, ScreenOK, drafting
  <2>. QED BY <1>1, <2>1, <2>2, <2>3, <2>4 DEF ScreenOK
<1>9. WaitingOK'
  <2>1. \A d : pdf' # Shows(d, FALSE)
    BY <1>1 DEF Shows
  <2>2. \A j \in Submitted : signings[j].browser # "waiting" => signings'[j].browser # "waiting"
    BY <1>3, <1>5
  <2>3. \A i, j \in Submitted : i < j /\ Of(i) = Of(j) => signings'[i].browser # "waiting"
    BY <2>2 DEF IInv, WaitingOK
  <2>. QED BY <1>5, <2>1, <2>3 DEF WaitingOK
<1>. QED BY <1>5, <1>6, <1>7, <1>8, <1>9 DEF IInv

(***************************************************************************)
(* The signature ends in the browser without a signed PDF.                 *)
(***************************************************************************)
LEMMA EndsStep ==
  ASSUME IInv, NEW k \in Submitted, NEW r \in Record, MovesOn(signings[k], r),
         r.browser # "waiting", r.gateway = signings[k].gateway,
         signings' = [signings EXCEPT ![k] = r],
         SigningEnds(k),
         UNCHANGED <<pdf, unsigned, overlay, isSigned, drafting, records>>
  PROVE  IInv'
<1>1. submitting' = (IF submitting = k THEN 0 ELSE submitting) /\ isSigning' = FALSE
  BY DEF SigningEnds
<1>2. /\ (\A j \in Submitted : SigningOK(j))'
      /\ (\A d \in Document : StoreOK(d))'
      /\ RowMatchesObject'
      /\ signings' \in Seq(Record)' /\ Len(signings') = Len(signings) /\ Submitted' = Submitted
      /\ \A j \in Submitted : Of(j)' = Of(j)
      /\ signings'[k] = r /\ \A j \in Submitted : j # k => signings'[j] = signings[j]
  BY StoresKept
<1>3. SigningTypeOK'
  <2>1. submitting' \in 0..Len(signings)
    BY <1>1, Types DEF IInv, SigningTypeOK
  <2>. QED BY <1>1, <1>2, <2>1 DEF IInv, SigningTypeOK, Record, drafting, records
<1>4. DraftOK'
  BY <1>2 DEF IInv, DraftOK, drafting
<1>5. ScreenOK'
  <2>1. \A j \in Submitted : signings'[j].gateway = signings[j].gateway
    BY <1>2
  <2>2. ASSUME NEW d, Answered(d)
        PROVE  Answered(d)'
    BY <1>2, <2>1, <2>2 DEF Answered
  <2>. QED BY <2>2 DEF IInv, ScreenOK, drafting, records
<1>6. WaitingOK'
  <2>1. \A j \in Submitted : signings[j].browser # "waiting" => signings'[j].browser # "waiting"
    BY <1>2
  <2>2. ASSUME NEW j \in Submitted, (signings[j].browser = "waiting")', pdf = Shows(Of(j), FALSE)
        PROVE  overlay /\ submitting' = j
    <3>1. j # k /\ signings[j].browser = "waiting"
      BY <1>2, <2>2
    <3>2. overlay /\ submitting = j
      BY <2>2, <3>1 DEF IInv, WaitingOK
    <3>. QED BY <1>1, <3>1, <3>2
  <2>3. \A i, j \in Submitted : i < j /\ Of(i) = Of(j) => signings'[i].browser # "waiting"
    BY <2>1 DEF IInv, WaitingOK
  <2>4. \A j \in Submitted : ((signings[j].browser = "waiting")' /\ pdf' = Shows(Of(j)', FALSE))
                             => overlay' /\ submitting' = j
    BY <1>2, <2>2
  <2>5. \A i, j \in Submitted : i < j /\ Of(i)' = Of(j)' => (signings[i].browser # "waiting")'
    BY <1>2, <2>3
  <2>. QED BY <1>2, <2>4, <2>5 DEF WaitingOK
<1>. QED BY <1>2, <1>3, <1>4, <1>5, <1>6 DEF IInv

LEMMA SigningFailsStep ==
  ASSUME IInv, NEW k \in Submitted, SigningFails(k)
  PROVE  IInv'
<1>. DEFINE r == [signings[k] EXCEPT !.browser = "done"]
<1>1. /\ signings[k].browser = "waiting" /\ signings[k].gateway \in {"answered", "failed"}
      /\ signings' = [signings EXCEPT ![k] = r]
      /\ SigningEnds(k)
      /\ UNCHANGED <<pdf, unsigned, overlay, isSigned, drafting, records>>
  BY DEF SigningFails
<1>2. signings[k] \in Record
  BY Types
<1>3. r \in Record /\ r.document = signings[k].document /\ r.esign = signings[k].esign
      /\ r.gateway = signings[k].gateway /\ r.browser = "done"
  BY <1>2 DEF Record
<1>. HIDE DEF r
<1>4. MovesOn(signings[k], r)
  BY <1>1, <1>3 DEF MovesOn
<1>. QED BY <1>1, <1>3, <1>4, EndsStep

LEMMA FetchFailsStep ==
  ASSUME IInv, NEW k \in Submitted, FetchFails(k)
  PROVE  IInv'
<1>. DEFINE r == [signings[k] EXCEPT !.browser = "cut"]
<1>1. /\ signings[k].browser = "waiting" /\ signings[k].gateway \in {"waiting", "recorded"}
      /\ signings' = [signings EXCEPT ![k] = r]
      /\ SigningEnds(k)
      /\ UNCHANGED <<pdf, unsigned, overlay, isSigned, drafting, records>>
  BY DEF FetchFails
<1>2. signings[k] \in Record
  BY Types
<1>3. r \in Record /\ r.document = signings[k].document /\ r.esign = signings[k].esign
      /\ r.gateway = signings[k].gateway /\ r.browser = "cut"
  BY <1>2 DEF Record
<1>. HIDE DEF r
<1>4. MovesOn(signings[k], r)
  BY <1>1, <1>3 DEF MovesOn
<1>. QED BY <1>1, <1>3, <1>4, EndsStep

-----------------------------------------------------------------------------
LEMMA InvariantStep ==
  ASSUME IInv, [Next]_vars
  PROVE  IInv'
<1>1. CASE SelectTemplate
  BY <1>1, SelectTemplateStep
<1>2. CASE BackToInteractiveView
  BY <1>2, BackStep
<1>3. CASE GeneratePdf
  BY <1>3, GeneratePdfStep
<1>4. CASE OpenOverlay
  BY <1>4, OpenOverlayStep
<1>5. CASE CancelOverlay
  BY <1>5, CancelOverlayStep
<1>6. CASE SubmitSignature
  BY <1>6, SubmitSignatureStep
<1>7. CASE ServeDraft
  BY <1>7, RenderDraftStep, DraftAnsweredStep, ShowDraftStep DEF ServeDraft
<1>8. ASSUME NEW k \in Submitted, Serve(k)
      PROVE  IInv'
  BY <1>8, SignDraftStep, SignDraftFailsStep, RecordSigningStep, AnswerSigningStep, GiveUpStep,
     ShowSignedStep, SigningFailsStep DEF Serve
<1>10. ASSUME NEW k \in Submitted, FetchFails(k)
       PROVE  IInv'
  BY <1>10, FetchFailsStep
<1>9. CASE UNCHANGED vars
  <2>1. UNCHANGED <<pdf, unsigned, overlay, submitting, isSigning, isSigned,
                    draft, asked, drafts, signings, object, row>>
    BY <1>9 DEF vars, widget, drafting, records
  <2>2. SigningTypeOK' /\ DraftOK' /\ ScreenOK' /\ WaitingOK'
    BY <2>1 DEF IInv, SigningTypeOK, DraftOK, ScreenOK, Answered, WaitingOK, Submitted, Of
  <2>3. (\A k \in Submitted : SigningOK(k))'
    BY <2>1 DEF IInv, SigningOK, Submitted, Of
  <2>4. (\A d \in Document : StoreOK(d))' /\ RowMatchesObject'
    BY <2>1 DEF IInv, StoreOK, Abandoned, RowMatchesObject, Submitted, Of
  <2>. QED BY <2>2, <2>3, <2>4 DEF IInv
<1>. QED BY <1>1, <1>2, <1>3, <1>4, <1>5, <1>6, <1>7, <1>8, <1>9, <1>10 DEF Next

(***************************************************************************)
(* The conditions of ComplianceWorkflow, useComplianceDocument, the        *)
(* overlay, the gateway's signDocument and the eSign responder that hold   *)
(* together, for every number of drafts and signatures.                    *)
(***************************************************************************)
THEOREM SigningInvariant == Spec => []IInv
<1>1. Init => IInv
  BY InvariantInit
<1>2. IInv /\ [Next]_vars => IInv'
  BY InvariantStep
<1>. QED BY <1>1, <1>2, PTL DEF Spec

(***************************************************************************)
(* Every variable of the widget, the gateway, the responder and the stores *)
(* keeps its type.                                                         *)
(***************************************************************************)
THEOREM SigningTypeCorrect == Spec => []SigningTypeOK
<1>1. IInv => SigningTypeOK
  BY DEF IInv
<1>. QED BY <1>1, SigningInvariant, PTL

(***************************************************************************)
(* The overlay of ComplianceWorkflow stands over the unsigned draft of the *)
(* very document the signature will go to.                                 *)
(***************************************************************************)
THEOREM SeenIsSigned == Spec => []WhatYouSeeIsWhatYouSign
<1>1. IInv => WhatYouSeeIsWhatYouSign
  BY DEF IInv, ScreenOK, OverlayShown, WhatYouSeeIsWhatYouSign
<1>. QED BY <1>1, SigningInvariant, PTL

(***************************************************************************)
(* isSigning and localSubmitting together never let two signatures of one  *)
(* document wait in the browser.                                           *)
(***************************************************************************)
THEOREM SignaturesTakeTurns == Spec => []OneSignatureAtATime
<1>1. ASSUME IInv
      PROVE  OneSignatureAtATime
  <2>1. ASSUME NEW j \in Submitted, NEW k \in Submitted, Of(j) = Of(k),
               signings[j].browser = "waiting", signings[k].browser = "waiting"
        PROVE  j = k
    <3>1. ~ (j < k) /\ ~ (k < j)
      BY <1>1, <2>1 DEF IInv, WaitingOK
    <3>. QED BY <1>1, <3>1, Types
  <2>. QED BY <2>1 DEF OneSignatureAtATime
<1>. QED BY <1>1, SigningInvariant, PTL

(***************************************************************************)
(* A signed PDF on the screen has a row in the documents table with the    *)
(* hash of a PDF that was stored, and the gateway answered a signing of    *)
(* its document: SignedMeansRecorded says nothing of the event's arrival.  *)
(***************************************************************************)
THEOREM ShownIsRecorded == Spec => []SignedMeansRecorded
<1>1. ASSUME IInv
      PROVE  SignedMeansRecorded
  <2>1. ASSUME pdf.signed
        PROVE  /\ isSigned
               /\ row[pdf.document] \in Submitted
               /\ signings[row[pdf.document]].esign = "signed"
               /\ Answered(pdf.document)
    <3>1. pdf # NoPdf
      BY <2>1 DEF NoPdf
    <3>2. isSigned /\ row[pdf.document] # 0 /\ Answered(pdf.document)
      BY <1>1, <2>1, <3>1 DEF IInv, ScreenOK
    <3>3. pdf.document \in Document
      <4>1. pdf.document # 0
        BY <1>1, <3>1 DEF IInv, ScreenOK
      <4>2. pdf.document \in 0..asked
        BY <1>1, Types
      <4>. QED BY <1>1, <4>1, <4>2, Types DEF Document
    <3>4. row[pdf.document] \in Submitted
      BY <1>1, <3>2, <3>3, Types DEF Submitted
    <3>. QED BY <1>1, <3>2, <3>3, <3>4 DEF IInv, StoreOK
  <2>. QED BY <2>1 DEF SignedMeansRecorded, Answered
<1>. QED BY <1>1, SigningInvariant, PTL

(***************************************************************************)
(* The hash in the row is the hash of the stored PDF unless the gateway    *)
(* waits for, or gave up, the signing that stored the PDF, or the browser  *)
(* did not wait for the end of one of the two.                             *)
(***************************************************************************)
THEOREM RowFollowsObject == Spec => []RowMatchesObject
<1>1. IInv => RowMatchesObject
  BY DEF IInv
<1>. QED BY <1>1, SigningInvariant, PTL
=============================================================================
