------------------------- MODULE JournalDesk_proofs -------------------------
(***************************************************************************)
(* Theorems about JournalDesk: the link of a draft names its own journal, a   *)
(* journal has one reversal and that cancels it, and the reversing draft of a *)
(* generation reverses the generation's own journal.                          *)
(*                                                                         *)
(* Requests overwrite statuses at will, but what the properties are about     *)
(* only grows (Evolves): journals keep what was posted, drafts keep what they *)
(* reverse, and a generation keeps its draft.  So what a request holds is     *)
(* still true when it writes it down (Holds).                                 *)
(***************************************************************************)
EXTENDS JournalDesk, SequenceTheorems, TLAPS

DraftPcs == {"update", "validate", "reload", "door", "link", "hook", "void", "record",
             "record-hook"}

\* What a request holds.
Holds(k) ==
  /\ desk[k].pc \in DraftPcs => desk[k].draft \in Drafts /\ Exists(desk[k].draft)
  /\ desk[k].pc \in {"record", "record-hook"} => desk[k].from \in Generations
  /\ desk[k].pc \in {"link", "hook"} => desk[k].answer \in PostedFrom(desk[k].draft)
  /\ desk[k].pc = "record-hook" =>
       /\ generation[desk[k].from].draft \in Drafts
       /\ draft[desk[k].draft].body.reverses \in PostedFrom(generation[desk[k].from].draft)
  /\ desk[k].pc \in {"reverse", "link-reversal"} => desk[k].subject \in DOMAIN journals
  /\ desk[k].pc = "reverse" =>
       /\ desk[k].body.amount = -journals[desk[k].subject].amount
       /\ desk[k].body.period >= journals[desk[k].subject].period
  /\ desk[k].pc = "link-reversal" => desk[k].answer \in Under(ReverseKey(desk[k].subject))

DesksHold == \A k \in Desks : Holds(k)

\* A journal under the key of a reversal cancels the journal the key names, and
\* keys are not shared.
JournalTrue(i) ==
  /\ journals[i].key.op = "reverse" =>
       /\ journals[i].key.of \in DOMAIN journals
       /\ journals[i].amount = -journals[journals[i].key.of].amount
       /\ journals[i].period >= journals[journals[i].key.of].period
  /\ \A j \in DOMAIN journals : journals[j].key = journals[i].key => j = i
  /\ journals[i].reversedBy # 0 => journals[i].reversedBy \in Under(ReverseKey(i))

JournalsTrue == \A i \in DOMAIN journals : JournalTrue(i)

GenerationsHold ==
  \A g \in Generations :
    generation[g].reversal # Nobody =>
      /\ generation[g].draft \in Drafts /\ generation[g].reversal \in Drafts
      /\ Exists(generation[g].reversal)
      /\ draft[generation[g].reversal].body.reverses \in PostedFrom(generation[g].draft)

IInv == TypeOK /\ DesksHold /\ LinksAreTrue /\ JournalsTrue /\ GenerationsHold

-----------------------------------------------------------------------------
(* Types                                                                     *)

Request == [pc : Pc, draft : Drafts \cup {Nobody}, body : Body, subject : Nat, answer : Nat,
            from : Generations \cup {<<>>}]

LEMMA Constants == NoBody \in Body /\ NoDraft \in Draft /\ Idle \in Request
  BY DeskAssumption DEF NoBody, Body, NoDraft, Draft, DraftStatus, Idle, Request, Pc, Periods

LEMMA SavedType ==
  ASSUME TypeOK, NEW d \in Drafts, NEW body \in Body
  PROVE  Saved(d, body) \in [Drafts -> Draft]
<1>1. [NoDraft EXCEPT !.status = "DRAFT", !.body = body] \in Draft
  BY DEF NoDraft, Draft, DraftStatus
<1> QED
  BY <1>1 DEF Saved, TypeOK

LEMMA BodyTypes ==
  /\ \A body \in Typed : body \in Body
  /\ \A p \in Periods, i \in Nat : [period |-> p, amount |-> -TemplateAmount, reverses |-> i] \in Body
  /\ \A p \in Periods : [period |-> p, amount |-> TemplateAmount, reverses |-> 0] \in Body
  BY DeskAssumption DEF Body

LEMMA EndsType ==
  ASSUME TypeOK, NEW k \in Desks, Ends(k)
  PROVE  desk' \in [Desks -> Request] /\ desk'[k] = Idle
         /\ \A j \in Desks \ {k} : desk'[j] = desk[j]
  BY Constants DEF Ends, TypeOK, Request

LEMMA BeginsType ==
  ASSUME TypeOK, NEW k \in Desks, NEW request \in Request, Begins(k, request)
  PROVE  desk' \in [Desks -> Request] /\ desk'[k] = request
         /\ \A j \in Desks \ {k} : desk'[j] = desk[j]
  BY DEF Begins, TypeOK, Request

LEMMA GoToType ==
  ASSUME TypeOK, NEW k \in Desks, NEW pc \in Pc, GoTo(k, pc)
  PROVE  /\ desk' \in [Desks -> Request]
         /\ desk'[k] = [desk[k] EXCEPT !.pc = pc]
         /\ \A j \in Desks \ {k} : desk'[j] = desk[j]
  BY DEF GoTo, TypeOK, Request

LEMMA AnswersType ==
  ASSUME TypeOK, NEW k \in Desks, NEW i \in Nat, NEW next \in Pc, Answers(k, i, next)
  PROVE  /\ desk' \in [Desks -> Request]
         /\ desk'[k] = [Idle EXCEPT !.pc = next, !.draft = desk[k].draft,
                                    !.subject = desk[k].subject, !.answer = i]
         /\ \A j \in Desks \ {k} : desk'[j] = desk[j]
<1>1. [Idle EXCEPT !.pc = next, !.draft = desk[k].draft, !.subject = desk[k].subject,
                   !.answer = i] \in Request
  BY Constants DEF Request, TypeOK
<1> QED
  BY <1>1 DEF Answers, TypeOK, Request

LEMMA DraftFieldType ==
  ASSUME TypeOK, NEW d \in Drafts, NEW s \in DraftStatus, NEW body \in Body, NEW i \in Nat
  PROVE  /\ [draft EXCEPT ![d].status = s] \in [Drafts -> Draft]
         /\ [draft EXCEPT ![d].status = s, ![d].body = body] \in [Drafts -> Draft]
         /\ [draft EXCEPT ![d].status = s, ![d].journal = i] \in [Drafts -> Draft]
  BY DEF TypeOK, Draft

LEMMA EntryType ==
  ASSUME NEW key \in Key, NEW body \in Body PROVE Entry(key, body) \in Journal
  BY DEF Entry, Journal, Body

\* What a call of the door does.
LEMMA PostType ==
  ASSUME TypeOK, NEW k \in Desks, NEW key \in Key, NEW next \in Pc, Post(k, key, next)
  PROVE  /\ desk' \in [Desks -> Request] /\ journals' \in Seq(Journal)
         /\ \A j \in Desks \ {k} : desk'[j] = desk[j]
<1>1. ASSUME NEW i \in Under(key), Answers(k, i, next), UNCHANGED journals
      PROVE  /\ desk' \in [Desks -> Request] /\ journals' \in Seq(Journal)
             /\ \A j \in Desks \ {k} : desk'[j] = desk[j]
  <2>1. i \in Nat
    BY DEF Under, TypeOK
  <2> QED
    BY <1>1, <2>1, AnswersType DEF TypeOK
<1>2. CASE /\ journals' = Append(journals, Entry(key, desk[k].body))
           /\ Answers(k, Len(journals) + 1, next)
  <2>1. Entry(key, desk[k].body) \in Journal
    BY EntryType DEF TypeOK
  <2>2. journals' \in Seq(Journal)
    BY <1>2, <2>1, AppendProperties DEF TypeOK
  <2>3. Len(journals) + 1 \in Nat
    BY DEF TypeOK
  <2> QED
    BY <1>2, <2>2, <2>3, AnswersType
<1>3. CASE Ends(k) /\ UNCHANGED journals
  BY <1>3, EndsType DEF TypeOK
<1> QED
  BY <1>1, <1>2, <1>3 DEF Post

LEMMA KeyTypes ==
  ASSUME TypeOK, NEW k \in Desks, Holds(k)
  PROVE  /\ desk[k].pc \in DraftPcs => DraftKey(k) \in Key
         /\ desk[k].pc \in {"reverse", "link-reversal"} => ReverseKey(desk[k].subject) \in Key
<1>1. DOMAIN journals \subseteq Nat \ {0}
  BY DEF TypeOK
<1> QED
  BY <1>1 DEF Holds, DraftKey, ReverseKey, Key

LEMMA TypeStep ==
  ASSUME TypeOK, DesksHold, [Next]_vars PROVE TypeOK'
<1>0. /\ draft \in [Drafts -> Draft] /\ journals \in Seq(Journal)
      /\ desk \in [Desks -> Request]
      /\ generation \in [Generations -> [draft : Drafts \cup {Nobody},
                                         reversal : Drafts \cup {Nobody}]]
      /\ DOMAIN journals \subseteq Nat
  BY DEF TypeOK, Request
<1>1. ASSUME draft' \in [Drafts -> Draft], journals' \in Seq(Journal),
             desk' \in [Desks -> Request],
             generation' \in [Generations -> [draft : Drafts \cup {Nobody},
                                              reversal : Drafts \cup {Nobody}]]
      PROVE  TypeOK'
  BY <1>1 DEF TypeOK, Request
<1>2. ASSUME NEW d \in Drafts, Create(d) PROVE TypeOK'
  BY <1>0, <1>1, <1>2, SavedType, BodyTypes DEF Create, books
<1>3. ASSUME NEW k \in Desks, Begin(k) PROVE TypeOK'
  <2>1. ASSUME NEW d \in Drafts, BeginUpdate(k, d) PROVE TypeOK'
    <3>1. [Idle EXCEPT !.pc = "update", !.draft = d, !.body = draft[d].body] \in Request
      BY <1>0, Constants DEF Request, Pc, Draft
    <3> QED
      BY <1>0, <1>1, <2>1, <3>1, BeginsType DEF BeginUpdate, books
  <2>2. ASSUME NEW d \in Drafts, BeginValidate(k, d) PROVE TypeOK'
    <3>1. [Idle EXCEPT !.pc = "validate", !.draft = d] \in Request
      BY <1>0, Constants DEF Request, Pc
    <3> QED
      BY <1>0, <1>1, <2>2, <3>1, BeginsType DEF BeginValidate, books
  <2>3. ASSUME NEW d \in Drafts, AnswerLinked(k, d) PROVE TypeOK'
    <3>1. [Idle EXCEPT !.pc = "hook", !.draft = d, !.answer = draft[d].journal] \in Request
      BY <1>0, Constants DEF Request, Pc, Draft
    <3> QED
      BY <1>0, <1>1, <2>3, <3>1, BeginsType DEF AnswerLinked, books
  <2>4. ASSUME NEW d \in Drafts, BeginVoid(k, d) PROVE TypeOK'
    <3>1. [Idle EXCEPT !.pc = "void", !.draft = d] \in Request
      BY <1>0, Constants DEF Request, Pc
    <3> QED
      BY <1>0, <1>1, <2>4, <3>1, BeginsType DEF BeginVoid, books
  <2>5. ASSUME NEW g \in Generations, NEW n \in Drafts, Generate(k, g, n) PROVE TypeOK'
    <3>1. [Idle EXCEPT !.pc = "record", !.draft = n, !.from = g] \in Request
      BY <1>0, Constants DEF Request, Pc
    <3>2. [period |-> g[2], amount |-> TemplateAmount, reverses |-> 0] \in Body
      BY BodyTypes, DeskAssumption
    <3> QED
      BY <1>0, <1>1, <2>5, <3>1, <3>2, BeginsType, SavedType DEF Generate, books
  <2>6. ASSUME NEW i \in DOMAIN journals, NEW p \in Periods, BeginReverse(k, i, p) PROVE TypeOK'
    <3> DEFINE b == [period |-> p, amount |-> -journals[i].amount, reverses |-> i]
    <3>1. b \in Body
      <4>1. journals[i] \in Journal /\ i \in Nat
        BY <1>0
      <4>2. -journals[i].amount \in Int
        BY <4>1 DEF Journal
      <4> QED
        BY <4>1, <4>2 DEF Body
    <3> HIDE DEF b
    <3>2. [Idle EXCEPT !.pc = "reverse", !.subject = i, !.body = b] \in Request
      BY <1>0, <3>1, Constants DEF Request, Pc
    <3>3. Begins(k, [Idle EXCEPT !.pc = "reverse", !.subject = i, !.body = b])
      BY <2>6 DEF BeginReverse, b
    <3> QED
      BY <1>0, <1>1, <2>6, <3>2, <3>3, BeginsType DEF BeginReverse, books
  <2> QED
    BY <1>3, <2>1, <2>2, <2>3, <2>4, <2>5, <2>6 DEF Begin
<1>4. ASSUME NEW k \in Desks, Step(k) PROVE TypeOK'
  <2>0. Holds(k) /\ desk[k] \in Request
    BY <1>0 DEF DesksHold
  <2>1. CASE Update(k)
    <3>1. PICK body \in Typed \cup {desk[k].body} :
            draft' = [draft EXCEPT ![desk[k].draft].status = "DRAFT",
                        ![desk[k].draft].body = [body EXCEPT !.reverses = draft[desk[k].draft].body.reverses]]
      BY <2>1 DEF Update
    <3>2. desk[k].draft \in Drafts
      BY <2>0, <2>1 DEF Update, At, Holds, DraftPcs
    <3> DEFINE b == [body EXCEPT !.reverses = draft[desk[k].draft].body.reverses]
    <3>3. b \in Body
      <4>1. body \in Body
        BY <2>0, BodyTypes DEF Request
      <4>2. draft[desk[k].draft].body.reverses \in Nat
        BY <1>0, <3>2 DEF Draft, Body
      <4> QED
        BY <4>1, <4>2 DEF Body
    <3> HIDE DEF b
    <3>4. draft' \in [Drafts -> Draft]
      BY <3>1, <3>2, <3>3, DraftFieldType DEF DraftStatus, b
    <3> QED
      BY <1>0, <1>1, <2>1, <3>4, EndsType DEF Update, books
  <2>2. CASE Validate(k)
    <3>1. desk[k].draft \in Drafts
      BY <2>0, <2>2 DEF Validate, At, Holds, DraftPcs
    <3>2. draft' \in [Drafts -> Draft]
      BY <2>2, <3>1, DraftFieldType, Constants DEF Validate, DraftStatus
    <3>3. desk' \in [Desks -> Request]
      BY <2>2, EndsType, GoToType DEF Validate, Pc
    <3> QED
      BY <1>0, <1>1, <2>2, <3>2, <3>3 DEF Validate, books
  <2>3. CASE Reload(k)
    <3>1. desk[k].draft \in Drafts
      BY <2>0, <2>3 DEF Reload, At, Holds, DraftPcs
    <3>2. [desk[k] EXCEPT !.pc = "door", !.body = draft[desk[k].draft].body] \in Request
      BY <1>0, <2>0, <3>1 DEF Request, Pc, Draft
    <3>3. desk' \in [Desks -> Request]
      BY <1>0, <2>3, <3>2 DEF Reload
    <3> QED
      BY <1>0, <1>1, <2>3, <3>3 DEF Reload, books
  <2>4. CASE PostDraft(k)
    <3>1. DraftKey(k) \in Key
      BY <2>0, <2>4, KeyTypes DEF PostDraft, At, DraftPcs
    <3> QED
      BY <1>0, <1>1, <2>4, <3>1, PostType DEF PostDraft, Pc
  <2>5. CASE Link(k)
    <3>1. desk[k].draft \in Drafts /\ desk[k].answer \in Nat
      BY <2>0, <2>5 DEF Link, At, Holds, DraftPcs, Request
    <3>2. draft' \in [Drafts -> Draft]
      BY <2>5, <3>1, DraftFieldType, Constants DEF Link, DraftStatus
    <3>3. desk' \in [Desks -> Request]
      BY <2>5, GoToType DEF Link, Pc
    <3> QED
      BY <1>0, <1>1, <2>5, <3>2, <3>3 DEF Link, books
  <2>6. CASE VoidDraft(k)
    <3>1. desk[k].draft \in Drafts
      BY <2>0, <2>6 DEF VoidDraft, At, Holds, DraftPcs
    <3>2. draft' \in [Drafts -> Draft]
      BY <2>6, <3>1, DraftFieldType, Constants DEF VoidDraft, DraftStatus
    <3> QED
      BY <1>0, <1>1, <2>6, <3>2, EndsType DEF VoidDraft, books
  <2>7. CASE Record(k) \/ HookRecords(k)
    <3>1. desk[k].draft \in Drafts
      BY <2>0, <2>7 DEF Record, HookRecords, At, Holds, DraftPcs
    <3>2. generation' \in [Generations -> [draft : Drafts \cup {Nobody},
                                           reversal : Drafts \cup {Nobody}]]
      BY <1>0, <2>7, <3>1 DEF Record, HookRecords
    <3> QED
      BY <1>0, <1>1, <2>7, <3>2, EndsType DEF Record, HookRecords
  <2>8. CASE HookEnds(k)
    BY <1>0, <1>1, <2>8, EndsType DEF HookEnds, books
  <2>9. ASSUME NEW g \in Generations, NEW n \in Drafts, HookCreates(k, g, n) PROVE TypeOK'
    <3>1. [period |-> g[2] + 1, amount |-> -TemplateAmount, reverses |-> desk[k].answer] \in Body
      BY <2>0, <2>9, BodyTypes DEF HookCreates, Request
    <3>2. draft' \in [Drafts -> Draft]
      BY <2>9, <3>1, SavedType DEF HookCreates
    <3>3. [desk[k] EXCEPT !.pc = "record-hook", !.draft = n, !.from = g] \in Request
      BY <2>0 DEF Request, Pc
    <3>4. desk' \in [Desks -> Request]
      BY <1>0, <2>9, <3>3 DEF HookCreates
    <3> QED
      BY <1>0, <1>1, <2>9, <3>2, <3>4 DEF HookCreates, books
  <2>10. CASE PostReversal(k)
    <3>1. ReverseKey(desk[k].subject) \in Key
      BY <2>0, <2>10, KeyTypes DEF PostReversal, At
    <3> QED
      BY <1>0, <1>1, <2>10, <3>1, PostType DEF PostReversal, Pc
  <2>11. CASE LinkReversal(k)
    <3>1. desk[k].subject \in 1 .. Len(journals) /\ desk[k].answer \in Nat
      BY <1>0, <2>0, <2>11 DEF LinkReversal, At, Holds, Request
    <3>2. [journals[desk[k].subject] EXCEPT !.reversedBy = desk[k].answer] \in Journal
      <4>1. journals[desk[k].subject] \in Journal
        BY <1>0, <3>1
      <4> QED
        BY <3>1, <4>1 DEF Journal
    <3>3. journals' \in Seq(Journal)
      BY <1>0, <2>11, <3>1, <3>2, ExceptSeq DEF LinkReversal
    <3> QED
      BY <1>0, <1>1, <2>11, <3>3, EndsType DEF LinkReversal
  <2>12. CASE Die(k)
    BY <1>0, <1>1, <2>12, EndsType DEF Die, books
  <2> QED
    BY <1>4, <2>1, <2>2, <2>3, <2>4, <2>5, <2>6, <2>7, <2>8, <2>9, <2>10, <2>11, <2>12 DEF Step
<1>5. CASE UNCHANGED vars
  BY <1>0, <1>1, <1>5 DEF vars
<1> QED
  BY <1>2, <1>3, <1>4, <1>5 DEF Next
-----------------------------------------------------------------------------
(* What only grows                                                           *)

JournalsGrow ==
  \A i \in DOMAIN journals :
    /\ i \in DOMAIN journals'
    /\ journals'[i].key = journals[i].key /\ journals'[i].amount = journals[i].amount
    /\ journals'[i].period = journals[i].period

DraftsGrow ==
  \A d \in Drafts :
    Exists(d) => Exists(d)' /\ draft'[d].body.reverses = draft[d].body.reverses

GenerationsGrow ==
  \A g \in Generations :
    generation[g].draft # Nobody => generation'[g].draft = generation[g].draft

Evolves == JournalsGrow /\ DraftsGrow /\ GenerationsGrow

LEMMA SameGrows ==
  /\ journals' = journals => JournalsGrow
  /\ draft' = draft => DraftsGrow
  /\ generation' = generation => GenerationsGrow
  BY DEF JournalsGrow, DraftsGrow, GenerationsGrow, Exists

LEMMA SavedGrows ==
  ASSUME TypeOK, NEW n \in Drafts, NEW body \in Body, ~Exists(n), draft' = Saved(n, body)
  PROVE  /\ DraftsGrow /\ Exists(n)' /\ draft'[n].body = body
         /\ draft'[n].status = "DRAFT" /\ draft'[n].journal = 0
         /\ \A d \in Drafts \ {n} : draft'[d] = draft[d]
<1>1. draft'[n] = [NoDraft EXCEPT !.status = "DRAFT", !.body = body]
      /\ \A d \in Drafts \ {n} : draft'[d] = draft[d]
  BY DEF Saved, TypeOK
<1> QED
  BY <1>1 DEF DraftsGrow, Exists, NoDraft

\* A request is back from the door with a journal of its key, or has ended.
Answered(k, key, next) ==
  \/ desk'[k] = Idle
  \/ /\ desk'[k].pc = next /\ desk'[k].draft = desk[k].draft
     /\ desk'[k].subject = desk[k].subject
     /\ desk'[k].answer \in DOMAIN journals' /\ journals'[desk'[k].answer].key = key

\* What a call of the door does to the journals and to its request.
LEMMA PostGrows ==
  ASSUME TypeOK, NEW k \in Desks, NEW key \in Key, NEW next \in Pc, Post(k, key, next)
  PROVE  /\ JournalsGrow
         /\ \A i \in DOMAIN journals : journals'[i] = journals[i]
         /\ \/ journals' = journals
            \/ /\ Under(key) = {}
               /\ DOMAIN journals' = DOMAIN journals \cup {Len(journals) + 1}
               /\ journals'[Len(journals) + 1] = Entry(key, desk[k].body)
         /\ Answered(k, key, next)
<1>0. journals \in Seq(Journal) /\ DOMAIN journals = 1 .. Len(journals)
  BY DEF TypeOK
<1>1. ASSUME NEW i \in Under(key), Answers(k, i, next), UNCHANGED journals
      PROVE  Answered(k, key, next)
  <2>1. i \in Nat
    BY <1>0 DEF Under
  <2>2. desk'[k] = [Idle EXCEPT !.pc = next, !.draft = desk[k].draft,
                               !.subject = desk[k].subject, !.answer = i]
    BY <1>1, <2>1, AnswersType
  <2> QED
    BY <1>1, <2>2 DEF Under, Answered, Idle
<1>2. ASSUME Under(key) = {}, journals' = Append(journals, Entry(key, desk[k].body)),
             Answers(k, Len(journals) + 1, next)
      PROVE  /\ JournalsGrow
             /\ \A i \in DOMAIN journals : journals'[i] = journals[i]
             /\ DOMAIN journals' = DOMAIN journals \cup {Len(journals) + 1}
             /\ journals'[Len(journals) + 1] = Entry(key, desk[k].body)
             /\ Answered(k, key, next)
  <2>1. Entry(key, desk[k].body) \in Journal
    BY EntryType DEF TypeOK
  <2>2. /\ journals' \in Seq(Journal) /\ Len(journals') = Len(journals) + 1
        /\ \A i \in 1 .. Len(journals) : journals'[i] = journals[i]
        /\ journals'[Len(journals) + 1] = Entry(key, desk[k].body)
    BY <1>0, <1>2, <2>1, AppendProperties
  <2>3. DOMAIN journals' = DOMAIN journals \cup {Len(journals) + 1}
    BY <1>0, <2>2
  <2>4. JournalsGrow
    BY <1>0, <2>2, <2>3 DEF JournalsGrow
  <2>5. Len(journals) + 1 \in Nat
    BY <1>0
  <2>6. ASSUME NEW n \in Nat, n = Len(journals) + 1
        PROVE  desk'[k] = [Idle EXCEPT !.pc = next, !.draft = desk[k].draft,
                                       !.subject = desk[k].subject, !.answer = n]
    <3>1. Answers(k, n, next)
      BY <1>2, <2>6
    <3> QED
      BY <3>1, AnswersType
  <2>7. Entry(key, desk[k].body).key = key
    BY DEF Entry
  <2>8. Answered(k, key, next)
    BY <2>2, <2>3, <2>5, <2>6, <2>7 DEF Answered, Idle
  <2> QED
    BY <1>0, <2>2, <2>3, <2>4, <2>8
<1>3. ASSUME Ends(k), UNCHANGED journals PROVE Answered(k, key, next)
  BY <1>3, EndsType DEF Answered
<1>4. CASE \E i \in Under(key) : Answers(k, i, next) /\ UNCHANGED journals
  BY <1>1, <1>4, SameGrows
<1>5. CASE /\ Under(key) = {} /\ journals' = Append(journals, Entry(key, desk[k].body))
           /\ Answers(k, Len(journals) + 1, next)
  BY <1>2, <1>5
<1>6. CASE Ends(k) /\ UNCHANGED journals
  BY <1>3, <1>6, SameGrows
<1> QED
  BY <1>4, <1>5, <1>6 DEF Post

LEMMA LinkReversalGrows ==
  ASSUME TypeOK, NEW k \in Desks, Holds(k), LinkReversal(k)
  PROVE  /\ JournalsGrow /\ DOMAIN journals' = DOMAIN journals
         /\ \A i \in DOMAIN journals :
              journals'[i].reversedBy = IF i = desk[k].subject THEN desk[k].answer
                                        ELSE journals[i].reversedBy
<1>1. /\ journals \in Seq(Journal) /\ desk[k].subject \in DOMAIN journals
      /\ \A i \in DOMAIN journals : journals[i] \in Journal
      /\ journals' = [journals EXCEPT ![desk[k].subject].reversedBy = desk[k].answer]
  BY DEF TypeOK, LinkReversal, Holds, At
<1>2. DOMAIN journals' = DOMAIN journals
  BY <1>1
<1>3. \A i \in DOMAIN journals :
        journals'[i] = IF i = desk[k].subject
                       THEN [journals[i] EXCEPT !.reversedBy = desk[k].answer] ELSE journals[i]
  BY <1>1
<1>4. \A i \in DOMAIN journals :
        /\ journals'[i].key = journals[i].key /\ journals'[i].amount = journals[i].amount
        /\ journals'[i].period = journals[i].period
        /\ journals'[i].reversedBy = IF i = desk[k].subject THEN desk[k].answer
                                     ELSE journals[i].reversedBy
  BY <1>1, <1>3 DEF Journal
<1> QED
  BY <1>2, <1>4 DEF JournalsGrow

\* What the steps of a request do to the drafts.
LEMMA DraftStepGrows ==
  ASSUME TypeOK, NEW k \in Desks, Holds(k),
         Update(k) \/ Validate(k) \/ Link(k) \/ VoidDraft(k)
  PROVE  /\ DraftsGrow
         /\ \A d \in Drafts :
              \/ draft'[d].status # "POSTED_LINKED" /\ draft'[d].journal = draft[d].journal
              \/ draft'[d] = draft[d]
              \/ Link(k) /\ d = desk[k].draft /\ draft'[d].journal = desk[k].answer
<1>0. draft \in [Drafts -> Draft] /\ desk[k].draft \in Drafts
  BY DEF TypeOK, Update, Validate, Link, VoidDraft, At, Holds, DraftPcs
<1>1. CASE Update(k)
  <2>1. PICK body \in Typed \cup {desk[k].body} :
          draft' = [draft EXCEPT ![desk[k].draft].status = "DRAFT",
                      ![desk[k].draft].body = [body EXCEPT !.reverses = draft[desk[k].draft].body.reverses]]
    BY <1>1 DEF Update
  <2>2. body \in Body
    BY BodyTypes DEF TypeOK
  <2>3. /\ draft'[desk[k].draft].body.reverses = draft[desk[k].draft].body.reverses
        /\ draft'[desk[k].draft].status = "DRAFT"
        /\ draft'[desk[k].draft].journal = draft[desk[k].draft].journal
        /\ \A d \in Drafts \ {desk[k].draft} : draft'[d] = draft[d]
    BY <1>0, <2>1, <2>2 DEF Draft, Body
  <2> QED
    BY <2>3 DEF DraftsGrow, Exists
<1>2. CASE Validate(k) \/ VoidDraft(k)
  <2>1. PICK s \in {"DRAFT", "VOIDED"} : draft' = [draft EXCEPT ![desk[k].draft].status = s]
    BY <1>2 DEF Validate, VoidDraft
  <2>2. /\ draft'[desk[k].draft].body = draft[desk[k].draft].body
        /\ draft'[desk[k].draft].status = s
        /\ draft'[desk[k].draft].journal = draft[desk[k].draft].journal
        /\ \A d \in Drafts \ {desk[k].draft} : draft'[d] = draft[d]
    BY <1>0, <2>1 DEF Draft
  <2> QED
    BY <2>2 DEF DraftsGrow, Exists
<1>3. CASE Link(k)
  <2>1. /\ draft'[desk[k].draft].body = draft[desk[k].draft].body
        /\ draft'[desk[k].draft].status = "POSTED_LINKED"
        /\ draft'[desk[k].draft].journal = desk[k].answer
        /\ \A d \in Drafts \ {desk[k].draft} : draft'[d] = draft[d]
    BY <1>0, <1>3 DEF Link, Draft
  <2> QED
    BY <1>3, <2>1 DEF DraftsGrow, Exists
<1> QED
  BY <1>1, <1>2, <1>3

LEMMA StepEvolves ==
  ASSUME TypeOK, DesksHold, [Next]_vars PROVE Evolves
<1>1. ASSUME NEW d \in Drafts, Create(d) PROVE Evolves
  BY <1>1, SavedGrows, SameGrows, BodyTypes DEF Create, books, Evolves
<1>2. ASSUME NEW k \in Desks, Begin(k) PROVE Evolves
  <2>1. CASE draft' = draft /\ UNCHANGED books
    BY <2>1, SameGrows DEF books, Evolves
  <2>2. ASSUME NEW g \in Generations, NEW n \in Drafts, Generate(k, g, n) PROVE Evolves
    <3>1. [period |-> g[2], amount |-> TemplateAmount, reverses |-> 0] \in Body
      BY BodyTypes, DeskAssumption
    <3> QED
      BY <2>2, <3>1, SavedGrows, SameGrows DEF Generate, books, Evolves
  <2> QED
    BY <1>2, <2>1, <2>2 DEF Begin, BeginUpdate, BeginValidate, AnswerLinked, BeginVoid,
      BeginReverse, books
<1>3. ASSUME NEW k \in Desks, Step(k) PROVE Evolves
  <2>0. Holds(k)
    BY DEF DesksHold
  <2>1. CASE draft' = draft /\ UNCHANGED books
    BY <2>1, SameGrows DEF books, Evolves
  <2>2. CASE Update(k) \/ Validate(k) \/ Link(k) \/ VoidDraft(k)
    <3>1. UNCHANGED books
      BY <2>2 DEF Update, Validate, Link, VoidDraft
    <3> QED
      BY <2>0, <2>2, <3>1, DraftStepGrows, SameGrows DEF books, Evolves
  <2>3. CASE PostDraft(k)
    <3>1. DraftKey(k) \in Key
      BY <2>0, <2>3, KeyTypes DEF PostDraft, At, DraftPcs
    <3> QED
      BY <2>3, <3>1, PostGrows, SameGrows DEF PostDraft, Pc, Evolves
  <2>4. CASE PostReversal(k)
    <3>1. ReverseKey(desk[k].subject) \in Key
      BY <2>0, <2>4, KeyTypes DEF PostReversal, At
    <3> QED
      BY <2>4, <3>1, PostGrows, SameGrows DEF PostReversal, Pc, Evolves
  <2>5. CASE LinkReversal(k)
    BY <2>0, <2>5, LinkReversalGrows, SameGrows DEF LinkReversal, Evolves
  <2>6. CASE Record(k)
    <3>1. GenerationsGrow
      BY <2>6 DEF Record, TypeOK, GenerationsGrow
    <3> QED
      BY <2>6, <3>1, SameGrows DEF Record, Evolves
  <2>7. CASE HookRecords(k)
    <3>1. GenerationsGrow
      BY <2>7 DEF HookRecords, TypeOK, GenerationsGrow
    <3> QED
      BY <2>7, <3>1, SameGrows DEF HookRecords, Evolves
  <2>8. ASSUME NEW g \in Generations, NEW n \in Drafts, HookCreates(k, g, n) PROVE Evolves
    <3>1. [period |-> g[2] + 1, amount |-> -TemplateAmount, reverses |-> desk[k].answer] \in Body
      BY <2>8, BodyTypes DEF HookCreates, TypeOK
    <3> QED
      BY <2>8, <3>1, SavedGrows, SameGrows DEF HookCreates, books, Evolves
  <2> QED
    BY <1>3, <2>1, <2>2, <2>3, <2>4, <2>5, <2>6, <2>7, <2>8 DEF Step, Reload, HookEnds, Die, books
<1>4. CASE UNCHANGED vars
  BY <1>4, SameGrows DEF vars, Evolves
<1> QED
  BY <1>1, <1>2, <1>3, <1>4 DEF Next
-----------------------------------------------------------------------------
(* What a request holds stays true, and comes true                           *)

LEMMA UnderGrows ==
  ASSUME JournalsGrow, NEW key, NEW i \in Under(key)
  PROVE  i \in DOMAIN journals' /\ journals'[i].key = key
  BY DEF JournalsGrow, Under

LEMMA HoldsStays ==
  ASSUME TypeOK, Evolves, NEW k \in Desks, Holds(k), desk'[k] = desk[k]
  PROVE  Holds(k)'
<1> DEFINE r == desk[k]
<1>0. JournalsGrow /\ DraftsGrow /\ GenerationsGrow
  BY DEF Evolves
<1>1. r.pc \in DraftPcs => r.draft \in Drafts /\ draft'[r.draft].status # "NONE"
  BY <1>0 DEF Holds, DraftsGrow, Exists
<1>2. r.pc \in {"record", "record-hook"} => r.from \in Generations
  BY DEF Holds
<1>3. r.pc \in {"link", "hook"} =>
        /\ r.answer \in DOMAIN journals'
        /\ journals'[r.answer].key = [op |-> "draft-post", of |-> r.draft]
  BY <1>0, UnderGrows DEF Holds, PostedFrom
<1>4. r.pc = "record-hook" =>
        /\ generation'[r.from].draft = generation[r.from].draft
        /\ generation[r.from].draft \in Drafts
        /\ draft'[r.draft].body.reverses = draft[r.draft].body.reverses
  BY <1>0, <1>2, DeskAssumption DEF Holds, DraftsGrow, GenerationsGrow, DraftPcs
<1>5. r.pc = "record-hook" =>
        /\ draft'[r.draft].body.reverses \in DOMAIN journals'
        /\ journals'[draft'[r.draft].body.reverses].key
             = [op |-> "draft-post", of |-> generation'[r.from].draft]
  <2>1. r.pc = "record-hook" =>
          draft[r.draft].body.reverses \in Under([op |-> "draft-post", of |-> generation[r.from].draft])
    BY DEF Holds, PostedFrom
  <2> QED
    BY <1>0, <1>4, <2>1, UnderGrows
<1>6. r.pc \in {"reverse", "link-reversal"} => r.subject \in DOMAIN journals'
  BY <1>0 DEF Holds, JournalsGrow
<1>7. r.pc = "reverse" =>
       /\ r.body.amount = -journals'[r.subject].amount
       /\ r.body.period >= journals'[r.subject].period
  BY <1>0 DEF Holds, JournalsGrow
<1>8. r.pc = "link-reversal" =>
        /\ r.answer \in DOMAIN journals'
        /\ journals'[r.answer].key = ReverseKey(r.subject)
  BY <1>0, UnderGrows DEF Holds
<1> QED
  BY <1>1, <1>2, <1>3, <1>4, <1>5, <1>6, <1>7, <1>8 DEF Holds, Exists, PostedFrom, Under, ReverseKey

LEMMA IdleHolds ==
  ASSUME NEW k \in Desks, desk'[k] = Idle PROVE Holds(k)'
  BY DEF Holds, Idle, DraftPcs

LEMMA BeginHolds ==
  ASSUME TypeOK, LinksAreTrue, Evolves, NEW k \in Desks, Begin(k)
  PROVE  Holds(k)' /\ \A j \in Desks \ {k} : desk'[j] = desk[j]
<1>0. /\ desk \in [Desks -> Request] /\ draft \in [Drafts -> Draft]
      /\ \A i \in DOMAIN journals : journals[i] \in Journal /\ i \in Nat
  BY DEF TypeOK, Request
<1>1. ASSUME NEW d \in Drafts, BeginUpdate(k, d) \/ BeginValidate(k, d) \/ BeginVoid(k, d)
      PROVE  Holds(k)' /\ \A j \in Desks \ {k} : desk'[j] = desk[j]
  <2>1. /\ desk'[k].pc \in {"update", "validate", "void"} /\ desk'[k].draft = d
        /\ \A j \in Desks \ {k} : desk'[j] = desk[j]
    BY <1>0, <1>1 DEF BeginUpdate, BeginValidate, BeginVoid, Begins, Idle
  <2>2. Exists(d)'
    BY <1>1 DEF BeginUpdate, BeginValidate, BeginVoid, Editable, Exists
  <2> QED
    BY <2>1, <2>2 DEF Holds, Exists, DraftPcs
<1>2. ASSUME NEW d \in Drafts, AnswerLinked(k, d)
      PROVE  Holds(k)' /\ \A j \in Desks \ {k} : desk'[j] = desk[j]
  <2>1. /\ desk'[k].pc = "hook" /\ desk'[k].draft = d /\ desk'[k].answer = draft[d].journal
        /\ \A j \in Desks \ {k} : desk'[j] = desk[j]
    BY <1>0, <1>2 DEF AnswerLinked, Begins, Idle
  <2>2. draft[d].journal \in PostedFrom(d) /\ draft' = draft /\ journals' = journals
        /\ draft[d].status # "NONE"
    BY <1>2 DEF AnswerLinked, LinksAreTrue, books
  <2> QED
    BY <2>1, <2>2 DEF Holds, Exists, DraftPcs, PostedFrom, Under
<1>3. ASSUME NEW g \in Generations, NEW n \in Drafts, Generate(k, g, n)
      PROVE  Holds(k)' /\ \A j \in Desks \ {k} : desk'[j] = desk[j]
  <2>1. /\ desk'[k].pc = "record" /\ desk'[k].draft = n /\ desk'[k].from = g
        /\ \A j \in Desks \ {k} : desk'[j] = desk[j]
    BY <1>0, <1>3 DEF Generate, Begins, Idle
  <2>2. [period |-> g[2], amount |-> TemplateAmount, reverses |-> 0] \in Body
    BY BodyTypes, DeskAssumption
  <2>3. draft'[n].status = "DRAFT"
    BY <1>3, <2>2, SavedGrows DEF Generate
  <2> QED
    BY <2>1, <2>3 DEF Holds, Exists, DraftPcs
<1>4. ASSUME NEW i \in DOMAIN journals, NEW p \in Periods, BeginReverse(k, i, p)
      PROVE  Holds(k)' /\ \A j \in Desks \ {k} : desk'[j] = desk[j]
  <2>1. /\ desk'[k].pc = "reverse" /\ desk'[k].subject = i
        /\ desk'[k].body.amount = -journals[i].amount /\ desk'[k].body.period = p
        /\ \A j \in Desks \ {k} : desk'[j] = desk[j]
    BY <1>0, <1>4 DEF BeginReverse, Begins, Idle
  <2>2. p >= journals[i].period /\ journals' = journals
    BY <1>4 DEF BeginReverse, books
  <2> QED
    BY <2>1, <2>2 DEF Holds, DraftPcs
<1> QED
  BY <1>1, <1>2, <1>3, <1>4 DEF Begin

LEMMA StepHolds ==
  ASSUME TypeOK, Evolves, NEW k \in Desks, Holds(k), Step(k)
  PROVE  Holds(k)' /\ \A j \in Desks \ {k} : desk'[j] = desk[j]
<1> DEFINE Goal == Holds(k)' /\ \A j \in Desks \ {k} : desk'[j] = desk[j]
           r == desk[k]
<1>0. /\ desk \in [Desks -> Request] /\ draft \in [Drafts -> Draft] /\ r \in Request
      /\ JournalsGrow /\ DraftsGrow /\ GenerationsGrow
  BY DEF TypeOK, Request, Evolves
<1>1. CASE Ends(k)
  BY <1>1, EndsType, IdleHolds
<1>2. CASE Validate(k) \/ Reload(k) \/ Link(k)
  <2>1. CASE Ends(k)
    BY <1>1, <2>1
  <2>2. CASE ~Ends(k)
    <3>1. /\ r.pc \in {"validate", "reload", "link"}
          /\ desk'[k].pc \in {"reload", "door", "hook"} /\ desk'[k].draft = r.draft
          /\ desk'[k].pc = "hook" => r.pc = "link" /\ desk'[k].answer = r.answer
          /\ \A j \in Desks \ {k} : desk'[j] = desk[j]
      BY <1>0, <1>2, <2>2 DEF Validate, Reload, Link, GoTo, At, Request
    <3>2. r.draft \in Drafts /\ Exists(r.draft)
      BY <3>1 DEF Holds, DraftPcs
    <3>3. draft'[r.draft].status # "NONE"
      BY <1>0, <3>2 DEF DraftsGrow, Exists
    <3>4. r.pc = "link" => /\ r.answer \in DOMAIN journals'
                           /\ journals'[r.answer].key = [op |-> "draft-post", of |-> r.draft]
      BY <1>0, UnderGrows DEF Holds, PostedFrom
    <3> QED
      BY <3>1, <3>2, <3>3, <3>4 DEF Holds, Exists, DraftPcs, PostedFrom, Under
  <2> QED
    BY <2>1, <2>2
<1>3. CASE PostDraft(k)
  <2>1. r.pc = "door" /\ r.draft \in Drafts /\ Exists(r.draft)
    BY <1>3 DEF PostDraft, At, Holds, DraftPcs
  <2>2. DraftKey(k) \in Key /\ Post(k, DraftKey(k), "link") /\ draft' = draft
    BY <1>3, <2>1, KeyTypes DEF PostDraft, DraftPcs
  <2>3. \A j \in Desks \ {k} : desk'[j] = desk[j]
    BY <2>2, PostType DEF Pc
  <2>4. CASE desk'[k] = Idle
    BY <2>3, <2>4, IdleHolds
  <2>5. CASE desk'[k] # Idle
    <3>1. /\ desk'[k].pc = "link" /\ desk'[k].draft = r.draft
          /\ desk'[k].answer \in DOMAIN journals' /\ journals'[desk'[k].answer].key = DraftKey(k)
      BY <2>2, <2>5, PostGrows DEF Pc, Answered
    <3>2. DraftKey(k) = [op |-> "draft-post", of |-> r.draft]
      BY DEF DraftKey
    <3> QED
      BY <2>1, <2>2, <2>3, <3>1, <3>2 DEF Holds, Exists, DraftPcs, PostedFrom, Under
  <2> QED
    BY <2>4, <2>5
<1>4. ASSUME NEW g \in Generations, NEW n \in Drafts, HookCreates(k, g, n) PROVE Goal
  <2>1. /\ r.pc = "hook" /\ generation[g].draft = r.draft /\ r.draft \in Drafts
        /\ r.answer \in PostedFrom(r.draft)
    BY <1>4 DEF HookCreates, At, Holds, DraftPcs
  <2>2. /\ desk'[k].pc = "record-hook" /\ desk'[k].draft = n /\ desk'[k].from = g
        /\ \A j \in Desks \ {k} : desk'[j] = desk[j]
    BY <1>0, <1>4 DEF HookCreates, Request
  <2>3. [period |-> g[2] + 1, amount |-> -TemplateAmount, reverses |-> r.answer] \in Body
    BY <1>0, <1>4, BodyTypes DEF HookCreates, Request
  <2>4. draft'[n].body.reverses = r.answer /\ draft'[n].status = "DRAFT"
    BY <1>4, <2>3, SavedGrows DEF HookCreates
  <2>5. generation' = generation /\ journals' = journals
    BY <1>4 DEF HookCreates, books
  <2> QED
    BY <2>1, <2>2, <2>4, <2>5 DEF Holds, Exists, DraftPcs, PostedFrom, Under
<1>5. CASE PostReversal(k)
  <2>1. r.pc = "reverse" /\ r.subject \in DOMAIN journals
    BY <1>5 DEF PostReversal, At, Holds
  <2>2. ReverseKey(r.subject) \in Key /\ Post(k, ReverseKey(r.subject), "link-reversal")
    BY <1>5, <2>1, KeyTypes DEF PostReversal
  <2>3. \A j \in Desks \ {k} : desk'[j] = desk[j]
    BY <2>2, PostType DEF Pc
  <2>4. CASE desk'[k] = Idle
    BY <2>3, <2>4, IdleHolds
  <2>5. CASE desk'[k] # Idle
    <3>1. /\ desk'[k].pc = "link-reversal" /\ desk'[k].subject = r.subject
          /\ desk'[k].answer \in DOMAIN journals'
          /\ journals'[desk'[k].answer].key = ReverseKey(r.subject)
      BY <2>2, <2>5, PostGrows DEF Pc, Answered
    <3>2. r.subject \in DOMAIN journals'
      BY <1>0, <2>1 DEF JournalsGrow
    <3> QED
      BY <2>3, <3>1, <3>2 DEF Holds, DraftPcs, Under, ReverseKey
  <2> QED
    BY <2>4, <2>5
<1> QED
  BY <1>1, <1>2, <1>3, <1>4, <1>5 DEF Step, Update, VoidDraft, Record, HookRecords, HookEnds,
    LinkReversal, Die

LEMMA DesksStep ==
  ASSUME TypeOK, DesksHold, LinksAreTrue, Evolves, [Next]_vars PROVE DesksHold'
<1>1. ASSUME NEW k \in Desks, Begin(k) \/ Step(k) PROVE \A j \in Desks : Holds(j)'
  BY <1>1, BeginHolds, StepHolds, HoldsStays DEF DesksHold
<1>2. ASSUME desk' = desk PROVE \A j \in Desks : Holds(j)'
  BY <1>2, HoldsStays DEF DesksHold
<1>3. \A j \in Desks : Holds(j)'
  BY <1>1, <1>2 DEF Next, Create, vars
<1> QED
  BY <1>3 DEF DesksHold
-----------------------------------------------------------------------------
(* Links, reversals and generations                                          *)

LEMMA LinksStep ==
  ASSUME TypeOK, DesksHold, LinksAreTrue, Evolves, [Next]_vars PROVE LinksAreTrue'
<1> SUFFICES ASSUME NEW d \in Drafts
             PROVE  /\ draft'[d].status = "POSTED_LINKED" => draft'[d].journal # 0
                    /\ draft'[d].journal # 0 => draft'[d].journal \in PostedFrom(d)'
  BY DEF LinksAreTrue
<1> DEFINE Goal == /\ draft'[d].status = "POSTED_LINKED" => draft'[d].journal # 0
                   /\ draft'[d].journal # 0 => draft'[d].journal \in PostedFrom(d)'
<1>0. JournalsGrow /\ DOMAIN journals \subseteq Nat \ {0}
  BY DEF TypeOK, Evolves
<1>1. ASSUME NEW i \in PostedFrom(d) PROVE i # 0 /\ i \in PostedFrom(d)'
  BY <1>0, <1>1 DEF PostedFrom, Under, JournalsGrow
<1>2. ASSUME \/ draft'[d] = draft[d]
             \/ draft'[d].status # "POSTED_LINKED" /\ draft'[d].journal = draft[d].journal
      PROVE  Goal
  BY <1>1, <1>2 DEF LinksAreTrue
<1>3. ASSUME NEW n \in Drafts, NEW body \in Body, ~Exists(n), draft' = Saved(n, body) PROVE Goal
  <2>1. CASE d = n
    BY <1>3, <2>1, SavedGrows
  <2>2. CASE d # n
    BY <1>2, <1>3, <2>2, SavedGrows
  <2> QED
    BY <2>1, <2>2
<1>4. ASSUME NEW n \in Drafts, Create(n) PROVE Goal
  BY <1>3, <1>4, BodyTypes DEF Create
<1>5. ASSUME NEW k \in Desks, NEW g \in Generations, NEW n \in Drafts, Generate(k, g, n)
      PROVE  Goal
  <2>1. [period |-> g[2], amount |-> TemplateAmount, reverses |-> 0] \in Body
    BY BodyTypes, DeskAssumption
  <2> QED
    BY <1>3, <1>5, <2>1 DEF Generate
<1>6. ASSUME NEW k \in Desks, NEW g \in Generations, NEW n \in Drafts, HookCreates(k, g, n)
      PROVE  Goal
  <2>1. [period |-> g[2] + 1, amount |-> -TemplateAmount, reverses |-> desk[k].answer] \in Body
    BY <1>6, BodyTypes DEF HookCreates, TypeOK
  <2> QED
    BY <1>3, <1>6, <2>1 DEF HookCreates
<1>7. ASSUME NEW k \in Desks, Update(k) \/ Validate(k) \/ Link(k) \/ VoidDraft(k) PROVE Goal
  <2>0. Holds(k)
    BY DEF DesksHold
  <2>1. \/ draft'[d].status # "POSTED_LINKED" /\ draft'[d].journal = draft[d].journal
        \/ draft'[d] = draft[d]
        \/ Link(k) /\ d = desk[k].draft /\ draft'[d].journal = desk[k].answer
    BY <1>7, <2>0, DraftStepGrows
  <2>2. ASSUME Link(k), d = desk[k].draft, draft'[d].journal = desk[k].answer PROVE Goal
    <3>1. desk[k].answer \in PostedFrom(d)
      BY <2>0, <2>2 DEF Link, At, Holds
    <3> QED
      BY <1>1, <2>2, <3>1
  <2> QED
    BY <1>2, <2>1, <2>2
<1>8. ASSUME draft' = draft PROVE Goal
  BY <1>2, <1>8
<1> QED
  BY <1>4, <1>5, <1>6, <1>7, <1>8 DEF Next, Begin, Step, BeginUpdate, BeginValidate,
    AnswerLinked, BeginVoid, BeginReverse, Reload, PostDraft, Record, HookRecords, HookEnds,
    PostReversal, LinkReversal, Die, vars

(* A posting under a new key: what it says of the journal it reverses, if it     *)
(* does, is what its request held.                                              *)
LEMMA PostTrue ==
  ASSUME TypeOK, JournalsTrue, NEW k \in Desks, NEW key \in Key, NEW next \in Pc,
         Post(k, key, next),
         key.op = "reverse" =>
           /\ key.of \in DOMAIN journals
           /\ desk[k].body.amount = -journals[key.of].amount
           /\ desk[k].body.period >= journals[key.of].period
  PROVE  JournalsTrue'
<1>0. /\ JournalsGrow /\ \A i \in DOMAIN journals : journals'[i] = journals[i]
  BY PostGrows
<1>a. DOMAIN journals = 1 .. Len(journals) /\ Len(journals) \in Nat
  BY DEF TypeOK
<1>1. CASE journals' = journals
  BY <1>1 DEF JournalsTrue, JournalTrue, Under
<1>2. CASE /\ Under(key) = {}
           /\ DOMAIN journals' = DOMAIN journals \cup {Len(journals) + 1}
           /\ journals'[Len(journals) + 1] = Entry(key, desk[k].body)
  <2> DEFINE m == Len(journals) + 1
  <2>1. /\ journals'[m].key = key /\ journals'[m].amount = desk[k].body.amount
        /\ journals'[m].period = desk[k].body.period /\ journals'[m].reversedBy = 0
        /\ m \notin DOMAIN journals
    BY <1>a, <1>2 DEF Entry
  <2>2. \A j \in DOMAIN journals : journals[j].key # key
    BY <1>2 DEF Under
  <2>3. ASSUME NEW i \in DOMAIN journals PROVE JournalTrue(i)'
    BY <1>0, <1>a, <1>2, <2>1, <2>2, <2>3 DEF JournalsTrue, JournalTrue, Under
  <2>4. ASSUME NEW i, i = m PROVE JournalTrue(i)'
    BY <1>0, <1>a, <1>2, <2>1, <2>2, <2>4 DEF JournalTrue
  <2>5. ASSUME NEW i \in DOMAIN journals' PROVE JournalTrue(i)'
    BY <1>2, <2>3, <2>4, <2>5
  <2> QED
    BY <2>5 DEF JournalsTrue
<1> QED
  BY <1>1, <1>2, PostGrows

LEMMA JournalsStep ==
  ASSUME TypeOK, DesksHold, JournalsTrue, Evolves, [Next]_vars PROVE JournalsTrue'
<1>1. ASSUME journals' = journals PROVE JournalsTrue'
  BY <1>1 DEF JournalsTrue, JournalTrue, Under
<1>2. ASSUME NEW k \in Desks, PostDraft(k) PROVE JournalsTrue'
  <2>1. DraftKey(k) \in Key
    BY <1>2, KeyTypes DEF DesksHold, PostDraft, At, DraftPcs
  <2>2. DraftKey(k).op # "reverse" /\ "link" \in Pc
    BY DEF DraftKey, Pc
  <2> QED
    BY <1>2, <2>1, <2>2, PostTrue DEF PostDraft
<1>3. ASSUME NEW k \in Desks, PostReversal(k) PROVE JournalsTrue'
  <2>1. ReverseKey(desk[k].subject) \in Key
    BY <1>3, KeyTypes DEF DesksHold, PostReversal, At
  <2>2. /\ ReverseKey(desk[k].subject).of = desk[k].subject /\ "link-reversal" \in Pc
        /\ desk[k].subject \in DOMAIN journals
        /\ desk[k].body.amount = -journals[desk[k].subject].amount
        /\ desk[k].body.period >= journals[desk[k].subject].period
    BY <1>3 DEF ReverseKey, Pc, DesksHold, Holds, PostReversal, At
  <2> QED
    BY <1>3, <2>1, <2>2, PostTrue DEF PostReversal
<1>4. ASSUME NEW k \in Desks, LinkReversal(k) PROVE JournalsTrue'
  <2>0. Holds(k) /\ desk[k].pc = "link-reversal"
    BY <1>4 DEF DesksHold, LinkReversal, At
  <2>1. /\ JournalsGrow /\ DOMAIN journals' = DOMAIN journals
        /\ \A i \in DOMAIN journals :
             journals'[i].reversedBy = IF i = desk[k].subject THEN desk[k].answer
                                       ELSE journals[i].reversedBy
    BY <1>4, <2>0, LinkReversalGrows
  <2>2. desk[k].answer \in Under(ReverseKey(desk[k].subject))
    BY <2>0 DEF Holds
  <2> QED
    BY <2>1, <2>2 DEF JournalsGrow, JournalsTrue, JournalTrue, Under
<1> QED
  BY <1>1, <1>2, <1>3, <1>4 DEF Next, Create, Begin, Step, BeginUpdate, BeginValidate,
    AnswerLinked, BeginVoid, Generate, BeginReverse, Update, Validate, Reload, Link, VoidDraft,
    Record, HookCreates, HookRecords, HookEnds, Die, books, vars

LEMMA GenerationsStep ==
  ASSUME TypeOK, DesksHold, GenerationsHold, Evolves, [Next]_vars PROVE GenerationsHold'
<1> SUFFICES ASSUME NEW g \in Generations, generation'[g].reversal # Nobody
             PROVE  /\ generation'[g].draft \in Drafts /\ generation'[g].reversal \in Drafts
                    /\ Exists(generation[g].reversal)'
                    /\ (draft[generation[g].reversal].body.reverses
                          \in PostedFrom(generation[g].draft))'
  BY DEF GenerationsHold
<1> DEFINE a == generation'[g].reversal
           b == generation'[g].draft
<1>0. JournalsGrow /\ DraftsGrow /\ GenerationsGrow
  BY DEF Evolves
<1>1. /\ a \in Drafts /\ b \in Drafts /\ Exists(a)
      /\ b = generation[g].draft
      /\ draft[a].body.reverses \in PostedFrom(generation[g].draft)
  <2>1. CASE generation[g].reversal = a
    <3>1. generation[g].draft \in Drafts /\ generation[g].draft # Nobody
      BY <2>1, DeskAssumption DEF GenerationsHold
    <3>2. b = generation[g].draft
      BY <1>0, <3>1 DEF GenerationsGrow
    <3> QED
      BY <2>1, <3>1, <3>2 DEF GenerationsHold
  <2>2. CASE generation[g].reversal # a
    <3>0. generation' # generation
      BY <2>2
    <3>1. PICK k \in Desks : HookRecords(k)
      <4>1. ASSUME NEW k \in Desks, Record(k) PROVE FALSE
        BY <2>2, <4>1 DEF Record, TypeOK
      <4> QED
        BY <3>0, <4>1 DEF Next, Create, Begin, Step, BeginUpdate, BeginValidate, AnswerLinked,
          BeginVoid, Generate, BeginReverse, Update, Validate, Reload, PostDraft, Link,
          VoidDraft, HookCreates, HookEnds, PostReversal, LinkReversal, Die, books, vars
    <3>2. /\ desk[k].pc = "record-hook" /\ Holds(k)
          /\ generation' = [generation EXCEPT ![desk[k].from].reversal = desk[k].draft]
      BY <3>1 DEF HookRecords, At, DesksHold
    <3>3. g = desk[k].from /\ a = desk[k].draft /\ b = generation[g].draft
      BY <2>2, <3>2 DEF TypeOK
    <3> QED
      BY <3>2, <3>3 DEF Holds, DraftPcs
  <2> QED
    BY <2>1, <2>2
<1>2. draft'[a].status # "NONE" /\ draft'[a].body.reverses = draft[a].body.reverses
  BY <1>0, <1>1 DEF DraftsGrow, Exists
<1>3. /\ draft'[a].body.reverses \in DOMAIN journals'
      /\ journals'[draft'[a].body.reverses].key = [op |-> "draft-post", of |-> b]
  BY <1>0, <1>1, <1>2, UnderGrows DEF PostedFrom
<1> QED
  BY <1>1, <1>2, <1>3 DEF Exists, PostedFrom, Under

LEMMA Invariance == Spec => []IInv
<1>1. Init => IInv
  <2> SUFFICES ASSUME Init PROVE IInv
    OBVIOUS
  <2>1. TypeOK
    BY Constants DEF Init, TypeOK, NoGeneration, Request
  <2>2. DesksHold
    BY DEF Init, DesksHold, Holds, Idle, DraftPcs
  <2>3. LinksAreTrue
    BY DEF Init, LinksAreTrue, NoDraft
  <2>4. JournalsTrue
    BY DEF Init, JournalsTrue
  <2>5. GenerationsHold
    BY DEF Init, GenerationsHold, NoGeneration
  <2> QED
    BY <2>1, <2>2, <2>3, <2>4, <2>5 DEF IInv
<1>2. IInv /\ [Next]_vars => IInv'
  <2> SUFFICES ASSUME IInv, [Next]_vars PROVE IInv'
    OBVIOUS
  <2>1. TypeOK /\ DesksHold /\ LinksAreTrue /\ JournalsTrue /\ GenerationsHold
    BY DEF IInv
  <2>2. Evolves
    BY <2>1, StepEvolves
  <2> QED
    BY <2>1, <2>2, TypeStep, DesksStep, LinksStep, JournalsStep, GenerationsStep DEF IInv
<1> QED
  BY <1>1, <1>2, PTL DEF Spec

(* JournalDesk's type invariant, for all drafts, templates and requests.        *)
THEOREM TypeCorrect == Spec => []TypeOK
<1>1. IInv => TypeOK
  BY DEF IInv
<1> QED
  BY <1>1, Invariance, PTL

(* DraftService.postDraft: the link of a draft names its own journal.           *)
THEOREM LinksTrue == Spec => []LinksAreTrue
<1>1. IInv => LinksAreTrue
  BY DEF IInv
<1> QED
  BY <1>1, Invariance, PTL

(* ReversalService.reverse: a journal has one reversal, and that cancels it.    *)
THEOREM ReversalsOnce == Spec => []ReversalsCancelOnce
<1>1. ASSUME IInv PROVE ReversalsCancelOnce
  <2> SUFFICES ASSUME NEW i \in DOMAIN journals
               PROVE  /\ \A j \in Under(ReverseKey(i)) :
                           /\ journals[j].amount = -journals[i].amount
                           /\ journals[j].period >= journals[i].period
                           /\ \A m \in Under(ReverseKey(i)) : m = j
                      /\ journals[i].reversedBy # 0 =>
                           journals[i].reversedBy \in Under(ReverseKey(i))
    BY DEF ReversalsCancelOnce
  <2>1. \A j \in DOMAIN journals : JournalTrue(j)
    BY <1>1 DEF IInv, JournalsTrue
  <2>2. ASSUME NEW j \in Under(ReverseKey(i))
        PROVE  /\ journals[j].amount = -journals[i].amount
               /\ journals[j].period >= journals[i].period
               /\ \A m \in Under(ReverseKey(i)) : m = j
    <3>1. j \in DOMAIN journals /\ journals[j].key.op = "reverse" /\ journals[j].key.of = i
      BY DEF Under, ReverseKey
    <3>2. \A m \in Under(ReverseKey(i)) : m \in DOMAIN journals /\ journals[m].key = journals[j].key
      BY DEF Under
    <3> QED
      BY <2>1, <3>1, <3>2 DEF JournalTrue
  <2> QED
    BY <2>1, <2>2 DEF JournalTrue
<1> QED
  BY <1>1, Invariance, PTL

(* RecurringTemplateService.handlePosted: what is to reverse a generation        *)
(* reverses a journal posted from the generation's draft.                       *)
THEOREM GenerationsTrue == Spec => []GenerationsTellTrue
<1>1. IInv => GenerationsTellTrue
  BY DEF IInv, GenerationsHold, GenerationsTellTrue
<1> QED
  BY <1>1, Invariance, PTL
=============================================================================
