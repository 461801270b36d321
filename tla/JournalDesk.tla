----------------------------- MODULE JournalDesk -----------------------------
(***************************************************************************)
(* What happens in front of the posting door of services/coa-service:       *)
(* people type drafts, validate, post and void them (DraftService); a        *)
(* ceremony generates drafts from recurring templates, and a posted one gets *)
(* a draft that reverses it (RecurringTemplateService); posted journals are  *)
(* reversed (ReversalService).                                               *)
(*                                                                         *)
(* Each operation reads, then calls the door or writes in transactions of    *)
(* their own, and checks nothing again: two of them interleave at every      *)
(* step, and a request may die between any two.  The door itself             *)
(* (PostingService.post, the module PostingLedger) is one step here, and     *)
(* whether the rule engine lets a journal pass, which hangs on its lines and *)
(* on the status of its period at that moment, is left open.                 *)
(***************************************************************************)
EXTENDS Integers, Sequences, FiniteSets

CONSTANTS
  Drafts,      \* ids of drafts
  Templates,   \* the active recurring templates
  AutoReverse, \* those whose journals get a reversing draft
  Desks,       \* requests under way at once
  Nobody,      \* no draft
  Typed,       \* what people type
  TemplateAmount,
  MaxPeriod,   \* the periods are 1 .. MaxPeriod, in calendar order
  Generations, \* the <<template, period>> pairs that drafts are generated for
  MaxJournals  \* bound: journals

Periods == 1 .. MaxPeriod

ASSUME DeskAssumption ==
  /\ Nobody \notin Drafts
  /\ AutoReverse \subseteq Templates /\ Generations \subseteq Templates \X Periods
  /\ Typed \subseteq [period : Periods, amount : Int, reverses : {0}]
  /\ TemplateAmount \in Int
  /\ MaxPeriod \in Nat \ {0} /\ MaxJournals \in Nat

VARIABLES
  draft,       \* manual_je_draft
  journals,    \* journal_entry, in the order of posting
  generation,  \* recurring_template_generation, by template and period
  desk         \* the local variables of each request

vars == <<draft, journals, generation, desk>>
-----------------------------------------------------------------------------
\* DRAFT is VALIDATED as well: no operation tells the two apart.
DraftStatus == {"NONE", "DRAFT", "POSTED_LINKED", "VOIDED"}

\* A draft says what to post and, if it came to be so, which journal it reverses.
Body == [period : Periods, amount : Int, reverses : Nat]

Draft == [status : DraftStatus, body : Body, journal : Nat]

\* The idempotency key names the draft, or the journal that is reversed.
Key == [op : {"draft-post"}, of : Drafts] \cup [op : {"reverse"}, of : Nat \ {0}]

Journal == [key : Key, period : Periods, amount : Int, reverses : Nat,
            reversedBy : Nat]

NoBody == [period |-> 1, amount |-> 0, reverses |-> 0]

NoDraft == [status |-> "NONE", body |-> NoBody, journal |-> 0]

NoGeneration == [draft |-> Nobody, reversal |-> Nobody]

\* What a request holds: the draft or the journal it is about, the body it read or
\* made, the journal the door answered, the generation it is about.
Idle == [pc |-> "idle", draft |-> Nobody, body |-> NoBody,
         subject |-> 0, answer |-> 0, from |-> <<>>]

Pc == {"idle", "update", "validate", "reload", "door", "link", "hook", "record-hook",
       "void", "reverse", "link-reversal", "record"}

TypeOK ==
  /\ draft \in [Drafts -> Draft]
  /\ journals \in Seq(Journal)
  /\ generation \in [Generations -> [draft : Drafts \cup {Nobody},
                                     reversal : Drafts \cup {Nobody}]]
  /\ desk \in [Desks -> [pc : Pc, draft : Drafts \cup {Nobody},
                         body : Body, subject : Nat, answer : Nat,
                         from : Generations \cup {<<>>}]]

Init ==
  /\ draft = [d \in Drafts |-> NoDraft]
  /\ journals = <<>>
  /\ generation = [g \in Generations |-> NoGeneration]
  /\ desk = [k \in Desks |-> Idle]

books == <<journals, generation>>

At(k, pc) == desk[k].pc = pc
GoTo(k, pc) == desk' = [desk EXCEPT ![k].pc = pc]
Ends(k) == desk' = [desk EXCEPT ![k] = Idle]
Begins(k, request) == desk[k] = Idle /\ desk' = [desk EXCEPT ![k] = request]

Exists(d) == draft[d].status # "NONE"
-----------------------------------------------------------------------------
(* DraftService                                                              *)

\* create: any state may be saved.
Saved(d, body) == [draft EXCEPT ![d] = [NoDraft EXCEPT !.status = "DRAFT", !.body = body]]

Create(d) ==
  /\ ~Exists(d)
  /\ \E body \in Typed : draft' = Saved(d, body)
  /\ UNCHANGED <<books, desk>>

Editable(d) == draft[d].status = "DRAFT"

BeginUpdate(k, d) ==
  /\ Editable(d)
  /\ Begins(k, [Idle EXCEPT !.pc = "update", !.draft = d, !.body = draft[d].body])
  /\ UNCHANGED <<books, draft>>

\* An edit asks for another validation.  What it does not name is written back as
\* it was read; what a draft reverses cannot be edited.
Update(k) ==
  LET d == desk[k].draft IN
  /\ At(k, "update")
  /\ \E body \in Typed \cup {desk[k].body} :
       draft' = [draft EXCEPT ![d].status = "DRAFT",
                    ![d].body = [body EXCEPT !.reverses = draft[d].body.reverses]]
  /\ Ends(k)
  /\ UNCHANGED books

\* validate, alone or on the way of postDraft
BeginValidate(k, d) ==
  /\ Editable(d)
  /\ Begins(k, [Idle EXCEPT !.pc = "validate", !.draft = d])
  /\ UNCHANGED <<books, draft>>

\* The verdict overwrites whatever the status is by now.  postDraft goes on when the
\* draft passes.
Validate(k) ==
  /\ At(k, "validate")
  /\ draft' = [draft EXCEPT ![desk[k].draft].status = "DRAFT"]
  /\ GoTo(k, "reload") \/ Ends(k)
  /\ UNCHANGED books

\* postDraft of a draft that is linked answers with the link.
AnswerLinked(k, d) ==
  /\ draft[d].status = "POSTED_LINKED"
  /\ Begins(k, [Idle EXCEPT !.pc = "hook", !.draft = d, !.answer = draft[d].journal])
  /\ UNCHANGED <<books, draft>>

\* The draft is read again; its status is not looked at.
Reload(k) ==
  /\ At(k, "reload")
  /\ desk' = [desk EXCEPT ![k].pc = "door", ![k].body = draft[desk[k].draft].body]
  /\ UNCHANGED <<books, draft>>

\* Mutated form: the key of a draft's posting is made from what it says.
DraftKey_OfBody(k) ==
  [op |-> "draft-post",
   of |-> CHOOSE d \in Drafts : draft[d].body = desk[k].body]

DraftKey(k) == [op |-> "draft-post", of |-> desk[k].draft]

ReverseKey(i) == [op |-> "reverse", of |-> i]

Under(key) == {i \in DOMAIN journals : journals[i].key = key}

Entry(key, body) ==
  [key |-> key, period |-> body.period, amount |-> body.amount,
   reverses |-> body.reverses, reversedBy |-> 0]

Answers(k, i, next) ==
  desk' = [desk EXCEPT ![k] = [Idle EXCEPT !.pc = next, !.draft = desk[k].draft,
                                 !.subject = desk[k].subject, !.answer = i]]

\* PostingService.post: the journal of the key, if there is one, or a new one, or
\* a refusal.
Post(k, key, next) ==
  \/ \E i \in Under(key) : Answers(k, i, next) /\ UNCHANGED journals
  \/ /\ Under(key) = {} /\ Len(journals) < MaxJournals
     /\ journals' = Append(journals, Entry(key, desk[k].body))
     /\ Answers(k, Len(journals) + 1, next)
  \/ Under(key) = {} /\ Ends(k) /\ UNCHANGED journals

PostDraft(k) ==
  /\ At(k, "door")
  /\ Post(k, DraftKey(k), "link")
  /\ UNCHANGED <<draft, generation>>

\* A transaction of its own, which overwrites whatever the status is by now.
Link(k) ==
  /\ At(k, "link")
  /\ draft' = [draft EXCEPT ![desk[k].draft].status = "POSTED_LINKED",
                            ![desk[k].draft].journal = desk[k].answer]
  /\ GoTo(k, "hook")
  /\ UNCHANGED books

BeginVoid(k, d) ==
  /\ Editable(d)
  /\ Begins(k, [Idle EXCEPT !.pc = "void", !.draft = d])
  /\ UNCHANGED <<books, draft>>

VoidDraft(k) ==
  /\ At(k, "void")
  /\ draft' = [draft EXCEPT ![desk[k].draft].status = "VOIDED"]
  /\ Ends(k)
  /\ UNCHANGED books
-----------------------------------------------------------------------------
(* RecurringTemplateService                                                  *)

\* generateOne: the draft first, then the row of the generation.
Generate(k, g, n) ==
  /\ generation[g].draft = Nobody
  /\ ~Exists(n)
  /\ Begins(k, [Idle EXCEPT !.pc = "record", !.draft = n, !.from = g])
  /\ draft' = Saved(n, [period |-> g[2], amount |-> TemplateAmount, reverses |-> 0])
  /\ UNCHANGED books

\* Mutated form: the row is an upsert.
Record_Upserts(k) ==
  /\ At(k, "record")
  /\ generation' = [generation EXCEPT ![desk[k].from].draft = desk[k].draft]
  /\ Ends(k)
  /\ UNCHANGED <<draft, journals>>

\* The unique index lets one of two generations win; the draft of the other stays.
Record(k) ==
  /\ At(k, "record")
  /\ generation' = IF generation[desk[k].from].draft = Nobody
       THEN [generation EXCEPT ![desk[k].from].draft = desk[k].draft]
       ELSE generation
  /\ Ends(k)
  /\ UNCHANGED <<draft, journals>>

\* handlePosted, which the route calls after each postDraft: a generation that asks
\* for it and has none gets a draft in the next period, which negates the template.
HookCreates(k, g, n) ==
  /\ At(k, "hook")
  /\ generation[g].draft = desk[k].draft /\ generation[g].reversal = Nobody
  /\ g[1] \in AutoReverse /\ g[2] + 1 \in Periods
  /\ ~Exists(n)
  /\ draft' = Saved(n, [period |-> g[2] + 1, amount |-> -TemplateAmount,
                        reverses |-> desk[k].answer])
  /\ desk' = [desk EXCEPT ![k].pc = "record-hook", ![k].draft = n, ![k].from = g]
  /\ UNCHANGED books

HookRecords(k) ==
  /\ At(k, "record-hook")
  /\ generation' = [generation EXCEPT ![desk[k].from].reversal = desk[k].draft]
  /\ Ends(k)
  /\ UNCHANGED <<draft, journals>>

\* There is nothing to reverse, or the hook fails, which the answer reports.
HookEnds(k) ==
  /\ At(k, "hook")
  /\ Ends(k)
  /\ UNCHANGED <<books, draft>>
-----------------------------------------------------------------------------
(* ReversalService.reverse                                                   *)

\* Mutated form: any open period will do.
BeginReverse_AnyPeriod(k, i, p) ==
  /\ journals[i].reversedBy = 0
  /\ Begins(k, [Idle EXCEPT !.pc = "reverse", !.subject = i,
        !.body = [period |-> p, amount |-> -journals[i].amount, reverses |-> i]])
  /\ UNCHANGED <<books, draft>>

\* The target is an open period, not before the journal's own.
BeginReverse(k, i, p) ==
  /\ journals[i].reversedBy = 0
  /\ p >= journals[i].period
  /\ Begins(k, [Idle EXCEPT !.pc = "reverse", !.subject = i,
        !.body = [period |-> p, amount |-> -journals[i].amount, reverses |-> i]])
  /\ UNCHANGED <<books, draft>>

PostReversal(k) ==
  /\ At(k, "reverse")
  /\ Post(k, ReverseKey(desk[k].subject), "link-reversal")
  /\ UNCHANGED <<draft, generation>>

LinkReversal(k) ==
  /\ At(k, "link-reversal")
  /\ journals' = [journals EXCEPT ![desk[k].subject].reversedBy = desk[k].answer]
  /\ Ends(k)
  /\ UNCHANGED <<draft, generation>>
-----------------------------------------------------------------------------
\* A request dies, or what it reads next refuses it.
Die(k) ==
  /\ desk[k] # Idle
  /\ Ends(k)
  /\ UNCHANGED <<books, draft>>

Begin(k) ==
  \/ \E d \in Drafts :
       \/ BeginUpdate(k, d) \/ BeginValidate(k, d) \/ AnswerLinked(k, d)
       \/ BeginVoid(k, d)
  \/ \E g \in Generations, n \in Drafts : Generate(k, g, n)
  \/ \E i \in DOMAIN journals, p \in Periods : BeginReverse(k, i, p)

Step(k) ==
  \/ Update(k) \/ Validate(k) \/ Reload(k) \/ PostDraft(k) \/ Link(k) \/ VoidDraft(k)
  \/ Record(k) \/ HookRecords(k) \/ HookEnds(k)
  \/ \E g \in Generations, n \in Drafts : HookCreates(k, g, n)
  \/ PostReversal(k) \/ LinkReversal(k)
  \/ Die(k)

Next ==
  \/ \E d \in Drafts : Create(d)
  \/ \E k \in Desks : Begin(k) \/ Step(k)

Spec == Init /\ [][Next]_vars
-----------------------------------------------------------------------------
(* Properties                                                                *)

PostedFrom(d) == Under([op |-> "draft-post", of |-> d])

(* The link of a draft names the journal that was posted from it and no other,      *)
(* although the link is written long after the posting, and over whatever else     *)
(* happened to the draft in between (postDraft: "self-healing link").              *)
LinksAreTrue ==
  \A d \in Drafts :
    /\ draft[d].status = "POSTED_LINKED" => draft[d].journal # 0
    /\ draft[d].journal # 0 => draft[d].journal \in PostedFrom(d)

(* BR218-2, "reversible once": a journal has one reversal by the service, in no     *)
(* earlier period and with its amount negated, and names no other as its reversal,  *)
(* though two requests may reverse it at once and each may die before it links it.  *)
ReversalsCancelOnce ==
  \A i \in DOMAIN journals :
    /\ \A j \in Under(ReverseKey(i)) :
         /\ journals[j].amount = -journals[i].amount
         /\ journals[j].period >= journals[i].period
         /\ \A m \in Under(ReverseKey(i)) : m = j
    /\ journals[i].reversedBy # 0 => journals[i].reversedBy \in Under(ReverseKey(i))

(* BR032-4: the row of a generation stays with the draft that won it, although      *)
(* generations of a template race and die half-way: what is to reverse the          *)
(* generation reverses a journal posted from that draft.                            *)
GenerationsTellTrue ==
  \A g \in Generations :
    generation[g].reversal # Nobody =>
      draft[generation[g].reversal].body.reverses \in PostedFrom(generation[g].draft)
=============================================================================
