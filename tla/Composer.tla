------------------------------- MODULE Composer -------------------------------
(***************************************************************************)
(* The two screens that make a bulk campaign: web-v5/src/screens/Bulk.tsx  *)
(* ("web") and dashboard/src/screens/CampaignsScreen.tsx ("dashboard"),    *)
(* over POST /v5/bulk/campaigns/preview and POST /v5/bulk/campaigns.       *)
(*                                                                         *)
(* A list is previewed and then submitted with the preview's checksum.     *)
(* The user may choose another list at any time, also while requests are   *)
(* under way; those are answered and applied in any order, or lost.  A     *)
(* deploy of the server may change how it reads a list, and its checksum.  *)
(***************************************************************************)
EXTENDS Integers, FiniteSets

CONSTANTS
    List,       \* recipient lists, as the user gives them
    Flawed,     \* those with rows the server rejects
    Screen,     \* the screens that are opened
    Ask,        \* requests under way
    MaxAsks,    \* bound: requests made
    MaxParser,  \* bound: deploys that change how a list is read
    Blank       \* no list, preview or request

\* What a checksum is of: a list as a parser reads it.
Reading == List \X (0..MaxParser)

\* kind: "preview", "create", or "again", the preview after a mismatch.  creates: whether
\* a create follows.  sum: the checksum that is sent, or answered.  stays: whether the screen is
\* still there.
BulkRequest ==
    [kind : {"preview", "create", "again"}, list : List, sum : Reading \union {Blank},
     creates : BOOLEAN, stays : BOOLEAN, reply : {Blank, "ok", "mismatch", "error"}]

ASSUME ComposerAssumption ==
    /\ Flawed \subseteq List /\ Screen \subseteq {"web", "dashboard"} /\ IsFiniteSet(Ask)
    /\ MaxAsks \in Nat /\ MaxParser \in Nat
    /\ Blank \notin List \union Reading \union BulkRequest \union {"ok", "mismatch", "error"}

VARIABLES
    open,       \* the screen
    source,     \* the list the user has chosen, or typed
    pasted,     \* web: what the paste box holds
    csv,        \* web: csvText, the list to submit
    preview,    \* the preview on the screen: its list, and how that was read
    previewing, submitting,
    created,    \* web: whether the panel of a created campaign is shown
    ask,        \* the requests under way
    asks,       \* how many there have been
    parser,     \* the server: how it reads lists now
    sent,       \* the server: how many campaigns it made of each list, as read
    seen,       \* history: how many previews of that have come to the screen
    lost,       \* history: how many answers to a submission have not
    crossed     \* history: whether the source has changed while a request was under way

form == <<source, pasted, csv, preview, previewing, submitting, created>>
counts == <<sent, seen, lost>>
composerVars == <<open, form, ask, asks, parser, counts, crossed>>

Is(s) == open = s
Unasked == [q \in Ask |-> Blank]

Checksum(list) == <<list, parser>>

ComposerTypeOK ==
    /\ open \in Screen
    /\ {source, pasted, csv} \subseteq List \union {Blank}
    /\ preview \in Reading \union {Blank} /\ parser \in 0..MaxParser
    /\ {previewing, submitting, created, crossed} \subseteq BOOLEAN
    /\ asks \in 0..MaxAsks
    /\ ask \in [Ask -> BulkRequest \union {Blank}]
    /\ sent \in [Reading -> 0..MaxAsks] /\ seen \in [Reading -> 0..MaxAsks]
    /\ lost \in [Reading -> 0..MaxAsks]

ComposerInit ==
    /\ open \in Screen
    /\ source = Blank /\ pasted = Blank /\ csv = Blank /\ preview = Blank
    /\ previewing = FALSE /\ submitting = FALSE /\ created = FALSE
    /\ ask = Unasked /\ asks = 0
    /\ parser = 0 /\ sent = [l \in Reading |-> 0] /\ seen = sent /\ lost = sent
    /\ crossed = FALSE

Underway == \E q \in Ask : ask[q] # Blank /\ ask[q].stays

Asks(q, kind, list, sum, creates) ==
    /\ ask[q] = Blank /\ asks < MaxAsks
    /\ asks' = asks + 1
    /\ ask' = [ask EXCEPT ![q] = [kind |-> kind, list |-> list, sum |-> sum, creates |-> creates,
                                  stays |-> TRUE, reply |-> Blank]]

-----------------------------------------------------------------------------
(* web-v5. *)

\* A source is previewed: what was there before goes.
Previews(q, list, keeps) ==
    /\ source' = list
    /\ csv' = (IF keeps THEN csv ELSE Blank)
    /\ preview' = (IF keeps THEN preview ELSE Blank)
    /\ created' = FALSE /\ previewing' = TRUE
    /\ crossed' = (crossed \/ Underway)
    /\ Asks(q, "preview", list, Blank, FALSE)
    /\ UNCHANGED <<open, pasted, submitting, parser, counts>>

\* Mutant: the last preview stays until the next one comes.
ChooseFileKeeping(q, list) == Is("web") /\ Previews(q, list, TRUE)

\* Nothing keeps the user from choosing a file while something is under way.
ChooseFile(q, list) == Is("web") /\ Previews(q, list, FALSE)

PreviewPasted(q) ==
    /\ Is("web") /\ pasted # Blank /\ ~previewing /\ ~submitting
    /\ Previews(q, pasted, FALSE)

Paste(list) ==
    /\ Is("web") /\ pasted' = list /\ source' = list
    /\ csv' = Blank /\ preview' = Blank
    /\ crossed' = (crossed \/ Underway)
    /\ UNCHANGED <<open, previewing, submitting, created, ask, asks, parser, counts>>

CanSubmit ==
    /\ preview # Blank /\ preview[1] \notin Flawed
    /\ ~previewing /\ ~submitting /\ ~created /\ csv # Blank

Submit(q) ==
    /\ Is("web") /\ CanSubmit
    /\ submitting' = TRUE
    /\ Asks(q, "create", csv, preview, FALSE)
    /\ UNCHANGED <<open, source, pasted, csv, preview, previewing, created, parser, counts, crossed>>

-----------------------------------------------------------------------------
(* dashboard. *)

Type(list) ==
    /\ Is("dashboard") /\ source' = list /\ preview' = Blank
    /\ crossed' = (crossed \/ Underway)
    /\ UNCHANGED <<open, pasted, csv, previewing, submitting, created, ask, asks, parser, counts>>

\* A list with numbers that are not E.164 is not sent, and loses its preview.
Flaws(list) ==
    /\ list \in Flawed /\ preview' = Blank
    /\ UNCHANGED <<previewing, submitting, ask, asks>>

PreviewStep(q, creates) ==
    \/ Flaws(source)
    \/ /\ source \notin Flawed /\ previewing' = TRUE
       /\ Asks(q, "preview", source, Blank, creates)
       /\ UNCHANGED <<preview, submitting>>

RunPreview(q) ==
    /\ Is("dashboard") /\ source # Blank /\ ~previewing /\ ~submitting
    /\ PreviewStep(q, FALSE)
    /\ UNCHANGED <<open, source, pasted, csv, created, parser, counts, crossed>>

Fresh == preview # Blank /\ preview[1] = source

\* A fresh preview is submitted; without one, the list is previewed, and then submitted.
SubmitTyped(q) ==
    /\ Is("dashboard") /\ source # Blank /\ ~previewing /\ ~submitting
    /\ \/ /\ Fresh
          /\ submitting' = TRUE /\ Asks(q, "create", source, preview, FALSE)
          /\ UNCHANGED <<preview, previewing>>
       \/ ~Fresh /\ PreviewStep(q, TRUE)
    /\ UNCHANGED <<open, source, pasted, csv, created, parser, counts, crossed>>

-----------------------------------------------------------------------------
(* The server. *)

\* A list with bad rows is refused, and one whose checksum is another.
Accepts(list, sum) == list \notin Flawed /\ sum = Checksum(list)

Arrived(q) == ask[q] # Blank /\ ask[q].reply = Blank

AnswersPreview(q, reply) ==
    /\ Arrived(q) /\ ask[q].kind # "create" /\ reply # "mismatch"
    /\ ask' = [ask EXCEPT ![q] = [@ EXCEPT !.reply = reply, !.sum = Checksum(ask[q].list)]]
    /\ UNCHANGED <<open, form, asks, parser, counts, crossed>>

AnswersCreate(q, reply) ==
    /\ Arrived(q) /\ ask[q].kind = "create"
    /\ ask' = [ask EXCEPT ![q].reply = reply]
    /\ LET l == ask[q].list
       IN /\ reply = "ok" => Accepts(l, ask[q].sum)
          /\ reply = "mismatch" => l \notin Flawed /\ ~Accepts(l, ask[q].sum)
          /\ sent' = (IF reply = "ok" THEN [sent EXCEPT ![Checksum(l)] = @ + 1] ELSE sent)
    /\ UNCHANGED <<open, form, asks, parser, seen, lost, crossed>>

\* A new version of the server reads lists differently.
ParserChanges ==
    /\ parser < MaxParser /\ parser' = parser + 1
    /\ UNCHANGED <<open, form, ask, asks, counts, crossed>>

-----------------------------------------------------------------------------
(* An answer comes to the screen. *)

Handled(q) == ask' = [ask EXCEPT ![q] = Blank] /\ asks' = asks
Answer(q, kind, reply) == ask[q] # Blank /\ ask[q].stays /\ ask[q].kind = kind /\ ask[q].reply = reply

\* A preview: the list it is of becomes the one to submit.
Previewed(q) ==
    /\ Answer(q, "preview", "ok")
    /\ preview' = ask[q].sum
    /\ csv' = (IF Is("web") THEN ask[q].list ELSE csv)
    /\ previewing' = FALSE
    /\ seen' = [seen EXCEPT ![ask[q].sum] = @ + 1]
    /\ \/ /\ ~ask[q].creates /\ Handled(q) /\ UNCHANGED submitting
       \/ /\ ask[q].creates /\ asks < MaxAsks /\ asks' = asks + 1
          /\ ask' = [ask EXCEPT ![q] = [@ EXCEPT !.kind = "create", !.creates = FALSE, !.reply = Blank]]
          /\ submitting' = TRUE
    /\ UNCHANGED <<open, source, pasted, created, parser, sent, lost, crossed>>

NotPreviewed(q) ==
    /\ Answer(q, "preview", "error") /\ Handled(q)
    /\ previewing' = FALSE
    /\ preview' = (IF Is("web") THEN preview ELSE Blank)
    /\ UNCHANGED <<open, source, pasted, csv, submitting, created, parser, counts, crossed>>

\* The campaign is made: the form is reset, whatever it holds by now.
Created(q) ==
    /\ Answer(q, "create", "ok") /\ Handled(q)
    /\ source' = Blank /\ preview' = Blank /\ csv' = Blank /\ submitting' = FALSE
    /\ created' = (Is("web") \/ created)
    /\ UNCHANGED <<open, pasted, previewing, parser, counts, crossed>>

\* The list is not the checksum's: web previews what it has submitted again.
Mismatched(q) ==
    /\ Answer(q, "create", "mismatch")
    /\ \/ /\ Is("web") /\ asks < MaxAsks /\ asks' = asks + 1
          /\ ask' = [ask EXCEPT ![q] = [@ EXCEPT !.kind = "again", !.reply = Blank]]
          /\ UNCHANGED <<preview, submitting>>
       \/ Is("dashboard") /\ Handled(q) /\ preview' = Blank /\ submitting' = FALSE
    /\ UNCHANGED <<open, source, pasted, csv, previewing, created, parser, counts, crossed>>

PreviewedAgain(q) ==
    /\ Answer(q, "again", "ok") /\ Handled(q)
    /\ preview' = ask[q].sum /\ submitting' = FALSE
    /\ seen' = [seen EXCEPT ![ask[q].sum] = @ + 1]
    /\ UNCHANGED <<open, source, pasted, csv, previewing, created, parser, sent, lost, crossed>>

NotSubmitted(q) ==
    /\ \E kind \in {"create", "again"} : Answer(q, kind, "error")
    /\ Handled(q) /\ submitting' = FALSE
    /\ UNCHANGED <<open, source, pasted, csv, preview, previewing, created, parser, counts, crossed>>

\* The connection breaks before the server, or before the screen, hears of it: to the
\* screen that is an error.
Breaks(q) ==
    /\ ask[q] # Blank /\ ask[q].stays /\ ask[q].reply # "error"
    /\ ask' = [ask EXCEPT ![q].reply = "error"]
    /\ lost' = IF ask[q].kind = "create" /\ ask[q].reply = "ok"
               THEN [lost EXCEPT ![ask[q].sum] = @ + 1] ELSE lost
    /\ UNCHANGED <<open, form, asks, parser, sent, seen, crossed>>

\* The user leaves the screen and opens one: nothing is kept, and late answers change nothing.
Leaves(s) ==
    /\ asks < MaxAsks
    /\ open' = s
    /\ source' = Blank /\ pasted' = Blank /\ csv' = Blank /\ preview' = Blank
    /\ previewing' = FALSE /\ submitting' = FALSE /\ created' = FALSE
    /\ ask' = [q \in Ask |-> IF ask[q] = Blank THEN Blank ELSE [ask[q] EXCEPT !.stays = FALSE]]
    /\ crossed' = FALSE
    /\ UNCHANGED <<asks, parser, counts>>

AnswerDropped(q) ==
    /\ ask[q] # Blank /\ ~ask[q].stays /\ Handled(q)
    /\ UNCHANGED <<open, form, parser, counts, crossed>>

ComposerNext ==
    \/ \E l \in List : Paste(l) \/ Type(l) \/ \E q \in Ask : ChooseFile(q, l)
    \/ \E s \in Screen : Leaves(s)
    \/ ParserChanges
    \/ \E q \in Ask :
          \/ PreviewPasted(q) \/ Submit(q) \/ RunPreview(q) \/ SubmitTyped(q)
          \/ \E reply \in {"ok", "mismatch", "error"} : AnswersPreview(q, reply) \/ AnswersCreate(q, reply)
          \/ Previewed(q) \/ NotPreviewed(q) \/ Created(q) \/ Mismatched(q)
          \/ PreviewedAgain(q) \/ NotSubmitted(q) \/ Breaks(q) \/ AnswerDropped(q)

ComposerSpec == ComposerInit /\ [][ComposerNext]_composerVars

-----------------------------------------------------------------------------

\* A list spends credits as often as its preview has come to the screen, read as it is
\* sent, however the requests overlap and whatever is chosen meanwhile: "a list the
\* operator never reviewed can never spend credits" (bulk.ts:269), "one reviewed file can
\* never be submitted twice by accident" (Bulk.tsx:520).  But for a submission whose
\* answer is lost: the preview stays, and it may be submitted again.
OneSendPerPreview == \A s \in Reading : sent[s] <= seen[s] + lost[s]

\* web enables the button for the list that was chosen last, as long as nothing was
\* chosen while a request was under way (Bulk.tsx:389, 412).
FreshPerSource == ~crossed /\ Is("web") /\ CanSubmit => csv = source /\ preview[1] = source

\* What is sent is what was reviewed.
ReviewedIsSent == OneSendPerPreview /\ FreshPerSource
=============================================================================
