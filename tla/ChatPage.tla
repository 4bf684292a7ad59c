------------------------------ MODULE ChatPage ------------------------------
(***************************************************************************)
(* The chat page of the window, the two lanes it works on, the shell that  *)
(* navigates away from it, and the conversation files that it shares with  *)
(* the terminal.                                                           *)
(*                                                                         *)
(* A file has a revision that a save must know.  Only whether a revision   *)
(* is the stored one is ever told apart, so a file keeps the set `fresh'   *)
(* of those who know it: the page, the action lane.  A message is "q" (the *)
(* user's), "a" (an answer) or "t" (the terminal's).  What the composer    *)
(* holds is the user's affair: a test of it may go either way; so may a    *)
(* save (disk, quota).                                                     *)
(***************************************************************************)
EXTENDS Naturals, Sequences, SequencesExt

CONSTANTS None, Ids, MaxLength

VARIABLES
    saved,    \* the conversation files: [msgs, fresh], or None
    deleted,  \* the conversations the user had deleted, but for the terminal's
    page,     \* the page, None while another one is shown
    chat,     \* the job of the chat lane, None when it is drained
    action    \* the job of the action lane (the shell is busy), None when drained
              \* (how a job ended changes nothing before it is drained: where a job
              \* leaves nothing behind, its end and the drain are one step)

chatVars == <<saved, deleted, page, chat, action>>

\* leaving: the end of the response navigates; first: a list that may load one is due;
\* astray (for the properties only): the messages shown are not those of id.
NewPage ==
    [id |-> 0, msgs |-> <<>>, streaming |-> FALSE, saving |-> FALSE, unsaved |-> FALSE,
     leaving |-> FALSE, first |-> TRUE, astray |-> FALSE]

-----------------------------------------------------------------------------
(* Conversation files                                                      *)

\* Variant of Accepted: the expected revision is not compared.
AcceptedAny(files, c, who) == TRUE

\* save: a file that is there must have the revision that is expected.
Accepted(files, c, who) == files[c] # None => who \in files[c].fresh

Write(files, c, msgs, knows) == [files EXCEPT ![c] = [msgs |-> msgs, fresh |-> knows]]

\* A name the terminal uses; the other identifiers are drawn at random.
Named == 1
Unused(files) == {c \in Ids \ {Named} : files[c] = None /\ c \notin deleted}

\* The holder h turns to another conversation, or goes away.
Forget(files, h) == [c \in Ids |-> IF files[c] = None THEN None ELSE [files[c] EXCEPT !.fresh = @ \ {h}]]

Learn(files, c, h) == [Forget(files, h) EXCEPT ![c].fresh = @ \cup {h}]

Outcome(ok, p, files) == [ok |-> ok, page |-> p, files |-> files]

\* create, and what the page then stores in the new file.
Created(p, files, msgs) ==
    {Outcome(TRUE, [p EXCEPT !.id = c], Write(Forget(files, "page"), c, msgs, {"page"})) :
       c \in Unused(files)}

Failed(outcomes) == {[o EXCEPT !.ok = FALSE] : o \in outcomes}

\* _save_draft of the page: nothing to save, saved, or False.
DraftOutcomes(p, files) ==
    {Outcome(p.streaming, p, files)}
    \cup IF p.streaming THEN {}
         ELSE IF p.id = 0
         THEN {Outcome(TRUE, p, files)} \cup Created(p, files, <<>>) \cup Failed(Created(p, files, <<>>))
         ELSE IF files[p.id] # None /\ Accepted(files, p.id, "page")
         THEN {Outcome(TRUE, p, Write(files, p.id, files[p.id].msgs, {"page"}))}
         ELSE {}

\* _recover_save: the answer is stored, in a copy when another client was faster.
RecoverOutcomes(p, files) ==
    LET kept == [p EXCEPT !.unsaved = FALSE] IN
    {Outcome(FALSE, p, files)}
    \cup IF p.id = 0 \/ p.streaming THEN {}
         ELSE IF Accepted(files, p.id, "page")
         THEN {Outcome(TRUE, kept, Write(files, p.id, p.msgs, {"page"}))}
         ELSE Created(kept, files, p.msgs)

\* An unsaved answer comes before anything else the page is asked to do.
Recovered(p, files) ==
    IF p.unsaved THEN RecoverOutcomes(p, files) ELSE {Outcome(TRUE, p, files)}

\* And then the draft, before another conversation or page.
Settled(p, files) ==
    UNION {IF r.ok THEN DraftOutcomes(r.page, r.files) ELSE {r} : r \in Recovered(p, files)}

-----------------------------------------------------------------------------
(* The list, and what the user does with conversations                     *)

Open ==
    /\ page = None /\ page' = NewPage
    /\ UNCHANGED <<saved, deleted, chat, action>>

\* _load
Load(p, files, c) ==
    /\ page' = [p EXCEPT !.id = c, !.msgs = files[c].msgs, !.astray = @ /\ p.saving]
    /\ saved' = Learn(files, c, "page")

\* apply: the rows reach the page, which loads the first of them, whatever it is doing,
\* unless they hold the conversation that is open (a search, a page of the list or a
\* list read earlier does not) or the file cannot be read.
ListArrives ==
    /\ page # None /\ page.first
    /\ LET p == [page EXCEPT !.first = FALSE] IN
       \/ page' = p /\ UNCHANGED saved
       \/ \E c \in Ids \ {page.id} :
             /\ saved[c] # None /\ (page.streaming => Len(saved[c].msgs) < MaxLength)
             /\ Load(p, saved, c)
    /\ UNCHANGED <<deleted, chat, action>>

Select(c) ==
    /\ page # None /\ ~ page.streaming /\ ~ page.unsaved /\ ~ page.saving
    /\ \E o \in DraftOutcomes(page, saved) :
         IF o.ok /\ o.files[c] # None THEN Load(o.page, o.files, c)
         ELSE page' = o.page /\ saved' = o.files
    /\ UNCHANGED <<deleted, chat, action>>

New ==
    /\ page # None /\ ~ page.saving /\ ~ page.streaming
    /\ \E o \in Settled(page, saved) :
         \/ saved' = o.files /\ page' = o.page
         \/ \E c \in Unused(o.files) :
              /\ o.ok /\ saved' = Write(Forget(o.files, "page"), c, <<>>, {"page"})
              /\ page' = [o.page EXCEPT !.id = c, !.msgs = <<>>, !.first = FALSE,
                                       !.astray = FALSE]
    /\ UNCHANGED <<deleted, chat, action>>

\* rename and unarchive write the file, and the page is not told the new revision.
Retitle ==
    /\ page # None /\ page.id # 0 /\ ~ page.streaming /\ saved[page.id] # None
    /\ saved' = Write(saved, page.id, saved[page.id].msgs, {})
    /\ page' = [page EXCEPT !.first = FALSE]
    /\ UNCHANGED <<deleted, chat, action>>

\* What is confirmed at once; nothing is open afterwards.
PutAway(files) ==
    /\ page # None /\ page.id # 0 /\ ~ page.streaming /\ saved[page.id] # None
    /\ saved' = files
    /\ page' = [page EXCEPT !.id = 0, !.msgs = <<>>, !.first = TRUE,
                                            !.astray = @ /\ page.saving]
    /\ UNCHANGED <<chat, action>>

ArchiveConfirmed ==
    PutAway(Write(saved, page.id, saved[page.id].msgs, {})) /\ UNCHANGED deleted

DeleteConfirmed ==
    PutAway([saved EXCEPT ![page.id] = None]) /\ deleted' = deleted \cup ({page.id} \ {Named})

-----------------------------------------------------------------------------
(* The action lane: the autosave of the draft, and the settings            *)

\* _autosave_draft, and _local_action of the settings.
Begin(kind) ==
    /\ page # None /\ ~ page.streaming /\ ~ page.saving /\ action = None
    /\ page' = [page EXCEPT !.saving = TRUE]
    /\ action' = [kind |-> kind, id |-> page.id, from |-> page.id, pc |-> "run",
                  msgs |-> IF kind = "draft" THEN <<>> ELSE page.msgs]
    /\ saved' = [c \in Ids |-> IF saved[c] = None \/ c # page.id \/ "page" \notin saved[c].fresh
                               THEN saved[c] ELSE [saved[c] EXCEPT !.fresh = @ \cup {"action"}]]
    /\ UNCHANGED <<deleted, chat>>

Ends(id) == action' = [action EXCEPT !.pc = "done", !.id = id, !.msgs = <<>>]

\* save_draft reads the messages before it takes the lock again to save them.
ReadForDraft ==
    /\ action # None /\ action.kind = "draft" /\ action.pc = "run" /\ action.id # 0
    /\ saved[action.id] # None
    /\ action' = [action EXCEPT !.pc = "save", !.msgs = saved[action.id].msgs]
    /\ UNCHANGED <<saved, deleted, page, chat>>

WriteOpen ==
    /\ action # None /\ action.id # 0
    /\ <<action.kind, action.pc>> \in {<<"draft", "save">>, <<"settings", "run">>}
    /\ Accepted(saved, action.id, "action")
    /\ saved' = Write(saved, action.id, action.msgs, {"action"}) /\ Ends(action.id)
    /\ UNCHANGED <<deleted, page, chat>>

\* Without a conversation, one is created for the draft or the settings.
WriteNew ==
    /\ action # None /\ action.pc = "run" /\ action.id = 0
    /\ \E c \in Unused(saved) :
         saved' = Write(saved, c, action.msgs, {"action"}) /\ Ends(c)
    /\ UNCHANGED <<deleted, page, chat>>

\* A conflict, a full disk, a conversation that is gone: the page is told.
ActionFails ==
    /\ action # None /\ action.pc # "done" /\ action' = None
    /\ page' = [page EXCEPT !.saving = FALSE]
    /\ saved' = Forget(saved, "action")
    /\ UNCHANGED <<deleted, chat>>

\* The revision the save ended with is still the one that is stored.
Current == saved[action.id] # None /\ "action" \in saved[action.id].fresh

\* done: the page takes the conversation that was saved for the one it shows.
TakesSaved ==
    /\ page' = [page EXCEPT !.saving = FALSE, !.id = action.id,
                            !.first = @ /\ action.kind = "draft",
                            !.astray = @ \/ (Current /\ page.id # action.from)]
    /\ saved' = Forget(IF Current THEN Learn(saved, action.id, "page") ELSE Forget(saved, "page"),
                       "action")

\* The shell drains the lane.  (request_leave waits for it: the page is still there.)
ActionDone ==
    /\ action # None /\ action.pc = "done" /\ action' = None
    /\ TakesSaved
    /\ UNCHANGED <<deleted, chat>>

-----------------------------------------------------------------------------
(* Leaving                                                                 *)

\* navigate, with the answer and the draft stored: the page saves its draft once
\* more as it goes.
Departs(p, files) ==
    \E o \in Settled(p, files) :
      IF o.ok THEN page' = None /\ saved' = Forget(o.files, "page")
      ELSE page' = o.page /\ saved' = o.files

\* request_leave: not while a draft is being saved, nor while a response streams (so
\* the chat lane never works for a page that is gone).
Leave ==
    /\ page # None /\ ~ page.saving /\ ~ page.streaming
    /\ Departs(page, saved)
    /\ UNCHANGED <<deleted, chat, action>>

\* _stop_and_leave: the end of the response will navigate.
StopAndLeave ==
    /\ page # None /\ page.streaming /\ ~ page.saving
    /\ page' = [page EXCEPT !.leaving = TRUE] /\ chat' = [chat EXCEPT !.cancelled = TRUE]
    /\ UNCHANGED <<saved, deleted, action>>

-----------------------------------------------------------------------------
(* A response                                                              *)

ChatJob(kind, id) == [kind |-> kind, id |-> id, cancelled |-> FALSE, text |-> FALSE]

\* What the lane works on: the context of a message, or a response.  A check ends in
\* any way; a transport error of a stream is tried once more unless there was text
\* (should_retry); a stream ends completed, or stopped, malformed, too hot, another
\* model, out of time.
Checks == chat # None /\ chat.kind = "check"
Streams == chat # None /\ chat.kind = "stream"

\* _start_response (send, retry_last): the context is checked first.
Send ==
    /\ page # None /\ ~ page.saving /\ ~ page.streaming /\ Len(page.msgs) + 1 < MaxLength
    /\ \E o \in Recovered(page, saved) :
         /\ saved' = o.files
         /\ IF o.ok /\ chat = None
            THEN page' = [o.page EXCEPT !.streaming = TRUE] /\ chat' = ChatJob("check", o.page.id)
            ELSE page' = o.page /\ UNCHANGED chat
    /\ UNCHANGED <<deleted, action>>

Stop ==
    /\ page # None /\ page.streaming /\ ~ chat.cancelled
    /\ chat' = [chat EXCEPT !.cancelled = TRUE]
    /\ UNCHANGED <<saved, deleted, page, action>>

\* A line of the stream; a cancellation stops before the next one.
Token ==
    /\ Streams /\ ~ chat.cancelled /\ ~ chat.text /\ chat' = [chat EXCEPT !.text = TRUE]
    /\ UNCHANGED <<saved, deleted, page, action>>

\* What waits for the end of the response happens now.
Pending(p, files) ==
    LET q == [p EXCEPT !.leaving = FALSE] IN
    IF p.leaving /\ ~ p.saving THEN Departs(q, files) ELSE page' = q /\ saved' = files

\* _abort_preflight: the check did not fit, was stopped, failed; or the message could
\* not be stored in the conversation created for it.
Aborted ==
    /\ Checks /\ chat' = None
    /\ LET p == [page EXCEPT !.streaming = FALSE] IN
       \/ Pending(p, saved)
       \/ /\ ~ chat.cancelled /\ page.id = 0
          /\ \E o \in Created(p, saved, <<>>) : page' = o.page /\ saved' = o.files
    /\ UNCHANGED <<deleted, action>>

\* _prepared_response, _run_prepared_response: what was checked is still open; the
\* message is stored before it is sent.
SendPrepared ==
    /\ Checks /\ ~ chat.cancelled /\ chat.id = page.id
    /\ LET asked == Append(page.msgs, "q") IN
       \E o \in IF page.id = 0 THEN Created(page, saved, asked)
                ELSE {x \in {Outcome(TRUE, page, Write(saved, page.id, asked, {"page"}))} : Accepted(saved, page.id, "page")} :
         /\ page' = [o.page EXCEPT !.msgs = asked]
         /\ saved' = o.files /\ chat' = ChatJob("stream", o.page.id)
    /\ UNCHANGED <<deleted, action>>

\* _finish: the answer, whole or in part, is added to what is open and stored.
Finish ==
    /\ Streams /\ chat' = None
    /\ LET p == [page EXCEPT !.msgs = IF chat.text THEN Append(@, "a") ELSE @, !.streaming = FALSE,
                             !.unsaved = chat.text, !.first = FALSE] IN
       \/ /\ p.id # 0 /\ Accepted(saved, p.id, "page")
          /\ Pending([p EXCEPT !.unsaved = FALSE], Write(saved, p.id, p.msgs, {"page"}))
       \/ IF p.unsaved THEN page' = [p EXCEPT !.leaving = FALSE] /\ UNCHANGED saved
          ELSE Pending(p, saved)
    /\ UNCHANGED <<deleted, action>>

\* chat_failed: the readiness had changed before the stream began.
ChatFailed ==
    /\ Streams /\ ~ chat.text /\ chat' = None
    /\ page' = [page EXCEPT !.streaming = FALSE, !.leaving = FALSE]
    /\ UNCHANGED <<saved, deleted, action>>

-----------------------------------------------------------------------------

\* The terminal saves its own conversation under a name; it too refuses when the
\* name was saved since it last read it.
TerminalSaves ==
    /\ saved' = Write(saved, Named, <<"t">>, {})
    /\ UNCHANGED <<deleted, page, chat, action>>

Init ==
    /\ saved = [c \in Ids |-> None] /\ deleted = {}
    /\ page = None /\ chat = None /\ action = None

Next ==
    \/ Open \/ ListArrives \/ New \/ Retitle \/ ArchiveConfirmed \/ DeleteConfirmed
    \/ \E c \in Ids : Select(c)
    \/ \E kind \in {"draft", "settings"} : Begin(kind)
    \/ ReadForDraft \/ WriteOpen \/ WriteNew \/ ActionFails \/ ActionDone
    \/ Leave \/ StopAndLeave
    \/ Send \/ Stop \/ Token
    \/ Aborted \/ SendPrepared \/ Finish \/ ChatFailed \/ TerminalSaves

-----------------------------------------------------------------------------

\* A list that arrives while something of the open conversation is saved opens another
\* one, and the end of the save gives its messages the identity of the first: what is
\* saved from there replaces the first.  Nothing is promised of such a page.
Sound == page # None => ~ page.astray

\* A save of the window never drops a message that is stored.
NothingOverwritten ==
    Sound =>
    \A c \in Ids \ deleted :
        saved[c] # None /\ saved'[c] # None /\ saved'[c].msgs # <<"t">>
        => IsPrefix(saved[c].msgs, saved'[c].msgs)

\* Whoever leaves the page, opens another conversation or starts a new one while
\* nothing streams leaves no message behind that is not stored; nor does a list that
\* arrives replace an answer that could not be stored.
NothingLeftBehind ==
    /\ page # None /\ Sound /\ ~ page.streaming /\ page.msgs # <<>>
    /\ Leave \/ New \/ (\E c \in Ids : Select(c)) \/ (ListArrives /\ page.unsaved)
    /\ page' = None \/ ~ IsPrefix(page.msgs, page'.msgs)
    => \E c \in Ids : saved'[c] # None /\ IsPrefix(page.msgs, saved'[c].msgs)

KeepsAnswers == NothingOverwritten /\ NothingLeftBehind
AnswersKept == [][KeepsAnswers]_chatVars

=============================================================================
