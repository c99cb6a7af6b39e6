--------------------------- MODULE LanguageServer ---------------------------
(***************************************************************************)
(* One open document of the language server (tools/thagore-lsp): the       *)
(* editor sends didOpen, didChange and didSave in order; the handlers run  *)
(* one after the other on the server's task, a handler that awaits         *)
(* publish_diagnostics may be overtaken; the debounced checks run on       *)
(* threads of their own, and aborting one only has an effect where it      *)
(* awaits: in its sleep and in its publish_diagnostics.                    *)
(*                                                                         *)
(* A text is the sequence of the edits made to it.                         *)
(***************************************************************************)
EXTENDS Naturals, Sequences

CONSTANTS
    MaxEdits,      \* bound: edits in a behaviour
    MaxSaves,      \* bound: saves in a behaviour
    MaxReopens     \* bound: times the document is closed and opened again

ASSUME LanguageServerAssumption == {MaxEdits, MaxSaves, MaxReopens} \subseteq Nat

VARIABLES
    slow,       \* whether a check may take longer than the gap between messages
    text,       \* the editor's text
    disk,       \* the file
    inbox,      \* messages to the server not handled yet
    document,   \* the server's buffer (AnalysisHostInner::documents)
    ahead,      \* history: a save took the file when a later save had written it,
                \* and nothing has set the whole buffer since
    cached,     \* the text of the snapshot in type_cache
    handler,    \* [pc, text], the handler that runs
    suspended,  \* texts whose handler awaits publish_diagnostics
    tasks,      \* [Slots -> [pc, text, aborted]], the spawned checks
    timer,      \* the slot of the task in `debounce`, 0 for none
    shown,      \* the text the diagnostics the editor shows are about
    edits, saves, reopens

editorVars == <<slow, text, disk, edits, saves, reopens>>
vars == <<editorVars, inbox, document, ahead, cached, handler, suspended, tasks, timer, shown>>

Slots == 1 .. MaxEdits
NoTask == [pc |-> "none", text |-> <<>>, aborted |-> FALSE]
IdleHandler == [pc |-> "idle", text |-> <<>>]
Holds(t, n) == \E i \in 1 .. Len(t) : t[i] = n

Init ==
    /\ slow \in BOOLEAN
    /\ text = <<>>
    /\ disk = <<>>
    /\ inbox = <<[kind |-> "open", text |-> <<>>]>>
    /\ document = <<>>
    /\ ahead = FALSE
    /\ cached = <<>>
    /\ handler = IdleHandler
    /\ suspended = {}
    /\ tasks = [t \in Slots |-> NoTask]
    /\ timer = 0
    /\ shown = <<>>
    /\ edits = 0
    /\ saves = 0
    /\ reopens = 0

-----------------------------------------------------------------------------
(* The editor *)

(* A change carries the edit, or the whole text. *)
Type ==
    /\ edits < MaxEdits
    /\ edits' = edits + 1
    /\ text' = Append(text, edits')
    /\ \E change \in {[kind |-> "edit", edit |-> edits'], [kind |-> "replace", text |-> text']} :
          inbox' = Append(inbox, change)
    /\ UNCHANGED <<slow, disk, saves, reopens, document, ahead, cached, handler, suspended, tasks, timer, shown>>

Save ==
    /\ saves < MaxSaves
    /\ saves' = saves + 1
    /\ disk' = text
    /\ inbox' = Append(inbox, [kind |-> "save"])
    /\ UNCHANGED <<slow, text, edits, reopens, document, ahead, cached, handler, suspended, tasks, timer, shown>>

(* Closing drops unsaved edits; the server has no did_close. *)
Reopen ==
    /\ reopens < MaxReopens
    /\ reopens' = reopens + 1
    /\ text' = disk
    /\ inbox' = Append(inbox, [kind |-> "open", text |-> disk])
    /\ UNCHANGED <<slow, disk, edits, saves, document, ahead, cached, handler, suspended, tasks, timer, shown>>

-----------------------------------------------------------------------------
(* The handlers *)

Checking == \E t \in Slots : tasks[t].pc \notin {"none", "sleeping"}
Undisturbed == slow \/ ~Checking

(* Mutant of HandleChange: the edit is made to the file, not the buffer.   *)
HandleChangeOnFile ==
    /\ handler.pc = "idle" /\ inbox # <<>> /\ Undisturbed
    /\ \/ /\ Head(inbox).kind = "edit"
          /\ document' = Append(disk, Head(inbox).edit)
          /\ UNCHANGED ahead
       \/ /\ Head(inbox).kind = "replace"
          /\ document' = Head(inbox).text
          /\ ahead' = FALSE
    /\ inbox' = Tail(inbox)
    /\ handler' = [handler EXCEPT !.pc = "schedule"]
    /\ UNCHANGED <<editorVars, cached, suspended, tasks, timer, shown>>

(* apply_changes ... *)
HandleChange ==
    /\ handler.pc = "idle" /\ inbox # <<>> /\ Undisturbed
    /\ \/ /\ Head(inbox).kind = "edit"
          /\ document' = Append(document, Head(inbox).edit)
          /\ UNCHANGED ahead
       \/ /\ Head(inbox).kind = "replace"
          /\ document' = Head(inbox).text
          /\ ahead' = FALSE
    /\ inbox' = Tail(inbox)
    /\ handler' = [handler EXCEPT !.pc = "schedule"]
    /\ UNCHANGED <<editorVars, cached, suspended, tasks, timer, shown>>

HandleOpen ==
    /\ handler.pc = "idle" /\ inbox # <<>> /\ Undisturbed
    /\ Head(inbox).kind = "open"
    /\ document' = Head(inbox).text
    /\ ahead' = FALSE
    /\ inbox' = Tail(inbox)
    /\ handler' = [handler EXCEPT !.pc = "check"]
    /\ UNCHANGED <<editorVars, cached, suspended, tasks, timer, shown>>

(* Mutant of Cancelled: the handle is dropped, its task lives on. *)
Detached == tasks

(* cancel_debounce: the handle is removed and its task aborted. *)
Cancelled ==
    IF timer = 0
    THEN tasks
    ELSE [tasks EXCEPT ![timer] = IF @.pc \in {"none", "sleeping"}
                                  THEN NoTask
                                  ELSE [@ EXCEPT !.aborted = TRUE]]

SaveFollows == \E i \in 2 .. Len(inbox) : inbox[i].kind = "save"

(* Mutant of HandleSave: nothing to check when the file is the buffer. *)
HandleSaveUnchanged ==
    /\ handler.pc = "idle" /\ inbox # <<>> /\ Undisturbed
    /\ Head(inbox).kind = "save"
    /\ document' = disk
    /\ ahead' = SaveFollows
    /\ inbox' = Tail(inbox)
    /\ IF document = disk
       THEN tasks' = Cancelled /\ timer' = 0 /\ UNCHANGED handler
       ELSE handler' = [handler EXCEPT !.pc = "check"] /\ UNCHANGED <<tasks, timer>>
    /\ UNCHANGED <<editorVars, cached, suspended, shown>>

(* handle_save takes the file as it is by now, or keeps the buffer when    *)
(* the file cannot be read.                                                *)
HandleSave ==
    /\ handler.pc = "idle" /\ inbox # <<>> /\ Undisturbed
    /\ Head(inbox).kind = "save"
    /\ \/ document' = disk /\ ahead' = SaveFollows
       \/ UNCHANGED <<document, ahead>>
    /\ inbox' = Tail(inbox)
    /\ handler' = [handler EXCEPT !.pc = "check"]
    /\ UNCHANGED <<editorVars, cached, suspended, tasks, timer, shown>>

(* ... and schedule_recheck: the new task is the only one that sleeps. *)
ScheduleRecheck ==
    /\ handler.pc = "schedule" /\ Undisturbed
    /\ \E t \in Slots :
          /\ Cancelled[t].pc = "none"
          /\ \A u \in 1 .. t - 1 : Cancelled[u].pc # "none"
          /\ tasks' = [Cancelled EXCEPT ![t] = [NoTask EXCEPT !.pc = "sleeping"]]
          /\ timer' = t
    /\ handler' = IdleHandler
    /\ UNCHANGED <<editorVars, inbox, document, ahead, cached, suspended, shown>>

(* run_immediate_check *)
CheckNow ==
    /\ handler.pc = "check" /\ Undisturbed
    /\ tasks' = Cancelled
    /\ timer' = 0
    /\ handler' = [pc |-> "cache", text |-> document]
    /\ UNCHANGED <<editorVars, inbox, document, ahead, cached, suspended, shown>>

CacheNow ==
    /\ handler.pc = "cache"
    /\ cached' = handler.text
    /\ handler' = [handler EXCEPT !.pc = "publish"]
    /\ UNCHANGED <<editorVars, inbox, document, ahead, suspended, tasks, timer, shown>>

PublishNow ==
    /\ handler.pc = "publish"
    /\ shown' = handler.text
    /\ handler' = IdleHandler
    /\ UNCHANGED <<editorVars, inbox, document, ahead, cached, suspended, tasks, timer>>

SuspendPublish ==
    /\ handler.pc = "publish" /\ slow
    /\ suspended' = suspended \cup {handler.text}
    /\ handler' = IdleHandler
    /\ UNCHANGED <<editorVars, inbox, document, ahead, cached, tasks, timer, shown>>

ResumePublish ==
    \E t \in suspended :
        /\ shown' = t
        /\ suspended' = suspended \ {t}
        /\ UNCHANGED <<editorVars, inbox, document, ahead, cached, handler, tasks, timer>>

-----------------------------------------------------------------------------
(* The debounced checks: publish_analysis on a thread of its own *)

WakeUp(t) ==
    /\ tasks[t].pc = "sleeping"
    /\ slow \/ handler.pc \notin {"cache", "publish"}
    /\ tasks' = [tasks EXCEPT ![t].pc = "awake"]
    /\ UNCHANGED <<editorVars, inbox, document, ahead, cached, handler, suspended, timer, shown>>

(* Mutant of ReadDocument: the check reads the file. *)
ReadFile(t) ==
    /\ tasks[t].pc = "awake"
    /\ tasks' = [tasks EXCEPT ![t].pc = "cache", ![t].text = disk]
    /\ UNCHANGED <<editorVars, inbox, document, ahead, cached, handler, suspended, timer, shown>>

ReadDocument(t) ==
    /\ tasks[t].pc = "awake"
    /\ tasks' = [tasks EXCEPT ![t].pc = "cache", ![t].text = document]
    /\ UNCHANGED <<editorVars, inbox, document, ahead, cached, handler, suspended, timer, shown>>

CacheAnalysis(t) ==
    /\ tasks[t].pc = "cache"
    /\ cached' = tasks[t].text
    /\ tasks' = [tasks EXCEPT ![t].pc = "publish"]
    /\ UNCHANGED <<editorVars, inbox, document, ahead, handler, suspended, timer, shown>>

Publish(t) ==
    /\ tasks[t].pc = "publish"
    /\ shown' = tasks[t].text
    /\ tasks' = [tasks EXCEPT ![t] = NoTask]
    /\ UNCHANGED <<editorVars, inbox, document, ahead, cached, handler, suspended, timer>>

DropPublish(t) ==
    /\ tasks[t].pc = "publish" /\ tasks[t].aborted
    /\ tasks' = [tasks EXCEPT ![t] = NoTask]
    /\ UNCHANGED <<editorVars, inbox, document, ahead, cached, handler, suspended, timer, shown>>

-----------------------------------------------------------------------------
Editor == Type \/ Save \/ Reopen
Handle ==
    \/ HandleChange \/ HandleOpen \/ HandleSave
    \/ ScheduleRecheck \/ CheckNow \/ CacheNow \/ PublishNow \/ SuspendPublish
Task(t) == WakeUp(t) \/ ReadDocument(t) \/ CacheAnalysis(t) \/ Publish(t) \/ DropPublish(t)

Next == Editor \/ Handle \/ ResumePublish \/ \E t \in Slots : Task(t)

Spec == Init /\ [][Next]_vars

(* The runtime polls what is ready, and timers expire; the user owes       *)
(* nothing.                                                                *)
FairSpec ==
    /\ Spec
    /\ WF_vars(Handle)
    /\ WF_vars(ResumePublish)
    /\ \A t \in Slots : WF_vars(Task(t))

-----------------------------------------------------------------------------
(* Properties *)

Texts == Seq(1 .. MaxEdits)
Messages ==
    [kind : {"open", "replace"}, text : Texts]
        \cup [kind : {"edit"}, edit : 1 .. MaxEdits]
        \cup [kind : {"save"}]
Handlers == [pc : {"idle", "schedule", "check", "cache", "publish"}, text : Texts]
Tasks == [pc : {"none", "sleeping", "awake", "cache", "publish"}, text : Texts, aborted : BOOLEAN]

TypeOK ==
    /\ {slow, ahead} \subseteq BOOLEAN
    /\ {text, disk, document, cached, shown} \subseteq Texts
    /\ inbox \in Seq(Messages)
    /\ handler \in Handlers
    /\ suspended \subseteq Texts
    /\ tasks \in [Slots -> Tasks]
    /\ timer \in {0} \cup Slots
    /\ edits \in 0 .. MaxEdits /\ saves \in 0 .. MaxSaves /\ reopens \in 0 .. MaxReopens

(* did_save reads the file when it is handled, not as it was when it was   *)
(* saved: with another save behind it the buffer may hold an edit before   *)
(* its didChange arrives, and twice afterwards.  Once every message is     *)
(* handled it is the editor's again, unless just then a save took what a   *)
(* later save wrote, and the read of the later one failed.                 *)
BufferConverges == inbox = <<>> /\ ~ahead => document = text

(* A check that still sleeps is the one the next change or save cancels:   *)
(* an outdated timer never fires.                                          *)
OneTimer == \A t \in Slots : tasks[t].pc = "sleeping" => t = timer

(* The session is well-formed at every moment, its timers included.        *)
SessionInv == TypeOK /\ OneTimer

(* No edit goes unchecked: once its didChange is on its way, diagnostics   *)
(* for a text with the edit will be shown, unless the user drops the edit. *)
Arriving(n) ==
    \E i \in 1 .. Len(inbox) :
        \/ inbox[i].kind = "edit" /\ inbox[i].edit = n
        \/ inbox[i].kind = "replace" /\ Holds(inbox[i].text, n)

EveryEditIsChecked ==
    \A n \in 1 .. MaxEdits : Arriving(n) ~> Holds(shown, n) \/ ~Holds(text, n)

(* Where a check is over before the next message is handled: when all has  *)
(* come to rest, the diagnostics and the snapshot that hover and           *)
(* completion use are those of the buffer, and so of the editor's text.    *)
Settled ==
    /\ inbox = <<>> /\ handler.pc = "idle" /\ suspended = {}
    /\ \A t \in Slots : tasks[t].pc = "none"
SettledIsCurrent ==
    Settled /\ ~slow => shown = document /\ cached = document /\ (~ahead => shown = text)
=============================================================================
