------------------------ MODULE LanguageServerProofs ------------------------
(***************************************************************************)
(* Proofs about LanguageServer: for any number of edits, saves and         *)
(* reopenings, an outdated check never sleeps on, the server's buffer      *)
(* becomes the editor's text unless a save read ahead and the next read    *)
(* failed, and where checks are quick, what is shown once all is at rest   *)
(* is about the buffer.                                                    *)
(***************************************************************************)
EXTENDS LanguageServer, SequenceTheorems, TLAPS

-----------------------------------------------------------------------------
(* What arrives is a message, whatever the editor sent before. *)
LEMMA HeadOfInbox ==
    ASSUME inbox \in Seq(Messages), inbox # <<>>
    PROVE  Head(inbox) \in Messages /\ Tail(inbox) \in Seq(Messages)
BY HeadTailProperties

LEMMA MessageParts ==
    ASSUME NEW message \in Messages
    PROVE  /\ message.kind = "edit" => message.edit \in 1 .. MaxEdits
           /\ message.kind \in {"open", "replace"} => message.text \in Texts
BY DEF Messages

(* No check sleeps once the one in `debounce` is cancelled. *)
LEMMA NoneSleeps ==
    ASSUME SessionInv
    PROVE  Cancelled \in [Slots -> Tasks] /\ \A t \in Slots : Cancelled[t].pc # "sleeping"
<1> USE LanguageServerAssumption DEF SessionInv, TypeOK, OneTimer
<1>1. NoTask \in Tasks /\ NoTask.pc = "none"
  BY EmptySeq DEF NoTask, Tasks, Texts
<1>2. CASE timer = 0
  <2>1. \A t \in Slots : t # 0
    BY DEF Slots
  <2> QED
    BY <1>2, <2>1 DEF Cancelled
<1>3. CASE timer # 0
  <2> DEFINE task == tasks[timer]
             stopped == IF task.pc \in {"none", "sleeping"} THEN NoTask ELSE [task EXCEPT !.aborted = TRUE]
  <2>1. timer \in Slots /\ task \in Tasks
    BY <1>3
  <2>2. stopped \in Tasks /\ stopped.pc # "sleeping"
    BY <1>1, <2>1 DEF Tasks
  <2>3. Cancelled = [tasks EXCEPT ![timer] = stopped]
    BY <1>3 DEF Cancelled
  <2> HIDE DEF stopped
  <2> QED
    BY <2>1, <2>2, <2>3
<1> QED
  BY <1>2, <1>3

-----------------------------------------------------------------------------
LEMMA Initially == Init => SessionInv
<1> SUFFICES ASSUME Init PROVE SessionInv
  OBVIOUS
<1> USE LanguageServerAssumption
<1>1. <<>> \in Texts
  BY DEF Texts
<1>2. NoTask \in Tasks /\ IdleHandler \in Handlers /\ NoTask.pc = "none"
  BY <1>1 DEF NoTask, Tasks, IdleHandler, Handlers
<1>3. inbox \in Seq(Messages)
  <2>1. [kind |-> "open", text |-> <<>>] \in Messages
    BY <1>1 DEF Messages
  <2> QED
    BY <2>1 DEF Init
<1>4. TypeOK
  <2>1. {slow, ahead} \subseteq BOOLEAN /\ {text, disk, document, cached, shown} \subseteq Texts
    BY <1>1 DEF Init
  <2>2. handler \in Handlers /\ suspended \subseteq Texts /\ tasks \in [Slots -> Tasks]
    BY <1>2 DEF Init
  <2> QED
    BY <1>3, <2>1, <2>2 DEF Init, TypeOK
<1>5. OneTimer
  BY <1>2 DEF Init, OneTimer
<1> QED
  BY <1>4, <1>5 DEF SessionInv

(* The editor changes the text and sends a message; it knows no timers. *)
LEMMA EditorKeeps == ASSUME SessionInv, Editor PROVE SessionInv'
<1> USE LanguageServerAssumption
<1>0. TypeOK /\ OneTimer /\ UNCHANGED <<document, ahead, cached, handler, suspended, tasks, timer, shown, slow>>
  BY DEF SessionInv, Editor, Type, Save, Reopen
<1>1. OneTimer'
  BY <1>0 DEF OneTimer
<1>2. ASSUME NEW message \in Messages, inbox' = Append(inbox, message)
      PROVE  inbox' \in Seq(Messages)
  BY <1>0, <1>2, AppendProperties DEF TypeOK
<1>3. CASE Type
  <2>1. edits' \in 1 .. MaxEdits
    BY <1>0, <1>3 DEF TypeOK, Type
  <2>2. text' \in Texts
    BY <1>0, <1>3, <2>1, AppendProperties DEF TypeOK, Type, Texts
  <2>3. [kind |-> "edit", edit |-> edits'] \in Messages /\ [kind |-> "replace", text |-> text'] \in Messages
    BY <2>1, <2>2 DEF Messages
  <2>4. inbox' \in Seq(Messages)
    BY <1>2, <1>3, <2>3 DEF Type
  <2>5. TypeOK'
    BY <1>0, <1>3, <2>1, <2>2, <2>4 DEF TypeOK, Type
  <2> QED
    BY <1>1, <2>5 DEF SessionInv
<1>4. CASE Save
  <2>1. [kind |-> "save"] \in Messages
    BY DEF Messages
  <2>2. inbox' \in Seq(Messages)
    BY <1>2, <1>4, <2>1 DEF Save
  <2>3. TypeOK'
    BY <1>0, <1>4, <2>2 DEF TypeOK, Save
  <2> QED
    BY <1>1, <2>3 DEF SessionInv
<1>5. CASE Reopen
  <2>1. [kind |-> "open", text |-> disk] \in Messages
    BY <1>0 DEF TypeOK, Messages
  <2>2. inbox' \in Seq(Messages)
    BY <1>2, <1>5, <2>1 DEF Reopen
  <2>3. TypeOK'
    BY <1>0, <1>5, <2>2 DEF TypeOK, Reopen
  <2> QED
    BY <1>1, <2>3 DEF SessionInv
<1> QED
  BY <1>3, <1>4, <1>5 DEF Editor

(* A handler replaces the buffer and leaves the checks to a later step. *)
LEMMA MessageKeeps ==
    ASSUME SessionInv, HandleChange \/ HandleOpen \/ HandleSave
    PROVE  SessionInv'
<1>0. /\ TypeOK /\ OneTimer /\ inbox # <<>> /\ inbox' = Tail(inbox)
      /\ UNCHANGED <<editorVars, cached, suspended, tasks, timer, shown>>
  BY DEF SessionInv, HandleChange, HandleOpen, HandleSave
<1>1. Head(inbox) \in Messages /\ inbox' \in Seq(Messages)
  BY <1>0, HeadOfInbox DEF TypeOK
<1>2. document' \in Texts
  <2>1. CASE HandleChange
    <3>1. CASE Head(inbox).kind = "edit" /\ document' = Append(document, Head(inbox).edit)
      <4>1. Head(inbox).edit \in 1 .. MaxEdits
        BY <1>1, <3>1, MessageParts
      <4> QED
        BY <1>0, <3>1, <4>1, AppendProperties DEF TypeOK, Texts
    <3>2. CASE Head(inbox).kind = "replace" /\ document' = Head(inbox).text
      BY <1>1, <3>2, MessageParts
    <3> QED
      BY <2>1, <3>1, <3>2 DEF HandleChange
  <2>2. CASE HandleOpen
    BY <1>1, <2>2, MessageParts DEF HandleOpen
  <2>3. CASE HandleSave
    BY <1>0, <2>3 DEF HandleSave, TypeOK
  <2> QED
    BY <2>1, <2>2, <2>3
<1>3. handler' \in Handlers
  BY <1>0 DEF HandleChange, HandleOpen, HandleSave, TypeOK, Handlers
<1>4. ahead' \in BOOLEAN
  BY <1>0 DEF HandleChange, HandleOpen, HandleSave, SaveFollows, TypeOK
<1>5. TypeOK'
  BY <1>0, <1>1, <1>2, <1>3, <1>4 DEF TypeOK, editorVars
<1>6. OneTimer'
  BY <1>0 DEF OneTimer
<1> QED
  BY <1>5, <1>6 DEF SessionInv

(* schedule_recheck cancels the check before, and run_immediate_check too. *)
LEMMA ScheduleKeeps == ASSUME SessionInv, ScheduleRecheck \/ CheckNow PROVE SessionInv'
<1> USE LanguageServerAssumption
<1>0. /\ TypeOK /\ UNCHANGED <<editorVars, inbox, document, ahead, cached, suspended, shown>>
      /\ Cancelled \in [Slots -> Tasks] /\ \A t \in Slots : Cancelled[t].pc # "sleeping"
  BY NoneSleeps DEF SessionInv, ScheduleRecheck, CheckNow
<1>1. <<>> \in Texts
  BY DEF Texts
<1>2. CASE ScheduleRecheck
  <2> DEFINE asleep == [NoTask EXCEPT !.pc = "sleeping"]
  <2>1. PICK t \in Slots : tasks' = [Cancelled EXCEPT ![t] = asleep] /\ timer' = t
    BY <1>2 DEF ScheduleRecheck
  <2>2. asleep \in Tasks /\ IdleHandler \in Handlers
    BY <1>1 DEF NoTask, Tasks, IdleHandler, Handlers
  <2> HIDE DEF asleep
  <2>3. tasks' \in [Slots -> Tasks] /\ \A u \in Slots : tasks'[u].pc = "sleeping" => u = t
    BY <1>0, <2>1, <2>2
  <2>4. OneTimer'
    BY <2>1, <2>3 DEF OneTimer
  <2>5. TypeOK'
    BY <1>0, <1>2, <2>1, <2>2, <2>3 DEF TypeOK, editorVars, ScheduleRecheck
  <2> QED
    BY <2>4, <2>5 DEF SessionInv
<1>3. CASE CheckNow
  <2>1. tasks' = Cancelled /\ timer' = 0 /\ handler' = [pc |-> "cache", text |-> document]
    BY <1>3 DEF CheckNow
  <2>2. handler' \in Handlers
    BY <1>0, <2>1 DEF TypeOK, Handlers
  <2>3. OneTimer'
    BY <1>0, <2>1 DEF OneTimer
  <2>4. TypeOK'
    BY <1>0, <2>1, <2>2 DEF TypeOK, editorVars
  <2> QED
    BY <2>3, <2>4 DEF SessionInv
<1> QED
  BY <1>2, <1>3

LEMMA PublishingKeeps ==
    ASSUME SessionInv, CacheNow \/ PublishNow \/ SuspendPublish \/ ResumePublish
    PROVE  SessionInv'
<1>0. TypeOK /\ OneTimer /\ UNCHANGED <<editorVars, inbox, document, ahead, tasks, timer>>
  BY DEF SessionInv, CacheNow, PublishNow, SuspendPublish, ResumePublish
<1>1. IdleHandler \in Handlers
  BY DEF IdleHandler, Handlers, Texts
<1>2. handler.text \in Texts
  BY <1>0 DEF TypeOK, Handlers
<1>3. handler' \in Handlers
  BY <1>0, <1>1 DEF CacheNow, PublishNow, SuspendPublish, ResumePublish, TypeOK, Handlers
<1>4. {cached, shown}' \subseteq Texts /\ suspended' \subseteq Texts
  BY <1>0, <1>2 DEF CacheNow, PublishNow, SuspendPublish, ResumePublish, TypeOK
<1>5. TypeOK'
  BY <1>0, <1>3, <1>4 DEF TypeOK, editorVars
<1>6. OneTimer'
  BY <1>0 DEF OneTimer
<1> QED
  BY <1>5, <1>6 DEF SessionInv

(* A check that runs never goes back to sleep. *)
LEMMA TaskKeeps == ASSUME SessionInv, NEW t \in Slots, Task(t) PROVE SessionInv'
<1>0. TypeOK /\ OneTimer /\ UNCHANGED <<editorVars, inbox, document, ahead, handler, suspended, timer>>
  BY DEF SessionInv, Task, WakeUp, ReadDocument, CacheAnalysis, Publish, DropPublish
<1>1. tasks[t] \in Tasks /\ NoTask \in Tasks /\ NoTask.pc # "sleeping" /\ document \in Texts
  BY <1>0 DEF TypeOK, NoTask, Tasks, Texts
<1>2. \E task \in Tasks : task.pc # "sleeping" /\ tasks' = [tasks EXCEPT ![t] = task]
  <2>1. CASE WakeUp(t)
    <3>1. tasks' = [tasks EXCEPT ![t] = [tasks[t] EXCEPT !.pc = "awake"]]
      BY <2>1 DEF WakeUp
    <3> QED
      BY <1>1, <3>1 DEF Tasks
  <2>2. CASE ReadDocument(t)
    <3>1. tasks' = [tasks EXCEPT ![t] = [tasks[t] EXCEPT !.pc = "cache", !.text = document]]
      BY <1>0, <2>2 DEF ReadDocument, TypeOK
    <3> QED
      BY <1>1, <3>1 DEF Tasks
  <2>3. CASE CacheAnalysis(t)
    <3>1. tasks' = [tasks EXCEPT ![t] = [tasks[t] EXCEPT !.pc = "publish"]]
      BY <2>3 DEF CacheAnalysis
    <3> QED
      BY <1>1, <3>1 DEF Tasks
  <2>4. CASE Publish(t) \/ DropPublish(t)
    BY <1>1, <2>4 DEF Publish, DropPublish
  <2> QED
    BY <2>1, <2>2, <2>3, <2>4 DEF Task
<1>3. {cached, shown}' \subseteq Texts
  BY <1>0, <1>1 DEF Task, WakeUp, ReadDocument, CacheAnalysis, Publish, DropPublish, TypeOK, Tasks
<1>4. PICK task \in Tasks : task.pc # "sleeping" /\ tasks' = [tasks EXCEPT ![t] = task]
  BY <1>2
<1>5. tasks' \in [Slots -> Tasks]
  BY <1>0, <1>4 DEF TypeOK
<1>6. OneTimer'
  BY <1>0, <1>4 DEF OneTimer, TypeOK
<1>7. TypeOK'
  BY <1>0, <1>3, <1>5 DEF TypeOK, editorVars
<1> QED
  BY <1>6, <1>7 DEF SessionInv

-----------------------------------------------------------------------------
LEMMA SessionInvKept == SessionInv /\ [Next]_vars => SessionInv'
<1> SUFFICES ASSUME SessionInv, [Next]_vars PROVE SessionInv'
  OBVIOUS
<1>1. CASE Editor
  BY <1>1, EditorKeeps
<1>2. CASE HandleChange \/ HandleOpen \/ HandleSave
  BY <1>2, MessageKeeps
<1>3. CASE ScheduleRecheck \/ CheckNow
  BY <1>3, ScheduleKeeps
<1>4. CASE CacheNow \/ PublishNow \/ SuspendPublish \/ ResumePublish
  BY <1>4, PublishingKeeps
<1>5. ASSUME NEW t \in Slots, Task(t) PROVE SessionInv'
  BY <1>5, TaskKeeps
<1>6. CASE UNCHANGED vars
  BY <1>6 DEF vars, editorVars, SessionInv, TypeOK, OneTimer
<1> QED
  BY <1>1, <1>2, <1>3, <1>4, <1>5, <1>6 DEF Next, Handle

(* However the user types, saves and reopens, and however checks and       *)
(* handlers overlap: a check that still sleeps is the one in `debounce`,   *)
(* which the next change or save cancels (schedule_recheck,                *)
(* cancel_debounce).                                                       *)
THEOREM OutdatedTimersAreCancelled == Spec => []SessionInv
BY Initially, SessionInvKept, PTL DEF Spec

-----------------------------------------------------------------------------
(* The buffer.  Messages not handled yet lead from it to the editor's      *)
(* text: after[i] is what the buffer should be i messages from now.  The   *)
(* buffer is after[0] unless a save read ahead, and the file is what it    *)
(* should be after the last save among the messages.                       *)

Told(buffer, message) ==
    IF message.kind = "edit" THEN Append(buffer, message.edit)
    ELSE IF message.kind = "save" THEN buffer
    ELSE message.text

LastSave(messages, i) ==
    /\ messages[i].kind = "save"
    /\ \A j \in i + 1 .. Len(messages) : messages[j].kind # "save"

Follows(known, buffer, messages, file, goal, after) ==
    /\ known => after[0] = buffer
    /\ \A i \in 1 .. Len(messages) :
          /\ after[i] = Told(after[i - 1], messages[i])
          /\ LastSave(messages, i) => after[i] = file
    /\ after[Len(messages)] = goal

LeadsTo(known, buffer, messages, file, goal) ==
    \E after \in [0 .. Len(messages) -> Texts] : Follows(known, buffer, messages, file, goal, after)

BufferInv == LeadsTo(~ahead, document, inbox, disk, text)

(* The editor sends a message: a save has just written the file. *)
LEMMA MessageSent ==
    ASSUME NEW messages \in Seq(Messages), NEW known, NEW buffer, NEW file, NEW goal,
           LeadsTo(known, buffer, messages, file, goal),
           NEW message \in Messages, NEW goal2 \in Texts, goal2 = Told(goal, message),
           NEW file2, IF message.kind = "save" THEN file2 = goal2 ELSE file2 = file
    PROVE  LeadsTo(known, buffer, Append(messages, message), file2, goal2)
<1> DEFINE n == Len(messages)
           longer == Append(messages, message)
<1>1. n \in Nat /\ Len(longer) = n + 1 /\ longer[n + 1] = message /\ \A i \in 1 .. n : longer[i] = messages[i]
  BY AppendProperties, LenProperties
<1>2. PICK after \in [0 .. n -> Texts] : Follows(known, buffer, messages, file, goal, after)
  BY DEF LeadsTo
<1> DEFINE after2 == [i \in 0 .. n + 1 |-> IF i = n + 1 THEN goal2 ELSE after[i]]
<1>3. /\ after2 \in [0 .. n + 1 -> Texts] /\ after2[n + 1] = goal2
      /\ \A i \in 0 .. n : after2[i] = after[i]
  BY <1>1
<1> HIDE DEF after2, longer
<1>4. known => after2[0] = buffer
  BY <1>1, <1>2, <1>3 DEF Follows
<1>5. ASSUME NEW i \in 1 .. n + 1
      PROVE  /\ after2[i] = Told(after2[i - 1], longer[i])
             /\ LastSave(longer, i) => after2[i] = file2
  <2>1. CASE i = n + 1
    <3>1. i - 1 = n /\ after2[n] = goal
      BY <1>1, <1>2, <1>3, <2>1 DEF Follows
    <3> QED
      BY <1>1, <1>3, <2>1, <3>1 DEF LastSave
  <2>2. CASE i # n + 1
    <3>1. i \in 1 .. n /\ i \in 0 .. n /\ i - 1 \in 0 .. n /\ n + 1 \in i + 1 .. n + 1
      BY <1>1, <2>2
    <3>2. longer[i] = messages[i] /\ after2[i] = after[i] /\ after2[i - 1] = after[i - 1]
      BY <1>1, <1>3, <3>1
    <3>3. after2[i] = Told(after2[i - 1], longer[i])
      BY <1>2, <3>1, <3>2 DEF Follows
    <3>4. ASSUME LastSave(longer, i) PROVE LastSave(messages, i) /\ message.kind # "save"
      <4>1. \A j \in i + 1 .. n : j \in 1 .. n /\ j \in i + 1 .. n + 1
        BY <1>1, <3>1
      <4> QED
        BY <1>1, <3>1, <3>2, <3>4, <4>1 DEF LastSave
    <3> QED
      BY <1>2, <3>1, <3>2, <3>3, <3>4 DEF Follows
  <2> QED
    BY <2>1, <2>2
<1>6. Follows(known, buffer, longer, file2, goal2, after2)
  BY <1>1, <1>3, <1>4, <1>5 DEF Follows
<1> QED
  BY <1>1, <1>3, <1>6 DEF LeadsTo, longer

(* The server handles the first message: it changes the buffer as the      *)
(* editor changed the text, or takes the file of the last save.            *)
LEMMA MessageHandled ==
    ASSUME NEW messages \in Seq(Messages), messages # <<>>,
           NEW known, NEW buffer, NEW file, NEW goal,
           LeadsTo(known, buffer, messages, file, goal),
           NEW known2, NEW buffer2,
           known2 => \/ known /\ buffer2 = Told(buffer, Head(messages))
                     \/ Head(messages).kind \in {"open", "replace"} /\ buffer2 = Head(messages).text
                     \/ LastSave(messages, 1) /\ buffer2 = file
    PROVE  LeadsTo(known2, buffer2, Tail(messages), file, goal)
<1> DEFINE n == Len(messages)
           rest == Tail(messages)
<1>1. /\ n \in Nat \ {0} /\ Len(rest) = n - 1 /\ Head(messages) = messages[1]
      /\ \A i \in 1 .. n - 1 : rest[i] = messages[i + 1]
  BY HeadTailProperties, LenProperties, EmptySeq
<1>2. PICK after \in [0 .. n -> Texts] : Follows(known, buffer, messages, file, goal, after)
  BY DEF LeadsTo
<1> DEFINE after2 == [i \in 0 .. n - 1 |-> after[i + 1]]
<1>3. after2 \in [0 .. n - 1 -> Texts] /\ \A i \in 0 .. n - 1 : after2[i] = after[i + 1]
  BY <1>1
<1> HIDE DEF rest, after2
<1>4. known2 => after2[0] = buffer2
  <2>1. 1 \in 1 .. n /\ 1 - 1 = 0 /\ after2[0] = after[1]
    BY <1>1, <1>3
  <2>2. after[1] = Told(after[0], messages[1]) /\ (LastSave(messages, 1) => after[1] = file)
    BY <1>2, <2>1 DEF Follows
  <2>3. CASE known /\ buffer2 = Told(buffer, messages[1])
    BY <1>2, <2>1, <2>2, <2>3 DEF Follows
  <2>4. CASE messages[1].kind \in {"open", "replace"} /\ buffer2 = messages[1].text
    BY <2>1, <2>2, <2>4 DEF Told
  <2>5. CASE LastSave(messages, 1) /\ buffer2 = file
    BY <2>1, <2>2, <2>5
  <2> QED
    BY <1>1, <2>3, <2>4, <2>5
<1>5. ASSUME NEW i \in 1 .. n - 1
      PROVE  /\ after2[i] = Told(after2[i - 1], rest[i])
             /\ LastSave(rest, i) => after2[i] = file
  <2>1. /\ i - 1 \in 0 .. n - 1 /\ i \in 0 .. n - 1 /\ i + 1 \in 1 .. n
        /\ (i + 1) - 1 = i /\ (i - 1) + 1 = i
    BY <1>1
  <2>2. rest[i] = messages[i + 1] /\ after2[i] = after[i + 1] /\ after2[i - 1] = after[i]
    BY <1>1, <1>3, <2>1
  <2>3. /\ after[i + 1] = Told(after[(i + 1) - 1], messages[i + 1])
        /\ LastSave(messages, i + 1) => after[i + 1] = file
    BY <1>2, <2>1 DEF Follows
  <2>4. ASSUME LastSave(rest, i) PROVE LastSave(messages, i + 1)
    <3>1. ASSUME NEW j \in (i + 1) + 1 .. n PROVE messages[j].kind # "save"
      <4>1. j - 1 \in i + 1 .. n - 1 /\ j - 1 \in 1 .. n - 1 /\ (j - 1) + 1 = j
        BY <1>1
      <4>2. rest[j - 1] = messages[j] /\ rest[j - 1].kind # "save"
        BY <1>1, <2>4, <4>1 DEF LastSave
      <4> QED
        BY <4>2
    <3> QED
      BY <2>2, <2>4, <3>1 DEF LastSave
  <2> QED
    BY <2>1, <2>2, <2>3, <2>4
<1>6. after2[n - 1] = goal
  <2>1. n - 1 \in 0 .. n - 1 /\ (n - 1) + 1 = n
    BY <1>1
  <2> QED
    BY <1>2, <1>3, <2>1 DEF Follows
<1>7. Follows(known2, buffer2, rest, file, goal, after2)
  BY <1>1, <1>4, <1>5, <1>6 DEF Follows
<1> QED
  BY <1>1, <1>3, <1>7 DEF LeadsTo, rest

LEMMA BufferInitially == Init => BufferInv
<1> SUFFICES ASSUME Init PROVE BufferInv
  OBVIOUS
<1> DEFINE opened == [kind |-> "open", text |-> <<>>]
           start == [i \in 0 .. 0 |-> <<>>]
<1>1. opened \in Messages /\ <<>> \in Texts /\ <<>> \in Seq(Messages) /\ Len(<<>>) = 0
  BY DEF Messages, Texts
<1>2. inbox = Append(<<>>, opened) /\ text = <<>> /\ document = <<>>
  BY DEF Init
<1>3. opened.kind = "open" /\ Told(<<>>, opened) = <<>>
  BY DEF Told
<1>4. start \in [0 .. 0 -> Texts] /\ start[0] = <<>>
  BY <1>1
<1> HIDE DEF opened, start
<1>5. Follows(~ahead, <<>>, <<>>, disk, <<>>, start)
  BY <1>1, <1>4 DEF Follows
<1>6. LeadsTo(~ahead, <<>>, <<>>, disk, <<>>)
  BY <1>1, <1>4, <1>5 DEF LeadsTo
<1>7. LeadsTo(~ahead, document, Append(<<>>, opened), disk, <<>>)
  BY <1>1, <1>2, <1>3, <1>6, MessageSent
<1> QED
  BY <1>2, <1>7 DEF BufferInv

LEMMA BufferKept == SessionInv /\ BufferInv /\ [Next]_vars => BufferInv'
<1> SUFFICES ASSUME SessionInv, BufferInv, [Next]_vars PROVE BufferInv'
  OBVIOUS
<1> USE LanguageServerAssumption
<1>0. inbox \in Seq(Messages) /\ {text, disk} \subseteq Texts
  BY DEF SessionInv, TypeOK
<1>1. ASSUME Editor,
             NEW message \in Messages, inbox' = Append(inbox, message),
             text' \in Texts, text' = Told(text, message),
             IF message.kind = "save" THEN disk' = text' ELSE disk' = disk
      PROVE  BufferInv'
  <2>1. UNCHANGED <<document, ahead>>
    BY <1>1 DEF Editor, Type, Save, Reopen
  <2>2. LeadsTo(~ahead, document, Append(inbox, message), disk', text')
    BY <1>0, <1>1, MessageSent DEF BufferInv
  <2> QED
    BY <1>1, <2>1, <2>2 DEF BufferInv
<1>2. CASE Type
  <2>1. edits' \in 1 .. MaxEdits /\ text' = Append(text, edits') /\ disk' = disk
    BY <1>2 DEF SessionInv, TypeOK, Type
  <2>2. text' \in Texts
    BY <1>0, <2>1, AppendProperties DEF Texts
  <2>3. CASE inbox' = Append(inbox, [kind |-> "edit", edit |-> edits'])
    <3> DEFINE message == [kind |-> "edit", edit |-> edits']
    <3>1. message \in Messages /\ text' = Told(text, message) /\ message.kind # "save"
      BY <2>1 DEF Messages, Told
    <3> QED
      BY <1>1, <1>2, <2>1, <2>2, <2>3, <3>1 DEF Editor
  <2>4. CASE inbox' = Append(inbox, [kind |-> "replace", text |-> text'])
    <3> DEFINE message == [kind |-> "replace", text |-> text']
    <3>1. message \in Messages /\ text' = Told(text, message) /\ message.kind # "save"
      BY <2>2 DEF Messages, Told
    <3> QED
      BY <1>1, <1>2, <2>1, <2>2, <2>4, <3>1 DEF Editor
  <2> QED
    BY <1>2, <2>3, <2>4 DEF Type
<1>3. CASE Save
  <2> DEFINE message == [kind |-> "save"]
  <2>1. inbox' = Append(inbox, message) /\ disk' = text /\ text' = text
    BY <1>3 DEF Save
  <2>2. message \in Messages /\ text = Told(text, message) /\ message.kind = "save"
    BY DEF Messages, Told
  <2> QED
    BY <1>0, <1>1, <1>3, <2>1, <2>2 DEF Editor
<1>4. CASE Reopen
  <2> DEFINE message == [kind |-> "open", text |-> disk]
  <2>1. inbox' = Append(inbox, message) /\ text' = disk /\ disk' = disk
    BY <1>4 DEF Reopen
  <2>2. message \in Messages /\ disk = Told(text, message) /\ message.kind # "save"
    BY <1>0 DEF Messages, Told
  <2> QED
    BY <1>0, <1>1, <1>4, <2>1, <2>2 DEF Editor
<1>5. CASE HandleChange \/ HandleOpen \/ HandleSave
  <2>1. inbox # <<>> /\ inbox' = Tail(inbox) /\ UNCHANGED <<text, disk>>
    BY <1>5 DEF HandleChange, HandleOpen, HandleSave, editorVars
  <2>2. ahead \in BOOLEAN /\ ahead' \in BOOLEAN
    BY SessionInvKept DEF SessionInv, TypeOK
  <2>3. ~ahead' => \/ ~ahead /\ document' = Told(document, Head(inbox))
                   \/ Head(inbox).kind \in {"open", "replace"} /\ document' = Head(inbox).text
                   \/ LastSave(inbox, 1) /\ document' = disk
    <3>1. CASE HandleChange \/ HandleOpen
      BY <3>1 DEF HandleChange, HandleOpen, Told
    <3>2. CASE HandleSave
      <4>1. Head(inbox).kind = "save" /\ Head(inbox) = inbox[1] /\ 1 + 1 = 2
        BY <3>2, HeadTailProperties, <1>0 DEF HandleSave
      <4>2. ~SaveFollows => LastSave(inbox, 1)
        BY <4>1 DEF SaveFollows, LastSave
      <4> QED
        BY <3>2, <4>1, <4>2 DEF HandleSave, Told
    <3> QED
      BY <1>5, <3>1, <3>2
  <2>4. LeadsTo(~ahead', document', Tail(inbox), disk, text)
    BY <1>0, <2>1, <2>3, MessageHandled DEF BufferInv
  <2> QED
    BY <2>1, <2>4 DEF BufferInv
<1>6. CASE UNCHANGED <<document, ahead, inbox, disk, text>>
  BY <1>6 DEF BufferInv
<1>7. ASSUME NEW t \in Slots, Task(t) PROVE UNCHANGED <<document, ahead, inbox, disk, text>>
  BY <1>7 DEF Task, WakeUp, ReadDocument, CacheAnalysis, Publish, DropPublish, editorVars
<1>8. CASE ScheduleRecheck \/ CheckNow \/ CacheNow \/ PublishNow \/ SuspendPublish \/ ResumePublish
  BY <1>6, <1>8 DEF ScheduleRecheck, CheckNow, CacheNow, PublishNow, SuspendPublish, ResumePublish, editorVars
<1>9. CASE UNCHANGED vars
  BY <1>6, <1>9 DEF vars, editorVars
<1> QED
  BY <1>2, <1>3, <1>4, <1>5, <1>6, <1>7, <1>8, <1>9 DEF Next, Editor, Handle

LEMMA BufferInvSuffices == SessionInv /\ BufferInv => BufferConverges
<1> SUFFICES ASSUME BufferInv, inbox = <<>>, ~ahead PROVE document = text
  BY DEF BufferConverges
<1>1. Len(inbox) = 0
  OBVIOUS
<1>2. PICK after \in [0 .. Len(inbox) -> Texts] : Follows(~ahead, document, inbox, disk, text, after)
  BY DEF BufferInv, LeadsTo
<1> QED
  BY <1>1, <1>2 DEF Follows

(* Once every message is handled the server's buffer is the editor's text, *)
(* although a save replaces it by the file as it is when the message is    *)
(* handled, or leaves it when the file cannot be read: unless one save     *)
(* took what a later one wrote and the read of the later one failed        *)
(* (did_change, handle_save, apply_changes).                               *)
THEOREM BufferBecomesText == Spec => []BufferConverges
<1>1. SessionInv /\ BufferInv /\ [Next]_vars => (SessionInv /\ BufferInv)'
  BY SessionInvKept, BufferKept
<1> QED
  BY <1>1, Initially, BufferInitially, BufferInvSuffices, PTL DEF Spec

-----------------------------------------------------------------------------
(* Quick checks: at most one check is on its way at any moment, what it    *)
(* has read is the buffer, and when none is, all is about the buffer.      *)

QuickInv ==
    ~slow =>
        /\ suspended = {}
        /\ \A t \in Slots : ~tasks[t].aborted
        /\ \A t, u \in Slots : tasks[t].pc # "none" /\ tasks[u].pc # "none" => t = u
        /\ handler.pc \in {"cache", "publish"} =>
               handler.text = document /\ \A t \in Slots : tasks[t].pc = "none"
        /\ handler.pc = "publish" => cached = document
        /\ \A t \in Slots :
              /\ tasks[t].pc \in {"cache", "publish"} => tasks[t].text = document
              /\ tasks[t].pc = "publish" => cached = document
        /\ handler.pc = "idle" /\ (\A t \in Slots : tasks[t].pc = "none") =>
               shown = document /\ cached = document

LEMMA QuickInitially == Init => QuickInv
BY DEF Init, QuickInv, NoTask, IdleHandler

(* Where checks are quick, cancelling leaves no check at all. *)
LEMMA NoneIsLeft ==
    ASSUME SessionInv, QuickInv, ~slow, Undisturbed
    PROVE  \A t \in Slots : Cancelled[t].pc = "none" /\ ~Cancelled[t].aborted
<1> SUFFICES ASSUME NEW t \in Slots PROVE Cancelled[t].pc = "none" /\ ~Cancelled[t].aborted
  OBVIOUS
<1>1. tasks \in [Slots -> Tasks] /\ timer \in {0} \cup Slots /\ OneTimer
  BY DEF SessionInv, TypeOK
<1>2. tasks[t].pc \in {"none", "sleeping"} /\ ~tasks[t].aborted
  BY DEF Undisturbed, Checking, QuickInv
<1>3. CASE timer = t
  <2>1. timer # 0
    BY LanguageServerAssumption, <1>3 DEF Slots
  <2> QED
    BY <1>1, <1>2, <1>3, <2>1 DEF Cancelled, NoTask
<1>4. CASE timer # t
  <2>1. tasks[t].pc = "none"
    BY <1>1, <1>2, <1>4 DEF OneTimer
  <2>2. Cancelled[t] = tasks[t]
    BY <1>1, <1>4 DEF Cancelled
  <2> QED
    BY <1>2, <2>1, <2>2
<1> QED
  BY <1>3, <1>4

LEMMA QuickKept == SessionInv /\ QuickInv /\ [Next]_vars => QuickInv'
<1> SUFFICES ASSUME SessionInv, QuickInv, [Next]_vars, ~slow' PROVE QuickInv'
  BY DEF QuickInv
<1>0. ~slow /\ TypeOK /\ OneTimer /\ tasks \in [Slots -> Tasks]
  <2>1. UNCHANGED slow
    BY DEF Next, Editor, Type, Save, Reopen, Handle, HandleChange, HandleOpen, HandleSave,
           ScheduleRecheck, CheckNow, CacheNow, PublishNow, SuspendPublish, ResumePublish,
           Task, WakeUp, ReadDocument, CacheAnalysis, Publish, DropPublish, vars, editorVars
  <2> QED
    BY <2>1 DEF SessionInv, TypeOK
<1>1. CASE Editor
  BY <1>0, <1>1 DEF Editor, Type, Save, Reopen, QuickInv
<1>2. CASE HandleChange \/ HandleOpen \/ HandleSave
  <2>1. /\ UNCHANGED <<cached, suspended, tasks, shown>>
        /\ handler.pc = "idle" /\ handler'.pc \in {"schedule", "check"}
        /\ \A t \in Slots : tasks[t].pc \in {"none", "sleeping"}
    <3>1. handler' = [handler EXCEPT !.pc = "schedule"] \/ handler' = [handler EXCEPT !.pc = "check"]
      BY <1>2 DEF HandleChange, HandleOpen, HandleSave
    <3>2. handler'.pc \in {"schedule", "check"}
      BY <1>0, <3>1 DEF TypeOK, Handlers
    <3> QED
      BY <1>0, <1>2, <3>2 DEF HandleChange, HandleOpen, HandleSave, Undisturbed, Checking
  <2> QED
    BY <1>0, <2>1 DEF QuickInv
<1>3. CASE ScheduleRecheck
  <2>1. \A t \in Slots : Cancelled[t].pc = "none" /\ ~Cancelled[t].aborted
    BY <1>0, <1>3, NoneIsLeft DEF ScheduleRecheck
  <2>2. Cancelled \in [Slots -> Tasks]
    BY NoneSleeps
  <2>3. PICK t \in Slots : tasks' = [Cancelled EXCEPT ![t] = [NoTask EXCEPT !.pc = "sleeping"]]
    BY <1>3 DEF ScheduleRecheck
  <2>4. /\ tasks'[t].pc = "sleeping" /\ ~tasks'[t].aborted
        /\ \A u \in Slots : u # t => tasks'[u].pc = "none" /\ ~tasks'[u].aborted
    BY <2>1, <2>2, <2>3 DEF NoTask
  <2>5. handler'.pc = "idle" /\ UNCHANGED <<document, ahead, cached, suspended, shown>>
    BY <1>3 DEF ScheduleRecheck, IdleHandler
  <2> QED
    BY <1>0, <2>4, <2>5 DEF QuickInv
<1>4. CASE CheckNow
  <2>1. \A t \in Slots : tasks'[t].pc = "none" /\ ~tasks'[t].aborted
    BY <1>0, <1>4, NoneIsLeft DEF CheckNow
  <2>2. handler'.pc = "cache" /\ handler'.text = document /\ UNCHANGED <<document, ahead, cached, suspended, shown>>
    BY <1>4 DEF CheckNow
  <2> QED
    BY <1>0, <2>1, <2>2 DEF QuickInv
<1>5. CASE CacheNow
  <2>1. handler'.pc = "publish" /\ handler'.text = handler.text
    BY <1>0, <1>5 DEF CacheNow, TypeOK, Handlers
  <2> QED
    BY <1>0, <1>5, <2>1 DEF QuickInv, CacheNow
<1>6. CASE PublishNow
  BY <1>0, <1>6 DEF QuickInv, PublishNow, IdleHandler
<1>7. CASE SuspendPublish \/ ResumePublish
  BY <1>0, <1>7 DEF QuickInv, SuspendPublish, ResumePublish
<1>8. ASSUME NEW t \in Slots, Task(t) PROVE QuickInv'
  <2>0. UNCHANGED <<document, handler, suspended>> /\ tasks[t] \in Tasks
    BY <1>0, <1>8 DEF Task, WakeUp, ReadDocument, CacheAnalysis, Publish, DropPublish
  <2>1. tasks[t].pc # "none" /\ \A u \in Slots : u # t => tasks[u].pc = "none"
    BY <1>0, <1>8 DEF Task, WakeUp, ReadDocument, CacheAnalysis, Publish, DropPublish, QuickInv
  <2>2. handler.pc \notin {"cache", "publish"} /\ ~tasks[t].aborted
    BY <1>0, <2>1 DEF QuickInv
  <2>3. ASSUME NEW task \in Tasks, tasks' = [tasks EXCEPT ![t] = task], ~task.aborted,
               UNCHANGED shown, task.pc # "none",
               task.pc \in {"cache", "publish"} => task.text = document,
               task.pc = "publish" => cached' = document
        PROVE  QuickInv'
    <3>1. tasks'[t] = task /\ \A u \in Slots : u # t => tasks'[u] = tasks[u]
      BY <1>0, <2>3
    <3> QED
      BY <1>0, <2>0, <2>1, <2>2, <2>3, <3>1 DEF QuickInv
  <2>4. CASE WakeUp(t)
    <3> DEFINE task == [tasks[t] EXCEPT !.pc = "awake"]
    <3>1. tasks' = [tasks EXCEPT ![t] = task] /\ UNCHANGED shown
      BY <2>4 DEF WakeUp
    <3>2. task \in Tasks /\ task.pc = "awake" /\ ~task.aborted
      BY <2>0, <2>2 DEF Tasks
    <3> HIDE DEF task
    <3> QED
      BY <2>3, <3>1, <3>2
  <2>5. CASE ReadDocument(t)
    <3> DEFINE task == [tasks[t] EXCEPT !.pc = "cache", !.text = document]
    <3>1. tasks' = [tasks EXCEPT ![t] = task] /\ UNCHANGED shown
      BY <1>0, <2>5 DEF ReadDocument
    <3>2. task \in Tasks /\ task.pc = "cache" /\ task.text = document /\ ~task.aborted
      BY <1>0, <2>0, <2>2 DEF Tasks, TypeOK
    <3> HIDE DEF task
    <3> QED
      BY <2>3, <3>1, <3>2
  <2>6. CASE CacheAnalysis(t)
    <3> DEFINE task == [tasks[t] EXCEPT !.pc = "publish"]
    <3>1. tasks' = [tasks EXCEPT ![t] = task] /\ UNCHANGED shown /\ cached' = tasks[t].text
      BY <2>6 DEF CacheAnalysis
    <3>2. tasks[t].text = document
      BY <1>0, <2>6 DEF CacheAnalysis, QuickInv
    <3>3. task \in Tasks /\ task.pc = "publish" /\ task.text = document /\ ~task.aborted
      BY <2>0, <2>2, <3>2 DEF Tasks
    <3> HIDE DEF task
    <3> QED
      BY <2>3, <3>1, <3>2, <3>3
  <2>7. CASE Publish(t)
    <3>1. \A u \in Slots : tasks'[u].pc = "none" /\ ~tasks'[u].aborted
      BY <1>0, <2>1, <2>7 DEF Publish, NoTask, QuickInv
    <3>2. shown' = document /\ cached' = document
      BY <1>0, <2>7 DEF Publish, QuickInv
    <3> QED
      BY <1>0, <2>0, <2>2, <3>1, <3>2 DEF QuickInv
  <2>8. CASE DropPublish(t)
    BY <2>2, <2>8 DEF DropPublish
  <2> QED
    BY <1>8, <2>4, <2>5, <2>6, <2>7, <2>8 DEF Task
<1>9. CASE UNCHANGED vars
  BY <1>9 DEF vars, editorVars, QuickInv
<1> QED
  BY <1>1, <1>2, <1>3, <1>4, <1>5, <1>6, <1>7, <1>8, <1>9 DEF Next, Handle

LEMMA QuickInvSuffices == QuickInv /\ BufferConverges => SettledIsCurrent
BY DEF QuickInv, BufferConverges, SettledIsCurrent, Settled

(* Where a check is over before the next message is handled, the           *)
(* diagnostics and the snapshot are those of the buffer once all has come  *)
(* to rest, and so of the editor's text where BufferBecomesText gives it   *)
(* (schedule_recheck, run_immediate_check, publish_analysis).              *)
THEOREM RestIsCurrent == Spec => []SettledIsCurrent
<1>1. SessionInv /\ QuickInv /\ [Next]_vars => (SessionInv /\ QuickInv)'
  BY SessionInvKept, QuickKept
<1> QED
  BY <1>1, Initially, QuickInitially, BufferBecomesText, QuickInvSuffices, PTL DEF Spec
=============================================================================
