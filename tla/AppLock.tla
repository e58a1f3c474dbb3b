------------------------------- MODULE AppLock --------------------------------
(***************************************************************************)
(* The lock screen and the one document of generalConfigStore it shares    *)
(* with the rest of the application.                                       *)
(*                                                                         *)
(* Every setter of GeneralConfigService reads the whole document, and only *)
(* when it has it writes the whole document back: a handler that is slower *)
(* than another one undoes it.  Nothing keeps the password form from being *)
(* submitted again while a password is being checked.                      *)
(***************************************************************************)
EXTENDS Integers, FiniteSets

CONSTANTS
  Handlers,   \* event handlers that can be running at the same time
  Max,        \* MAX_INCORRECT_ATTEMPTS_ALLOWED
  NoDoc,      \* the document does not exist
  Missing,    \* a field the document does not have
  NaN,        \* undefined + 1
  MaxTries,     \* bound: wrong passwords in all, handlers in flight apart
  MaxTimers,    \* bound: clicks on the lock whose two seconds are not over
  MaxRestarts   \* bound: how often the application is restarted

ASSUME ConstantsAssumption ==
  /\ Max \in Nat \ {0}
  /\ {Missing, NaN} \cap (Nat \cup BOOLEAN) = {}
  /\ NoDoc \notin [attempts : Nat \cup {Missing, NaN}, locked : BOOLEAN \cup {Missing},
                   shown : BOOLEAN \cup {Missing}]
  /\ MaxTries \in Nat /\ MaxTimers \in Nat /\ MaxRestarts \in Nat

VARIABLES
  overlap,    \* whether a handler can start while another one, or the start, is running
  doc,        \* the document
  home,       \* how far the home page has got with its start
  found,      \* isAppLocked, as read at the start
  announce,   \* the announcement is to be shown
  visible,    \* the lock screen is up
  timers,     \* clicks on the lock that have not brought the screen up yet
  form,       \* what the lock screen shows: the form, an error or the success
  formDue,    \* the form comes back 200 ms after an unlock
  op,         \* op[h]: what handler h does
  pc,         \* pc[h]: its next step
  arg,        \* arg[h]: the value it sets, or whether the password is right
  snap,       \* snap[h]: the document it has read
  clearing,   \* the dialog that clears the storage: "closed", "asked" or "typing"
  ticked,     \* its box is ticked
  wiped,      \* why the database has been deleted, the restart is to come
  restarts,
  tries       \* history: wrong passwords since the storage was last cleared

vars == <<overlap, doc, home, found, announce, visible, timers, form, formDue, op, pc,
          arg, snap, clearing, ticked, wiped, restarts, tries>>

page == <<home, found, announce, visible, timers>>
lockForm == <<form, formDue>>
run == <<op, pc, arg, snap>>
dialog == <<clearing, ticked>>

Fields == {"attempts", "locked", "shown"}

Doc(attempts, locked, shown) ==
  [attempts |-> attempts, locked |-> locked, shown |-> shown]

\* $set: the fields of d, the others as they were; with upsert a new document.
Set(d) ==
  IF doc = NoDoc THEN d
  ELSE [f \in Fields |-> IF d[f] = Missing THEN doc[f] ELSE d[f]]

PlusOne(n) == IF n \in Nat THEN n + 1 ELSE NaN

\* Comparisons with NaN or undefined are false.
ReachesEarly(n, limit) == n \in Nat /\ n + 1 >= limit   \* mutant: off by one

Reaches(n, limit) == n \in Nat /\ n >= limit

Init ==
  /\ overlap \in BOOLEAN
  /\ doc = NoDoc
  /\ home = "shown?"
  /\ found = FALSE
  /\ announce = FALSE
  /\ visible = FALSE
  /\ timers = 0
  /\ form = "form"
  /\ formDue = FALSE
  /\ op = [h \in Handlers |-> "none"]
  /\ pc = [h \in Handlers |-> "idle"]
  /\ arg = [h \in Handlers |-> FALSE]
  /\ snap = [h \in Handlers |-> NoDoc]
  /\ clearing = "closed" /\ ticked = FALSE
  /\ wiped = "no"
  /\ restarts = 0
  /\ tries = 0

-----------------------------------------------------------------------------
(* The start of the home page *)

\* checkIfHasShownAnalyticsPopup and getIfAppIsLockedByUser: a document that is
\* not there is created.
ReadAtStart ==
  /\ \/ /\ home = "shown?"
        /\ announce' = (doc = NoDoc \/ (doc # NoDoc /\ doc.shown # TRUE))
        /\ home' = IF doc = NoDoc THEN "createShown" ELSE "locked?"
        /\ UNCHANGED found
     \/ /\ home = "locked?"
        /\ found' = (doc # NoDoc /\ doc.locked = TRUE)
        /\ home' = IF doc = NoDoc THEN "createLocked" ELSE "show"
        /\ UNCHANGED announce
  /\ UNCHANGED <<doc, visible, timers, lockForm, run, wiped, restarts, tries, dialog>>

CreateAtStart ==
  /\ home \in {"createShown", "createLocked"}
  /\ doc' = Set(Doc(0, FALSE, FALSE))
  /\ home' = IF home = "createShown" THEN "locked?" ELSE "show"
  /\ UNCHANGED <<found, announce, visible, timers, lockForm, run, wiped, restarts, tries, dialog>>

ShowAtStart ==
  /\ home = "show"
  /\ visible' = found
  /\ home' = "up"
  /\ UNCHANGED <<doc, found, announce, timers, lockForm, run, wiped, restarts, tries, dialog>>

-----------------------------------------------------------------------------
(* What the user can do *)

Start(h, what, value, first) ==
  /\ op[h] = "none"
  /\ overlap \/ (home = "up" /\ \A g \in Handlers : op[g] = "none")
  /\ op' = [op EXCEPT ![h] = what]
  /\ arg' = [arg EXCEPT ![h] = value]
  /\ pc' = [pc EXCEPT ![h] = first]
  /\ UNCHANGED <<snap, wiped, restarts, tries, dialog>>

PageCovered == visible \/ clearing # "closed"

ClickLock(h) ==
  /\ ~PageCovered
  /\ timers < MaxTimers
  /\ Start(h, "lock", TRUE, "read")
  /\ timers' = timers + 1
  /\ UNCHANGED <<doc, home, found, announce, visible, lockForm>>

ShowLock ==
  /\ timers > 0
  /\ timers' = timers - 1
  /\ visible' = TRUE
  /\ UNCHANGED <<doc, home, found, announce, lockForm, run, wiped, restarts, tries, dialog>>

ChangeLanguage(h) ==
  /\ home = "up"
  /\ ~PageCovered
  /\ Start(h, "language", TRUE, "read")
  /\ UNCHANGED <<doc, page, lockForm>>

\* The announcement comes up two seconds after the start, over the lock screen.
AnnouncementUp == announce /\ home = "up"

CloseAnnouncement(h) ==
  /\ AnnouncementUp
  /\ Start(h, "shown", TRUE, "read")
  /\ announce' = FALSE
  /\ UNCHANGED <<doc, home, found, visible, timers, lockForm>>

SubmitPassword(h) ==
  /\ visible
  /\ form = "form"
  /\ tries < MaxTries
  /\ \E right \in BOOLEAN : Start(h, "submit", right, "check")
  /\ UNCHANGED <<doc, page, lockForm>>

Retry ==
  /\ visible
  /\ form = "error"
  /\ form' = "form"
  /\ UNCHANGED <<doc, page, formDue, run, wiped, restarts, tries, dialog>>

Continue(h) ==
  /\ visible
  /\ form = "success"
  /\ Start(h, "unlock", FALSE, "read")
  /\ UNCHANGED <<doc, page, lockForm>>

FormReset ==
  /\ formDue
  /\ formDue' = FALSE
  /\ form' = "form"
  /\ UNCHANGED <<doc, page, run, wiped, restarts, tries, dialog>>

-----------------------------------------------------------------------------
(* The settings' dialog that clears the storage *)

DialogUnchanged == <<doc, page, lockForm, run, restarts, tries>>

\* Bound: before the first restart, and not again when its box has been ticked.
AskToClear ==
  /\ home = "up" /\ ~PageCovered
  /\ restarts = 0 /\ ~ticked
  /\ clearing' = "asked"
  /\ UNCHANGED <<DialogUnchanged, ticked, wiped>>

TickClear ==
  /\ clearing = "asked" /\ ~visible
  /\ ticked' = ~ticked
  /\ UNCHANGED <<DialogUnchanged, clearing, wiped>>

ConfirmClear ==
  /\ clearing = "asked" /\ ticked /\ ~visible
  /\ clearing' = "typing"
  /\ UNCHANGED <<DialogUnchanged, ticked, wiped>>

\* The box stays as it is; once the storage has been cleared the dialog stays, too.
CancelClear ==
  /\ clearing # "closed" /\ ~visible /\ wiped # "user"
  /\ clearing' = "closed"
  /\ UNCHANGED <<DialogUnchanged, ticked, wiped>>

\* The form with the word, ...
MayClear == clearing = "typing" /\ ~visible

\* ... and onConfirmClear.
ClearStorage ==
  /\ MayClear
  /\ wiped' = "user"
  /\ UNCHANGED <<DialogUnchanged, dialog>>

-----------------------------------------------------------------------------
(* The setters: findOne, then saveGeneralConfig *)

Goto(h, step) == pc' = [pc EXCEPT ![h] = step]

Finish(h) ==
  /\ op' = [op EXCEPT ![h] = "none"]
  /\ arg' = [arg EXCEPT ![h] = FALSE]
  /\ snap' = [snap EXCEPT ![h] = NoDoc]
  /\ Goto(h, "idle")

ReadConfig(h) ==
  /\ pc[h] \in {"read", "resetRead", "missRead"}
  /\ snap' = [snap EXCEPT ![h] = doc]
  /\ Goto(h, CASE pc[h] = "read"      -> "write"
               [] pc[h] = "resetRead" -> "reset"
               [] pc[h] = "missRead"  -> "miss")
  /\ UNCHANGED <<doc, page, lockForm, op, arg, wiped, restarts, tries, dialog>>

\* The document as it was read, with the new value; a new one has no field more.
Edited(h) ==
  CASE op[h] \in {"lock", "unlock"} ->
         IF snap[h] = NoDoc THEN Doc(0, arg[h], Missing)
                            ELSE [snap[h] EXCEPT !.locked = arg[h]]
    [] op[h] = "shown" ->
         IF snap[h] = NoDoc THEN Doc(Missing, Missing, arg[h])
                            ELSE [snap[h] EXCEPT !.shown = arg[h]]
    [] OTHER ->
         IF snap[h] = NoDoc THEN Doc(0, FALSE, Missing) ELSE snap[h]

\* onSuccess of the lock screen: it goes away when the unlocking has been written.
StaysUp(h) == visible /\ op[h] # "unlock"

WriteConfig(h) ==
  /\ pc[h] = "write"
  /\ doc' = Set(Edited(h))
  /\ Finish(h)
  /\ visible' = StaysUp(h)
  /\ formDue' = (formDue \/ op[h] = "unlock")
  /\ UNCHANGED <<home, found, announce, timers, form, wiped, restarts, tries, dialog>>

-----------------------------------------------------------------------------
(* onValidatePassword *)

CheckPassword(h) ==
  /\ pc[h] = "check"
  /\ Goto(h, IF arg[h] THEN "resetRead" ELSE "missRead")
  /\ UNCHANGED <<doc, page, lockForm, op, arg, snap, wiped, restarts, tries, dialog>>

\* Only the counter is written, unless there was no document.
SetAttempts(h, n) ==
  doc' = IF snap[h] = NoDoc THEN Set(Doc(n, FALSE, FALSE))
                            ELSE Set(Doc(n, Missing, Missing))

AttemptsKept(h) == IF snap[h] = NoDoc THEN 0 ELSE snap[h].attempts   \* mutant: a right password resets nothing

AttemptsAfterReset(h) == 0

ResetAttempts(h) ==
  /\ pc[h] = "reset"
  /\ SetAttempts(h, AttemptsAfterReset(h))
  /\ Goto(h, "answer")
  /\ UNCHANGED <<page, lockForm, op, arg, snap, wiped, restarts, tries, dialog>>

CountMiss(h) ==
  /\ pc[h] = "miss"
  /\ SetAttempts(h, IF snap[h] = NoDoc THEN 1 ELSE PlusOne(snap[h].attempts))
  /\ tries' = tries + 1
  /\ Goto(h, "count")
  /\ UNCHANGED <<page, lockForm, op, arg, snap, wiped, restarts, dialog>>

DeleteDatabase(h) ==
  /\ pc[h] = "count"
  /\ wiped' = IF Reaches(doc.attempts, Max) THEN "attempts" ELSE wiped
  /\ Goto(h, "answer")
  /\ UNCHANGED <<doc, page, lockForm, op, arg, snap, restarts, tries, dialog>>

\* onFormFinish: a right password does not take back an error that is shown.
FormAfter(right) ==
  IF right THEN (IF form = "error" THEN "error" ELSE "success") ELSE "error"

Answer(h) ==
  /\ pc[h] = "answer"
  /\ form' = FormAfter(arg[h])
  /\ Finish(h)
  /\ UNCHANGED <<doc, page, formDue, wiped, restarts, tries, dialog>>

-----------------------------------------------------------------------------
\* restart_app, or the application is closed and opened again.
Restart ==
  /\ restarts < MaxRestarts
  /\ restarts' = restarts + 1
  /\ doc' = IF wiped = "no" THEN doc ELSE NoDoc
  /\ tries' = IF wiped = "no" THEN tries ELSE 0
  /\ wiped' = "no"
  /\ clearing' = "closed" /\ ticked' = FALSE
  /\ home' = "shown?"
  /\ found' = FALSE
  /\ announce' = FALSE
  /\ visible' = FALSE
  /\ timers' = 0
  /\ form' = "form"
  /\ formDue' = FALSE
  /\ op' = [h \in Handlers |-> "none"]
  /\ pc' = [h \in Handlers |-> "idle"]
  /\ arg' = [h \in Handlers |-> FALSE]
  /\ snap' = [h \in Handlers |-> NoDoc]

HandlerStep(h) ==
  \/ ReadConfig(h) \/ WriteConfig(h)
  \/ CheckPassword(h) \/ ResetAttempts(h) \/ CountMiss(h) \/ DeleteDatabase(h) \/ Answer(h)

UserStep(h) ==
  \/ ClickLock(h) \/ ChangeLanguage(h) \/ CloseAnnouncement(h)
  \/ SubmitPassword(h) \/ Continue(h)

Next ==
  /\ \/ ReadAtStart \/ CreateAtStart \/ ShowAtStart
     \/ ShowLock \/ Retry \/ FormReset
     \/ AskToClear \/ TickClear \/ ConfirmClear \/ CancelClear \/ ClearStorage
     \/ \E h \in Handlers : UserStep(h) \/ HandlerStep(h)
     \/ Restart
  /\ UNCHANGED overlap

Spec == Init /\ [][Next]_vars

-----------------------------------------------------------------------------
Ops == {"none", "lock", "unlock", "language", "shown", "submit"}

Steps == {"idle", "read", "write", "check", "resetRead", "reset", "missRead", "miss",
          "count", "answer"}

\* Every variable holds a value of its kind.
TypeOK ==
  /\ doc # NoDoc => doc \in [attempts : Nat,
                             locked : BOOLEAN, shown : BOOLEAN \cup {Missing}]
  /\ home \in {"shown?", "createShown", "locked?", "createLocked", "show", "up"}
  /\ {overlap, found, announce, visible, formDue, ticked} \subseteq BOOLEAN
  /\ clearing \in {"closed", "asked", "typing"}
  /\ wiped \in {"no", "attempts", "user"}
  /\ {timers, restarts, tries} \subseteq Nat
  /\ form \in {"form", "error", "success"}
  /\ op \in [Handlers -> Ops]
  /\ pc \in [Handlers -> Steps]
  /\ arg \in [Handlers -> BOOLEAN]

\* However the handlers overlap, the lock screen only deletes the database when at
\* least Max wrong passwords have been given since it was last cleared; and the counter
\* stays a number, as the one setter that creates a document without a counter only
\* runs when the start of the home page has created one.  An increment would make NaN
\* of it, and NaN never reaches the limit.
WipedAfterAttempts ==
  /\ wiped = "attempts" => tries >= Max
  /\ doc # NoDoc => doc.attempts \in Nat

-----------------------------------------------------------------------------
Attempts == IF doc = NoDoc THEN 0 ELSE doc.attempts

Policy == INSTANCE LockPolicy WITH
  Max    <- Max,
  count  <- IF overlap THEN 0 ELSE Attempts,
  locked <- ~overlap /\ doc # NoDoc /\ doc.locked = TRUE,
  passed <- ~overlap /\ (form = "success" \/ \E h \in Handlers : op[h] = "unlock"),
  due    <- ~overlap /\ \E h \in Handlers : pc[h] = "count" /\ Reaches(Attempts, Max),
  wiped  <- IF overlap THEN "no" ELSE wiped

\* Handlers that do not overlap keep the promises of the lock screen, through
\* restarts at any step.
KeepsPolicy == Policy!Spec
=============================================================================
