---------------------------- MODULE AppLockProofs ----------------------------
(***************************************************************************)
(* What the lock screen guarantees, for all limits, handlers and restarts: *)
(* nothing is cleared too early however the handlers overlap, and LockPolicy *)
(* is implemented when they do not.                                          *)
(***************************************************************************)
EXTENDS AppLock, TLAPS

Docs == [attempts : Nat, locked : BOOLEAN, shown : BOOLEAN \cup {Missing}]

(* The types the arguments need: a document, if there is one, has a counter and a lock. *)
Typed ==
  /\ doc \in Docs \cup {NoDoc}
  /\ home \in {"shown?", "createShown", "locked?", "createLocked", "show", "up"}
  /\ announce \in BOOLEAN
  /\ tries \in Nat
  /\ op \in [Handlers -> Ops]
  /\ pc \in [Handlers -> Steps]
  /\ arg \in [Handlers -> BOOLEAN]
  /\ snap \in [Handlers -> Docs \cup {NoDoc}]

(* The start of the home page creates the document, and nothing but a restart deletes it. *)
CreatedAtStart ==
  /\ home \notin {"shown?", "createShown"} => doc # NoDoc
  /\ \A h \in Handlers :
       /\ op[h] = "shown" => doc # NoDoc
       /\ op[h] = "shown" /\ pc[h] = "write" => snap[h] # NoDoc
       /\ pc[h] = "count" \/ snap[h] # NoDoc => doc # NoDoc

(* Every counter, of the document or of one that has been read, has been counted. *)
Counted ==
  /\ doc # NoDoc => doc.attempts <= tries
  /\ \A h \in Handlers : snap[h] # NoDoc => snap[h].attempts <= tries

(* What a handler does fits its step. *)
StepsFit ==
  \A h \in Handlers :
    /\ pc[h] = "idle" <=> op[h] = "none"
    /\ pc[h] \in {"read", "write"} <=> op[h] \in {"lock", "unlock", "language", "shown"}

Inv ==
  /\ Typed /\ StepsFit /\ CreatedAtStart /\ Counted
  /\ wiped = "attempts" => tries >= Max

(* $set on a whole document, or on one that has a counter only. *)
LEMMA SetDoc ==
  ASSUME doc \in Docs \cup {NoDoc}, NEW d \in Docs
  PROVE  Set(d) \in Docs /\ Set(d).attempts = d.attempts /\ Set(d).locked = d.locked
BY ConstantsAssumption DEF Docs, Set, Fields

(* $set of the counter alone, onto a document that is there. *)
LEMMA SetCounter ==
  ASSUME doc \in Docs, NEW n \in Nat
  PROVE  /\ Set(Doc(n, Missing, Missing)) \in Docs
         /\ Set(Doc(n, Missing, Missing)).attempts = n
         /\ Set(Doc(n, Missing, Missing)).locked = doc.locked
BY ConstantsAssumption DEF Docs, Set, Fields, Doc

(* A document is not the value that stands for none. *)
LEMMA DocsExist == NoDoc \notin Docs
BY ConstantsAssumption DEF Docs

(* A setter writes a whole document: what it writes when it has read none, too. *)
LEMMA EditedDoc ==
  ASSUME Inv, NEW h \in Handlers, pc[h] = "write",
         op[h] \in {"lock", "unlock", "language", "shown"}
  PROVE  Edited(h) \in Docs /\ Edited(h).attempts <= tries
<1> USE DocsExist DEF Inv, Typed, CreatedAtStart, Counted
<1>1. CASE snap[h] = NoDoc
  <2>1. /\ Doc(0, arg[h], Missing) \in Docs /\ Doc(0, arg[h], Missing).attempts = 0
        /\ Doc(0, FALSE, Missing) \in Docs /\ Doc(0, FALSE, Missing).attempts = 0
    BY DEF Docs, Doc
  <2>2. Edited(h) \in {Doc(0, arg[h], Missing), Doc(0, FALSE, Missing)}
    BY <1>1 DEF Edited
  <2>3. 0 <= tries
    OBVIOUS
  <2>4. Edited(h) \in Docs /\ Edited(h).attempts = 0
    BY <2>1, <2>2
  <2> QED
    BY <2>3, <2>4
<1>2. CASE snap[h] # NoDoc
  <2>1. /\ snap[h] \in Docs /\ snap[h].attempts <= tries
        /\ arg[h] \in BOOLEAN
    BY <1>2
  <2>2. /\ [snap[h] EXCEPT !.locked = arg[h]] \in Docs
        /\ [snap[h] EXCEPT !.locked = arg[h]].attempts = snap[h].attempts
        /\ [snap[h] EXCEPT !.shown = arg[h]] \in Docs
        /\ [snap[h] EXCEPT !.shown = arg[h]].attempts = snap[h].attempts
    BY <2>1 DEF Docs
  <2> QED
    BY <1>2, <2>1, <2>2 DEF Edited
<1> QED
  BY <1>1, <1>2

(* Setting the counter leaves a whole document behind, or makes one. *)
LEMMA AttemptsSet ==
  ASSUME Inv, NEW h \in Handlers, pc[h] \in {"reset", "miss"}, NEW n \in Nat, SetAttempts(h, n)
  PROVE  doc' \in Docs /\ doc'.attempts = n
<1> USE DocsExist DEF Inv, Typed, CreatedAtStart
<1>1. CASE snap[h] = NoDoc
  <2>1. Doc(n, FALSE, FALSE) \in Docs /\ Doc(n, FALSE, FALSE).attempts = n
    BY DEF Docs, Doc
  <2> QED
    BY <1>1, <2>1, SetDoc DEF SetAttempts
<1>2. CASE snap[h] # NoDoc
  BY <1>2, SetCounter DEF SetAttempts
<1> QED
  BY <1>1, <1>2

(* Setting the counter leaves the lock as it was, if the document is the one that was read. *)
LEMMA SetKeepsLock ==
  ASSUME Inv, NEW h \in Handlers, pc[h] \in {"reset", "miss"}, NEW n \in Nat, SetAttempts(h, n),
         snap[h] = doc
  PROVE  doc' # NoDoc /\ doc'.locked = IF doc = NoDoc THEN FALSE ELSE doc.locked
<1> USE DocsExist DEF Inv, Typed
<1>1. CASE doc = NoDoc
  <2>1. Doc(n, FALSE, FALSE) \in Docs /\ Doc(n, FALSE, FALSE).locked = FALSE
    BY DEF Docs, Doc
  <2> QED
    BY <1>1, <2>1, SetDoc DEF SetAttempts
<1>2. CASE doc # NoDoc
  BY <1>2, SetCounter DEF SetAttempts
<1> QED
  BY <1>1, <1>2

(* The application starts without a document. *)
LEMMA InitInv == Init => Inv
<1> SUFFICES ASSUME Init PROVE Inv
  OBVIOUS
<1>1. Typed
  BY DEF Init, Typed, Ops, Steps
<1>2. StepsFit /\ CreatedAtStart
  BY DEF Init, StepsFit, CreatedAtStart
<1>3. Counted /\ wiped # "attempts"
  BY DEF Init, Counted
<1> QED
  BY <1>1, <1>2, <1>3 DEF Inv

(* Inv is inductive: one case per step of the start, of the user and of a handler. *)
LEMMA NextInv == Inv /\ [Next]_vars => Inv'
<1> SUFFICES ASSUME Inv, [Next]_vars PROVE Inv'
  OBVIOUS
<1>0. ASSUME NEW h \in Handlers, WriteConfig(h)
      PROVE  Edited(h) \in Docs /\ Edited(h).attempts <= tries
  <2>1. pc[h] = "write" /\ op[h] \in {"lock", "unlock", "language", "shown"}
    BY <1>0 DEF Inv, StepsFit, WriteConfig
  <2> QED
    BY <2>1, EditedDoc
<1> USE ConstantsAssumption, DocsExist
    DEF Inv, Typed, StepsFit, CreatedAtStart, Counted, Ops, Steps, page, lockForm, run,
        dialog
<1>1. CASE ReadAtStart
  BY <1>1 DEF ReadAtStart
<1>2. CASE CreateAtStart
  <2>1. Doc(0, FALSE, FALSE) \in Docs /\ Doc(0, FALSE, FALSE).attempts = 0
    BY DEF Doc, Docs
  <2>2. doc' \in Docs /\ doc'.attempts = 0
    BY <1>2, <2>1, SetDoc DEF CreateAtStart
  <2>3. Typed' /\ StepsFit'
    BY <1>2, <2>2 DEF CreateAtStart
  <2>4. CreatedAtStart'
    BY <1>2, <2>2 DEF CreateAtStart
  <2>5. Counted'
    <3>1. doc'.attempts <= tries
      BY <2>2
    <3> QED
      BY <1>2, <3>1 DEF CreateAtStart
  <2> QED
    BY <1>2, <2>3, <2>4, <2>5 DEF CreateAtStart
<1>3. CASE ShowAtStart
  BY <1>3 DEF ShowAtStart
<1>4. CASE ShowLock
  BY <1>4 DEF ShowLock
<1>5. CASE Retry
  BY <1>5 DEF Retry
<1>6. CASE FormReset
  BY <1>6 DEF FormReset
<1>7. CASE AskToClear \/ TickClear \/ ConfirmClear \/ CancelClear \/ ClearStorage
  BY <1>7 DEF AskToClear, TickClear, ConfirmClear, CancelClear, ClearStorage, DialogUnchanged
<1>8. ASSUME NEW h \in Handlers, ClickLock(h) PROVE Inv'
  BY <1>8 DEF ClickLock, Start
<1>9. ASSUME NEW h \in Handlers, ChangeLanguage(h) PROVE Inv'
  BY <1>9 DEF ChangeLanguage, Start
<1>10. ASSUME NEW h \in Handlers, CloseAnnouncement(h) PROVE Inv'
  BY <1>10 DEF CloseAnnouncement, AnnouncementUp, Start
<1>11. ASSUME NEW h \in Handlers, SubmitPassword(h) PROVE Inv'
  BY <1>11 DEF SubmitPassword, Start
<1>12. ASSUME NEW h \in Handlers, Continue(h) PROVE Inv'
  BY <1>12 DEF Continue, Start
<1>13. ASSUME NEW h \in Handlers, ReadConfig(h) PROVE Inv'
  BY <1>13 DEF ReadConfig, Goto
<1>14. ASSUME NEW h \in Handlers, WriteConfig(h) PROVE Inv'
  <2>2. Edited(h) \in Docs /\ Edited(h).attempts <= tries
    BY <1>0, <1>14
  <2>3. doc' \in Docs /\ doc'.attempts <= tries
    BY <1>14, <2>2, SetDoc DEF WriteConfig
  <2>4. Typed' /\ StepsFit'
    BY <1>14, <2>3 DEF WriteConfig, Finish, Goto
  <2>5. CreatedAtStart'
    BY <1>14, <2>3 DEF WriteConfig, Finish, Goto
  <2>6. Counted'
    BY <1>14, <2>3 DEF WriteConfig, Finish
  <2> QED
    BY <1>14, <2>4, <2>5, <2>6 DEF WriteConfig
<1>15. ASSUME NEW h \in Handlers, CheckPassword(h) PROVE Inv'
  BY <1>15 DEF CheckPassword, Goto
<1>16. ASSUME NEW h \in Handlers, ResetAttempts(h) PROVE Inv'
  <2>1. doc' \in Docs /\ doc'.attempts = 0
    BY <1>16, AttemptsSet DEF ResetAttempts, AttemptsAfterReset
  <2> QED
    BY <1>16, <2>1 DEF ResetAttempts, Goto
<1>17. ASSUME NEW h \in Handlers, CountMiss(h) PROVE Inv'
  <2> DEFINE n == IF snap[h] = NoDoc THEN 1 ELSE PlusOne(snap[h].attempts)
  <2>1. n \in Nat /\ n <= tries + 1
    BY DEF Docs, PlusOne
  <2>2. doc' \in Docs /\ doc'.attempts <= tries + 1
    BY <1>17, <2>1, AttemptsSet DEF CountMiss
  <2>3. Typed' /\ StepsFit'
    BY <1>17, <2>2 DEF CountMiss, Goto
  <2>4. CreatedAtStart'
    BY <1>17, <2>2 DEF CountMiss, Goto
  <2>5. Counted'
    <3>1. \A g \in Handlers : snap[g] # NoDoc => snap[g].attempts \in Nat
      BY DEF Docs
    <3> QED
      BY <1>17, <2>2, <3>1 DEF CountMiss
  <2> QED
    BY <1>17, <2>3, <2>4, <2>5 DEF CountMiss
<1>18. ASSUME NEW h \in Handlers, DeleteDatabase(h) PROVE Inv'
  <2>1. wiped' = "attempts" => tries >= Max
    BY <1>18 DEF DeleteDatabase, Reaches, Docs
  <2>2. Typed' /\ StepsFit'
    BY <1>18 DEF DeleteDatabase, Goto
  <2>3. CreatedAtStart' /\ Counted'
    BY <1>18 DEF DeleteDatabase, Goto
  <2> QED
    BY <1>18, <2>1, <2>2, <2>3 DEF DeleteDatabase
<1>19. ASSUME NEW h \in Handlers, Answer(h) PROVE Inv'
  BY <1>19 DEF Answer, Finish, Goto
<1>20. CASE Restart
  BY <1>20 DEF Restart
<1>21. CASE UNCHANGED vars
  BY <1>21 DEF vars
<1> QED
  BY <1>1, <1>2, <1>3, <1>4, <1>5, <1>6, <1>7, <1>8, <1>9, <1>10, <1>11, <1>12, <1>13,
     <1>14, <1>15, <1>16, <1>17, <1>18, <1>19, <1>20, <1>21
     DEF Next, UserStep, HandlerStep

(* A handler's answer is counted before it can clear anything: however handlers overlap, *)
(* the lock screen deletes the database only after Max wrong passwords since it was last *)
(* cleared, and the stored counter never becomes NaN, which no limit would ever stop.    *)
THEOREM WipedAfterAttemptsAlways == Spec => []WipedAfterAttempts
<1>1. Inv => WipedAfterAttempts
  BY DocsExist DEF Inv, Typed, WipedAfterAttempts, Docs
<1> QED
  BY <1>1, InitInv, NextInv, PTL DEF Spec

-----------------------------------------------------------------------------
(* One handler at a time *)

(* When handlers do not overlap only one runs, and none before the home page is up; what  *)
(* it has read is what is stored, and it carries the value its operation sets.            *)
Alone ==
  ~overlap =>
    /\ \A g, h \in Handlers : op[g] # "none" /\ op[h] # "none" => g = h
    /\ home # "up" => \A h \in Handlers : op[h] = "none"
    /\ home = "createShown" => doc = NoDoc
    /\ home # "createLocked"
    /\ \A h \in Handlers :
         /\ pc[h] \in {"write", "reset", "miss"} => snap[h] = doc
         /\ op[h] = "lock" => arg[h]
         /\ op[h] = "unlock" => ~arg[h]
         /\ pc[h] \in {"resetRead", "reset"} => arg[h]
         /\ pc[h] \in {"missRead", "miss", "count"} => ~arg[h]
         /\ pc[h] = "answer" /\ arg[h] => doc # NoDoc /\ doc.attempts = 0

InvAlone == Inv /\ Alone

(* A handler that runs is the only one, and the home page is up. *)
LEMMA OnlyOne ==
  ASSUME Inv, Alone, ~overlap, NEW h \in Handlers, pc[h] # "idle"
  PROVE  /\ home = "up"
         /\ \A g \in Handlers \ {h} : op[g] = "none" /\ pc[g] = "idle"
BY DEF Inv, StepsFit, Alone

(* Alone is kept: no handler starts beside another one, or before the page is up. *)
LEMMA NextAlone == InvAlone /\ [Next]_vars => Alone'
<1> SUFFICES ASSUME InvAlone, [Next]_vars, ~overlap PROVE Alone'
  BY DEF Next, vars, Alone
<1>0. ASSUME NEW h \in Handlers, pc[h] # "idle"
      PROVE  /\ home = "up"
             /\ \A g \in Handlers \ {h} : op[g] = "none" /\ pc[g] = "idle"
  BY <1>0, OnlyOne DEF InvAlone
<1> USE DocsExist
    DEF InvAlone, Inv, Typed, StepsFit, CreatedAtStart, Alone, Ops, Steps, page, lockForm,
        run, dialog
<1>1. CASE ReadAtStart
  BY <1>1 DEF ReadAtStart
<1>2. CASE CreateAtStart
  BY <1>2 DEF CreateAtStart
<1>3. CASE ShowAtStart
  BY <1>3 DEF ShowAtStart
<1>4. CASE ShowLock \/ Retry \/ FormReset
  BY <1>4 DEF ShowLock, Retry, FormReset
<1>5. CASE AskToClear \/ TickClear \/ ConfirmClear \/ CancelClear \/ ClearStorage
  BY <1>5 DEF AskToClear, TickClear, ConfirmClear, CancelClear, ClearStorage, DialogUnchanged
<1>6. ASSUME NEW h \in Handlers, UserStep(h) PROVE Alone'
  <2>1. CASE ClickLock(h)
    BY <1>6, <2>1 DEF ClickLock, Start
  <2>2. CASE ChangeLanguage(h)
    BY <1>6, <2>2 DEF ChangeLanguage, Start
  <2>3. CASE CloseAnnouncement(h)
    BY <1>6, <2>3 DEF CloseAnnouncement, AnnouncementUp, Start
  <2>4. CASE SubmitPassword(h)
    BY <1>6, <2>4 DEF SubmitPassword, Start
  <2>5. CASE Continue(h)
    BY <1>6, <2>5 DEF Continue, Start
  <2> QED
    BY <1>6, <2>1, <2>2, <2>3, <2>4, <2>5 DEF UserStep
<1>7. ASSUME NEW h \in Handlers, HandlerStep(h) PROVE Alone'
  <2>1. CASE ReadConfig(h)
    BY <1>7, <1>0, <2>1 DEF ReadConfig, Goto
  <2>2. CASE WriteConfig(h)
    BY <1>7, <1>0, <2>2 DEF WriteConfig, Finish, Goto
  <2>3. CASE CheckPassword(h)
    BY <1>7, <1>0, <2>3 DEF CheckPassword, Goto
  <2>4. CASE ResetAttempts(h)
    <3>1. doc' \in Docs /\ doc'.attempts = 0
      BY <2>4, AttemptsSet DEF ResetAttempts, AttemptsAfterReset
    <3> QED
      BY <1>7, <1>0, <2>4, <3>1 DEF ResetAttempts, Goto
  <2>5. CASE CountMiss(h)
    BY <1>7, <1>0, <2>5 DEF CountMiss, Goto
  <2>6. CASE DeleteDatabase(h)
    BY <1>7, <1>0, <2>6 DEF DeleteDatabase, Goto
  <2>7. CASE Answer(h)
    BY <1>7, <1>0, <2>7 DEF Answer, Finish, Goto
  <2> QED
    BY <1>7, <2>1, <2>2, <2>3, <2>4, <2>5, <2>6, <2>7 DEF HandlerStep
<1>8. CASE Restart
  BY <1>8 DEF Restart
<1>9. CASE UNCHANGED vars
  BY <1>9 DEF vars
<1> QED
  BY <1>1, <1>2, <1>3, <1>4, <1>5, <1>6, <1>7, <1>8, <1>9 DEF Next

-----------------------------------------------------------------------------
(* The policy of the lock screen *)

(* What the policy's variables stand for, when handlers do not overlap. *)
LockKept == doc # NoDoc /\ doc.locked = TRUE

PasswordGiven == form = "success" \/ \E h \in Handlers : op[h] = "unlock"

ClearingDue == \E h \in Handlers : pc[h] = "count" /\ Reaches(Attempts, Max)

SameCount == Attempts' = Attempts
SameLock == LockKept' <=> LockKept
SamePassed == PasswordGiven' <=> PasswordGiven
SameDue == ClearingDue' <=> ClearingDue

PolicyStep == Policy!Next \/ UNCHANGED Policy!policyVars

USE DEF SameCount, SameLock, SamePassed, SameDue

(* One lemma for each step of the policy, over what its variables stand for. *)
LEMMA Stutters ==
  ASSUME ~overlap, ~overlap', SameCount, SameLock, SamePassed, SameDue, wiped' = wiped
  PROVE  PolicyStep
BY DEF PolicyStep, Policy!policyVars, LockKept, PasswordGiven, ClearingDue

(* The program locks itself: Lock. *)
LEMMA Locks ==
  ASSUME ~overlap, ~overlap', LockKept', SameCount, SamePassed, SameDue, wiped' = wiped
  PROVE  PolicyStep
BY DEF PolicyStep, Policy!Next, Policy!Lock, LockKept, PasswordGiven, ClearingDue

(* The lock is taken off for the password given: Unlock. *)
LEMMA Unlocks ==
  ASSUME ~overlap, ~overlap', PasswordGiven, ~LockKept', SameCount, SameDue, wiped' = wiped
  PROVE  PolicyStep
BY DEF PolicyStep, Policy!Next, Policy!Unlock, LockKept, PasswordGiven, ClearingDue

(* A wrong password is counted, and at the limit the clearing is due: Wrong. *)
LEMMA CountsMiss ==
  ASSUME ~overlap, ~overlap', ~ClearingDue, Attempts \in Nat, Attempts' = Attempts + 1,
         ClearingDue' <=> Attempts + 1 >= Max, SameLock, SamePassed, wiped' = wiped
  PROVE  PolicyStep
BY DEF PolicyStep, Policy!Next, Policy!Wrong, LockKept, PasswordGiven, ClearingDue

(* The clearing that is due: Clear. *)
LEMMA Clears ==
  ASSUME ~overlap, ~overlap', ClearingDue, ~ClearingDue', wiped' = "attempts",
         SameCount, SameLock, SamePassed
  PROVE  PolicyStep
BY DEF PolicyStep, Policy!Next, Policy!Clear, LockKept, PasswordGiven, ClearingDue

(* The user's own clearing in the settings: ClearInSettings. *)
LEMMA ClearsInSettings ==
  ASSUME ~overlap, ~overlap', wiped' = "user", SameCount, SameLock, SamePassed, SameDue
  PROVE  PolicyStep
BY DEF PolicyStep, Policy!Next, Policy!ClearInSettings, LockKept, PasswordGiven, ClearingDue

(* A right password sets the counter back: Right. *)
LEMMA Resets ==
  ASSUME ~overlap, ~overlap', ~ClearingDue, Attempts' = 0, SameLock, SamePassed, SameDue,
         wiped' = wiped
  PROVE  PolicyStep
BY DEF PolicyStep, Policy!Next, Policy!Right, LockKept, PasswordGiven, ClearingDue

(* A right password with the counter at zero is accepted: Pass. *)
LEMMA Passes ==
  ASSUME ~overlap, ~overlap', Attempts = 0, ~ClearingDue, PasswordGiven', SameCount, SameLock,
         SameDue, wiped' = wiped
  PROVE  PolicyStep
BY DEF PolicyStep, Policy!Next, Policy!Pass, LockKept, PasswordGiven, ClearingDue

(* A password in hand is let go of: Forget. *)
LEMMA Forgets ==
  ASSUME ~overlap, ~overlap', ~PasswordGiven', SameCount, SameLock, SameDue, wiped' = wiped
  PROVE  PolicyStep
BY DEF PolicyStep, Policy!Next, Policy!Forget, LockKept, PasswordGiven, ClearingDue

(* A restart keeps what is stored, and finds nothing after a clearing: Restart. *)
LEMMA Restarts ==
  ASSUME ~overlap, ~overlap', ~PasswordGiven', ~ClearingDue', wiped' = "no",
         wiped = "no" => SameCount /\ SameLock,
         wiped # "no" => Attempts' = 0 /\ ~LockKept'
  PROVE  PolicyStep
BY DEF PolicyStep, Policy!Next, Policy!Restart, LockKept, PasswordGiven, ClearingDue

(* The start of the page, the clicks and the settings leave the policy alone. *)
LEMMA OthersKeepPolicy ==
  ASSUME InvAlone, ~overlap, ~overlap',
         \/ ReadAtStart \/ CreateAtStart \/ ShowAtStart \/ ShowLock \/ Retry
         \/ AskToClear \/ TickClear \/ ConfirmClear \/ CancelClear
         \/ \E h \in Handlers : UserStep(h)
         \/ UNCHANGED vars
  PROVE  PolicyStep
<1> USE DEF page, lockForm, run, dialog, LockKept, PasswordGiven, ClearingDue, Attempts
<1>1. CASE ReadAtStart \/ ShowAtStart \/ ShowLock \/ Retry
  BY <1>1, Stutters DEF ReadAtStart, ShowAtStart, ShowLock, Retry
<1>2. CASE CreateAtStart
  <2>1. doc = NoDoc /\ \A h \in Handlers : pc[h] = "idle"
    BY <1>2 DEF CreateAtStart, InvAlone, Inv, StepsFit, Alone
  <2>2. doc' = Doc(0, FALSE, FALSE)
    BY <1>2, <2>1 DEF CreateAtStart, Set
  <2>3. doc' # NoDoc /\ doc'.attempts = 0 /\ doc'.locked = FALSE
    <3>1. /\ Doc(0, FALSE, FALSE) \in Docs
          /\ Doc(0, FALSE, FALSE).attempts = 0 /\ Doc(0, FALSE, FALSE).locked = FALSE
      BY DEF Doc, Docs
    <3> QED
      BY <2>2, <3>1, DocsExist
  <2> QED
    BY <1>2, <2>1, <2>3, Stutters DEF CreateAtStart
<1>3. CASE AskToClear \/ TickClear \/ ConfirmClear \/ CancelClear
  BY <1>3, Stutters DEF AskToClear, TickClear, ConfirmClear, CancelClear, DialogUnchanged
<1>4. ASSUME NEW h \in Handlers, UserStep(h) PROVE PolicyStep
  <2>1. /\ op[h] = "none" /\ pc[h] = "idle"
        /\ \E what \in Ops \ {"none"}, first \in {"read", "check"} :
             /\ op' = [op EXCEPT ![h] = what]
             /\ pc' = [pc EXCEPT ![h] = first]
             /\ what = "unlock" => form = "success"
        /\ UNCHANGED <<doc, form, wiped>>
    BY <1>4 DEF UserStep, ClickLock, ChangeLanguage, CloseAnnouncement, SubmitPassword,
                Continue, Start, InvAlone, Inv, StepsFit, Ops
  <2>2. op \in [Handlers -> Ops] /\ pc \in [Handlers -> Steps]
    BY DEF InvAlone, Inv, Typed
  <2>3. SamePassed
    BY <2>1, <2>2
  <2>4. SameDue
    BY <2>1, <2>2
  <2> QED
    BY <2>1, <2>3, <2>4, Stutters
<1>5. CASE UNCHANGED vars
  BY <1>5, Stutters DEF vars
<1> QED
  BY <1>1, <1>2, <1>3, <1>4, <1>5

(* A handler alone keeps the policy: what it writes is what was stored and its own value, *)
(* and between counting a wrong password and clearing nothing else runs.                  *)
LEMMA HandlersKeepPolicy ==
  ASSUME InvAlone, ~overlap, ~overlap', NEW h \in Handlers, HandlerStep(h)
  PROVE  PolicyStep
<1>0. /\ op \in [Handlers -> Ops] /\ pc \in [Handlers -> Steps] /\ arg \in [Handlers -> BOOLEAN]
      /\ snap \in [Handlers -> Docs \cup {NoDoc}] /\ doc \in Docs \cup {NoDoc}
      /\ pc[h] # "idle" /\ op[h] # "none"
  BY DEF InvAlone, Inv, Typed, StepsFit, HandlerStep, ReadConfig, WriteConfig, CheckPassword,
         ResetAttempts, CountMiss, DeleteDatabase, Answer
<1>a. \A g \in Handlers \ {h} : op[g] = "none" /\ pc[g] = "idle"
  BY <1>0, OnlyOne DEF InvAlone
<1>b. ClearingDue <=> pc[h] = "count" /\ Reaches(Attempts, Max)
  BY <1>a DEF ClearingDue
<1>c. PasswordGiven <=> form = "success" \/ op[h] = "unlock"
  BY <1>a DEF PasswordGiven
<1>1. CASE ReadConfig(h) \/ CheckPassword(h)
  <2>1. /\ \E next \in Steps \ {"count"} : pc' = [pc EXCEPT ![h] = next]
        /\ pc[h] # "count"
        /\ UNCHANGED <<doc, form, op, wiped>>
    BY <1>1, <1>0 DEF ReadConfig, CheckPassword, Goto, Steps, page, lockForm
  <2>2. ~ClearingDue /\ ~ClearingDue'
    BY <2>1, <1>0, <1>a DEF ClearingDue
  <2> QED
    BY <2>1, <2>2, Stutters DEF LockKept, PasswordGiven, Attempts
<1>2. CASE WriteConfig(h)
  <2>1. /\ pc[h] = "write" /\ doc' = Set(Edited(h)) /\ snap[h] = doc
        /\ op' = [op EXCEPT ![h] = "none"] /\ pc' = [pc EXCEPT ![h] = "idle"]
        /\ UNCHANGED <<form, wiped>>
        /\ op[h] \in {"lock", "unlock", "language", "shown"}
    BY <1>2, <1>0 DEF WriteConfig, Finish, Goto, InvAlone, Alone, Inv, StepsFit
  <2>2. ~ClearingDue /\ ~ClearingDue'
    BY <2>1, <1>0, <1>a DEF ClearingDue
  <2>3. PasswordGiven' <=> form = "success"
    BY <2>1, <1>0, <1>a DEF PasswordGiven
  <2>4. Edited(h) \in Docs /\ doc' \in Docs /\ doc' # NoDoc
        /\ doc'.attempts = Edited(h).attempts /\ doc'.locked = Edited(h).locked
    BY <2>1, EditedDoc, SetDoc, DocsExist DEF InvAlone, Inv, Typed
  <2>5. CASE op[h] \in {"lock", "unlock"}
    <3>1. doc'.locked = arg[h] /\ Attempts' = Attempts
      BY <2>1, <2>4, <2>5, <1>0 DEF Edited, Doc, Docs, Attempts
    <3>2. CASE op[h] = "lock"
      <4>1. arg[h] = TRUE
        BY <3>2, <1>0 DEF InvAlone, Alone
      <4> QED
        BY <2>1, <2>2, <2>3, <2>4, <3>1, <3>2, <4>1, <1>c, Locks DEF LockKept
    <3>3. CASE op[h] = "unlock"
      <4>1. arg[h] = FALSE
        BY <3>3, <1>0 DEF InvAlone, Alone
      <4> QED
        BY <2>1, <2>2, <2>4, <3>1, <3>3, <4>1, <1>c, Unlocks DEF LockKept
    <3> QED
      BY <2>5, <3>2, <3>3
  <2>6. CASE op[h] \in {"language", "shown"}
    <3>1. op[h] = "shown" => doc # NoDoc
      BY <1>0, <2>1 DEF InvAlone, Inv, CreatedAtStart
    <3>2. Attempts' = Attempts /\ (LockKept' <=> LockKept)
      BY <2>1, <2>4, <2>6, <3>1, <1>0 DEF Edited, Doc, Docs, Attempts, LockKept
    <3> QED
      BY <2>1, <2>2, <2>3, <2>6, <3>2, <1>c, Stutters
  <2> QED
    BY <2>1, <2>5, <2>6
<1>3. CASE ResetAttempts(h)
  <2>1. /\ pc[h] = "reset" /\ SetAttempts(h, 0) /\ snap[h] = doc
        /\ pc' = [pc EXCEPT ![h] = "answer"]
        /\ UNCHANGED <<form, op, wiped>>
    BY <1>3, <1>0 DEF ResetAttempts, AttemptsAfterReset, Goto, InvAlone, Alone, lockForm
  <2>2. ~ClearingDue /\ ~ClearingDue'
    BY <2>1, <1>0, <1>a DEF ClearingDue
  <2>3. doc' \in Docs /\ doc'.attempts = 0 /\ (LockKept' <=> LockKept)
    BY <2>1, SetKeepsLock, AttemptsSet DEF InvAlone, LockKept
  <2> QED
    BY <2>1, <2>2, <2>3, Resets, DocsExist DEF PasswordGiven, Attempts
<1>4. CASE CountMiss(h)
  <2>1. /\ pc[h] = "miss" /\ snap[h] = doc
        /\ SetAttempts(h, IF snap[h] = NoDoc THEN 1 ELSE PlusOne(snap[h].attempts))
        /\ pc' = [pc EXCEPT ![h] = "count"]
        /\ UNCHANGED <<form, op, wiped>>
    BY <1>4, <1>0 DEF CountMiss, Goto, InvAlone, Alone, lockForm
  <2>2. ~ClearingDue /\ Attempts \in Nat
    BY <2>1, <1>0, <1>a DEF ClearingDue, Attempts, Docs
  <2>3. SetAttempts(h, Attempts + 1)
    <3>1. (IF snap[h] = NoDoc THEN 1 ELSE PlusOne(snap[h].attempts)) = Attempts + 1
      BY <2>1, <2>2 DEF Attempts, PlusOne
    <3> QED
      BY <2>1, <3>1 DEF SetAttempts
  <2>4. doc' \in Docs /\ doc'.attempts = Attempts + 1 /\ (LockKept' <=> LockKept)
    <3>1. Inv /\ pc[h] \in {"reset", "miss"} /\ Attempts + 1 \in Nat
      BY <2>1, <2>2 DEF InvAlone
    <3>2. doc' \in Docs /\ doc'.attempts = Attempts + 1
      BY <2>3, <3>1, AttemptsSet
    <3>3. doc' # NoDoc /\ doc'.locked = IF doc = NoDoc THEN FALSE ELSE doc.locked
      BY <2>1, <2>3, <3>1, SetKeepsLock
    <3> QED
      BY <3>2, <3>3 DEF LockKept
  <2>5. Attempts' = Attempts + 1
    BY <2>4, DocsExist DEF Attempts
  <2>6. ClearingDue' <=> Attempts + 1 >= Max
    BY <2>1, <2>2, <2>5, <1>0, <1>a DEF ClearingDue, Reaches
  <2> QED
    BY <2>1, <2>2, <2>4, <2>5, <2>6, CountsMiss DEF PasswordGiven
<1>5. CASE DeleteDatabase(h)
  <2>1. /\ pc[h] = "count" /\ doc # NoDoc
        /\ wiped' = IF Reaches(doc.attempts, Max) THEN "attempts" ELSE wiped
        /\ pc' = [pc EXCEPT ![h] = "answer"]
        /\ UNCHANGED <<doc, form, op>>
    BY <1>5, <1>0 DEF DeleteDatabase, Goto, lockForm, InvAlone, Inv, CreatedAtStart
  <2>2. ~ClearingDue'
    BY <2>1, <1>0, <1>a DEF ClearingDue
  <2>3. CASE Reaches(Attempts, Max)
    BY <2>1, <2>2, <2>3, <1>b, Clears DEF LockKept, PasswordGiven, Attempts
  <2>4. CASE ~Reaches(Attempts, Max)
    BY <2>1, <2>2, <2>4, <1>b, Stutters DEF LockKept, PasswordGiven, Attempts
  <2> QED
    BY <2>3, <2>4
<1>6. CASE Answer(h)
  <2>1. /\ pc[h] = "answer" /\ form' = FormAfter(arg[h])
        /\ op' = [op EXCEPT ![h] = "none"] /\ pc' = [pc EXCEPT ![h] = "idle"]
        /\ UNCHANGED <<doc, wiped>>
        /\ op[h] = "submit"
    BY <1>6, <1>0 DEF Answer, Finish, Goto, InvAlone, Inv, StepsFit, Ops
  <2>2. ~ClearingDue /\ ~ClearingDue'
    BY <2>1, <1>0, <1>a DEF ClearingDue
  <2>3. PasswordGiven' <=> form' = "success"
    BY <2>1, <1>0, <1>a DEF PasswordGiven
  <2>4. CASE form' = "success"
    <3>1. arg[h]
      BY <2>1, <2>4 DEF FormAfter
    <3>2. Attempts = 0
      BY <2>1, <3>1, <1>0 DEF InvAlone, Alone, Attempts
    <3> QED
      BY <2>1, <2>2, <2>3, <2>4, <3>2, Passes DEF LockKept, Attempts
  <2>5. CASE form' # "success"
    BY <2>1, <2>2, <2>3, <2>5, Forgets DEF LockKept, Attempts
  <2> QED
    BY <2>4, <2>5
<1> QED
  BY <1>1, <1>2, <1>3, <1>4, <1>5, <1>6 DEF HandlerStep

(* Every step of the lock screen is a step of the policy, or none of its business. *)
LEMMA NextPolicy == InvAlone /\ [Next]_vars => [Policy!Next]_(Policy!policyVars)
<1> SUFFICES ASSUME InvAlone, [Next]_vars PROVE PolicyStep
  BY DEF PolicyStep
<1>0. overlap' = overlap
  BY DEF Next, vars
<1>1. CASE overlap
  BY <1>0, <1>1 DEF PolicyStep, Policy!policyVars
<1>2. CASE ~overlap
  <2>1. CASE FormReset
    <3>1. /\ \A h \in Handlers : op[h] = "unlock" => PasswordGiven'
          /\ SameCount /\ SameLock /\ SameDue /\ wiped' = wiped
      BY <2>1 DEF FormReset, page, run, PasswordGiven, Attempts, LockKept, ClearingDue
    <3>2. CASE \E h \in Handlers : op[h] = "unlock"
      BY <1>0, <1>2, <3>1, <3>2, Stutters DEF PasswordGiven
    <3>3. CASE ~\E h \in Handlers : op[h] = "unlock"
      BY <1>0, <1>2, <2>1, <3>1, <3>3, Forgets DEF FormReset, run, PasswordGiven
    <3> QED
      BY <3>2, <3>3
  <2>2. CASE ClearStorage
    BY <1>0, <1>2, <2>2, ClearsInSettings
       DEF ClearStorage, DialogUnchanged, page, lockForm, run, LockKept, PasswordGiven,
           ClearingDue, Attempts
  <2>3. CASE Restart
    <3>1. ~PasswordGiven' /\ ~ClearingDue'
      BY <2>3 DEF Restart, PasswordGiven, ClearingDue
    <3>2. /\ wiped' = "no"
          /\ wiped = "no" => SameCount /\ SameLock
          /\ wiped # "no" => Attempts' = 0 /\ ~LockKept'
      BY <2>3 DEF Restart, Attempts, LockKept
    <3> QED
      BY <1>0, <1>2, <3>1, <3>2, Restarts
  <2>4. ASSUME NEW h \in Handlers, HandlerStep(h) PROVE PolicyStep
    BY <1>0, <1>2, <2>4, HandlersKeepPolicy
  <2> QED
    BY <1>0, <1>2, <2>1, <2>2, <2>3, <2>4, OthersKeepPolicy DEF Next
<1> QED
  BY <1>1, <1>2

(* The promises of the lock screen hold through restarts at any step, when no handler    *)
(* overlaps another: a wrong password counts once, the storage is cleared by the lock     *)
(* screen on the Max-th in a row and never before, and only a right password unlocks.     *)
THEOREM ImplementsPolicy == Spec => KeepsPolicy
<1>1. Init => Policy!Init
  <2> SUFFICES ASSUME Init PROVE Policy!Init
    OBVIOUS
  <2>1. /\ doc = NoDoc /\ form = "form" /\ wiped = "no"
        /\ \A h \in Handlers : op[h] = "none" /\ pc[h] = "idle"
    BY DEF Init
  <2> QED
    BY <2>1 DEF Policy!Init, Attempts
<1>2. Init => InvAlone
  <2>1. Init => Alone
    BY DEF Init, Alone
  <2> QED
    BY <2>1, InitInv DEF InvAlone
<1>3. InvAlone /\ [Next]_vars => InvAlone'
  BY NextInv, NextAlone DEF InvAlone
<1> QED
  BY <1>1, <1>2, <1>3, NextPolicy, PTL DEF Spec, KeepsPolicy, Policy!Spec
=============================================================================
