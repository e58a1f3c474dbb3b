---------------------------- MODULE AddressBook ----------------------------
(***************************************************************************)
(* The address book of a wallet: the settings page that lists the contacts,  *)
(* the dialogs that add, edit and remove one (AddressBook, AddAddressModal), *)
(* the field of the sending form that looks contacts up (AddressBookInput)   *)
(* and the contact saved with a payment (AddressBookService).                *)
(*                                                                         *)
(* The database serves one call after the other, in the order in which they  *)
(* are made; what follows a call runs when it is answered, whatever page is  *)
(* open by then.  Every dialog and field asks the password first.            *)
(***************************************************************************)
EXTENDS Naturals, Sequences, FiniteSets

CONSTANTS
  Networks,    \* chain and asset of a contact
  Addresses,
  Memos,
  Nothing,     \* no contact, no address, no memo
  MaxDialogs,  \* bound: dialogs opened
  MaxTyped,    \* bound: changes of the fields of a dialog and of the sending form
  MaxVisits,   \* bound: pages opened
  MaxCalls     \* bound: calls waiting while the user acts

ASSUME BookAssumption ==
  /\ Nothing \notin Networks \union Addresses \union Memos
  /\ {MaxDialogs, MaxTyped, MaxVisits, MaxCalls} \subseteq Nat

VARIABLES
  book,        \* addressBookStore
  lastId,      \* identifiers given so far
  calls,       \* calls the database has not served
  place,       \* the page: "book", "send" or "home"
  visit,       \* pages opened so far
  contacts,    \* the contacts the page lists, or the field offers
  opened,      \* dialogs opened so far
  form,        \* the fields of the dialog that is open
  removing,    \* the contact the removal dialog is about
  field,       \* the field of the sending form: what it shows
  payment,     \* the sending form: recipientAddress and memo
  typed,       \* changes made so far
  overlapped,  \* history: two writers have been under way together
  moved,       \* history: a contact has been given, unchecked, an address it did not have
  outdated     \* history: on this page Backspace was pressed while an address was being
               \* looked up

bookVars == <<book, lastId, calls, place, visit, contacts, opened, form, removing, field, payment,
              typed, overlapped, moved, outdated>>

Asset == CHOOSE n \in Networks: TRUE  \* the asset that is sent
NoForm    == [visit |-> 0, edits |-> Nothing, network |-> Nothing, address |-> Nothing, memo |-> Nothing]
EmptyField == [value |-> Nothing, contact |-> Nothing]
EmptyPayment == [address |-> Nothing, memo |-> Nothing, own |-> FALSE]

BookInit ==
  /\ book = {} /\ lastId = 0 /\ calls = <<>>
  /\ place = "home" /\ visit = 0 /\ contacts = {}
  /\ opened = 0 /\ form = NoForm /\ removing = Nothing
  /\ field = EmptyField /\ payment = EmptyPayment /\ typed = 0
  /\ overlapped = FALSE /\ moved = FALSE /\ outdated = FALSE

-----------------------------------------------------------------------------
(* The calls of the database. *)

Contact(id, n, a, m) == [id |-> id, network |-> n, address |-> a, memo |-> m]

(* queryAddressBookContact *)
ContactsAt(n, a) == {c \in book: c.network = n /\ c.address = a}

(* retrieveAddressBookContact: one of them *)
Known(n, a) == IF ContactsAt(n, a) = {} THEN Nothing ELSE CHOOSE c \in ContactsAt(n, a): TRUE

(* insertAddressBookContact *)
Insert(n, a, m) ==
  /\ lastId' = lastId + 1
  /\ book' = book \union {Contact(lastId', n, a, m)}

(* updateAddressBookContact: nothing, if the contact is gone *)
Updated(id, n, a, m) ==
  {IF c.id = id THEN Contact(id, n, a, m) ELSE c: c \in book}

(* removeAddressBookContact *)
Without(id) == {c \in book: c.id # id}

Writers == {"check", "insert", "update", "find", "count", "auto"}

\* A call is a record: what is asked, by which dialog or visit, and with what.
Call(op, by, what) == [op |-> op, by |-> by, what |-> what]

Calls(more) ==
  /\ calls' = more
  /\ overlapped' = (overlapped \/
       Cardinality({more[i].by: i \in {j \in DOMAIN more: more[j].op \in Writers}}) > 1)
Ask(call) == Len(calls) < MaxCalls /\ Calls(Append(calls, call))
Served(then) == Calls(Tail(calls) \o then)
Serves(op) == calls # <<>> /\ Head(calls).op = op

-----------------------------------------------------------------------------
(* Pages. *)

views == <<place, visit, contacts, opened, form, removing, field, payment>>
kept == <<book, lastId, outdated>>
LookingUp == \E i \in DOMAIN calls: calls[i].op = "lookup" /\ calls[i].by = visit

(* Opening a page fetches its contacts: all of them, or those of the asset to send. *)
Open(p) ==
  /\ visit < MaxVisits /\ place # p /\ form = NoForm /\ removing = Nothing
  /\ place' = p /\ visit' = visit + 1
  /\ contacts' = {} /\ field' = EmptyField /\ payment' = EmptyPayment
  /\ Ask(Call("list", visit + 1, Nothing))
  /\ outdated' = FALSE
  /\ UNCHANGED <<book, lastId, opened, form, removing, typed, moved>>

Fetched ==
  LET c == Head(calls) IN
  /\ Serves("list") /\ Served(<<>>)
  /\ contacts' = IF c.by # visit THEN contacts
                 ELSE IF place = "send" THEN {x \in book: x.network = Asset}
                 ELSE book
  /\ UNCHANGED <<kept, place, visit, opened, form, removing, field, payment, typed, moved>>

-----------------------------------------------------------------------------
(* The dialog that adds or edits a contact. *)

OpenContact(c) ==
  /\ place = "book" /\ form = NoForm /\ removing = Nothing /\ opened < MaxDialogs
  /\ c \in contacts \union {Nothing}
  /\ opened' = opened + 1
  /\ \E n \in Networks, a \in Addresses, m \in Memos \union {Nothing}:
       /\ IF c = Nothing THEN m # Nothing  \* bound: who adds a contact gives it a memo
                         ELSE n = c.network /\ a = c.address /\ m = c.memo
       /\ form' = [visit |-> visit, edits |-> c, network |-> n, address |-> a, memo |-> m]
  /\ UNCHANGED <<kept, calls, place, visit, contacts, removing, field, payment, typed,
                 overlapped, moved>>

Checking == \E i \in DOMAIN calls: calls[i].op = "check" /\ calls[i].by = opened

(* A form that is changed, or submitted again, while it is being checked does not go on
   with that check. *)
Lost(d) ==
  [i \in DOMAIN calls |-> IF calls[i].op = "check" /\ calls[i].by = d
                          THEN [calls[i] EXCEPT !.op = "lost"] ELSE calls[i]]

Changed(f) == form' = f /\ Calls(Lost(opened))

(* A field can be changed while the form is being checked.  Bound: a new contact is
   filled in when its dialog opens. *)
FillIn(n, a) ==
  /\ form # NoForm /\ (form.edits # Nothing \/ Checking)
  /\ typed < MaxTyped /\ typed' = typed + 1
  /\ Changed([form EXCEPT !.network = n, !.address = a])
  /\ UNCHANGED <<kept, place, visit, contacts, opened, removing, field, payment, moved>>

(* addressBookExistsValidator: a contact that keeps its address is not looked up, also
   when its network is another one. *)
Unchecked(f) == f.edits # Nothing /\ f.edits.address = f.address

(* History: whether the contact, if it is still there, is where the form would put it.  It
   is not if the network is changed, or if the page lists the contact as it was before
   another edit. *)
InItsPlace(f) ==
  \A c \in book: c.id = f.edits.id => c.network = f.network /\ c.address = f.address

(* mutant: a contact that is edited is added *)
WriteNew(f) == Call("insert", opened, f)

Write(f) == Call(IF f.edits = Nothing THEN "insert" ELSE "update", opened, f)

(* The button stays: it may be clicked again. *)
SubmitContact ==
  /\ form # NoForm /\ Len(calls) < MaxCalls
  /\ Calls(Append(Lost(opened),
                  IF Unchecked(form) THEN Write(form) ELSE Call("check", opened, form)))
  /\ moved' = (moved \/ (Unchecked(form) /\ ~InItsPlace(form)))
  /\ UNCHANGED <<kept, views, typed>>

(* onFinish *)
Checked ==
  LET c == Head(calls) IN
  /\ Serves("check")
  /\ Served(IF ContactsAt(c.what.network, c.what.address) = {}
            THEN <<[Write(c.what) EXCEPT !.by = c.by]>> ELSE <<>>)
  /\ UNCHANGED <<kept, views, typed, moved>>

CheckLost ==
  /\ Serves("lost") /\ Served(<<>>)
  /\ UNCHANGED <<kept, views, typed, moved>>

(* onSave closes whichever dialog the page has open, and lists the contacts again. *)
Saved(f) ==
  /\ form' = IF f.visit = visit THEN NoForm ELSE form
  /\ Served(<<Call("list", f.visit, Nothing)>>)
  /\ UNCHANGED <<place, visit, contacts, opened, removing, field, payment, typed, moved, outdated>>

SaveNew ==
  LET f == Head(calls).what IN
  /\ Serves("insert") /\ Insert(f.network, f.address, f.memo)
  /\ Saved(f)

SaveEdited ==
  LET f == Head(calls).what IN
  /\ Serves("update") /\ book' = Updated(f.edits.id, f.network, f.address, f.memo)
  /\ Saved(f) /\ UNCHANGED lastId

(* What has been submitted goes on. *)
CloseDialog ==
  /\ form # NoForm /\ form' = NoForm
  /\ Ask(Call("list", visit, Nothing))
  /\ UNCHANGED <<kept, place, visit, contacts, opened, removing, field, payment, typed, moved>>

AskRemove(c) ==
  /\ place = "book" /\ form = NoForm /\ removing = Nothing /\ c \in contacts
  /\ removing' = c
  /\ UNCHANGED <<kept, calls, place, visit, contacts, opened, form, field, payment, typed,
                 overlapped, moved>>

(* The dialog is gone before the contact is. *)
Remove ==
  /\ removing # Nothing /\ removing' = Nothing
  /\ \/ Ask(Call("remove", visit, removing)) \/ UNCHANGED <<calls, overlapped>>
  /\ UNCHANGED <<kept, place, visit, contacts, opened, form, field, payment, typed, moved>>

Removed ==
  LET c == Head(calls) IN
  /\ Serves("remove")
  /\ book' = Without(c.what.id)
  /\ Served(<<Call("list", c.by, Nothing)>>)
  /\ UNCHANGED <<lastId, views, typed, moved, outdated>>

-----------------------------------------------------------------------------
(* The field of the sending form. *)

\* The field calls onChange with an address and its contact, if there is one.
Onto(a, c) == payment' = [address |-> a, memo |-> IF c = Nothing THEN Nothing ELSE c.memo,
                          own |-> FALSE]

LookUp(a) == Ask(Call("lookup", visit, a))
Sending == <<book, lastId, place, visit, contacts, opened, form, removing, moved>>

(* With a contact in the field no key but Backspace does anything.  The form hears of
   the address when it has been looked up. *)
TypeAddress(a) ==
  /\ place = "send" /\ field.contact = Nothing /\ field.value # a
  /\ typed < MaxTyped /\ typed' = typed + 1
  /\ field' = [field EXCEPT !.value = a]
  /\ LookUp(a)
  /\ UNCHANGED <<Sending, payment, outdated>>

(* An option is selected, and looked up like an address that is typed. *)
SelectContact(c) ==
  /\ place = "send" /\ c \in contacts /\ field.value # c.address
  /\ typed < MaxTyped /\ typed' = typed + 1
  /\ field' = [value |-> c.address, contact |-> c]
  /\ Onto(c.address, c)
  /\ LookUp(c.address)
  /\ UNCHANGED <<Sending, outdated>>

(* mutant: the form is not told *)
ClearField ==
  /\ place = "send" /\ field.contact # Nothing
  /\ field' = EmptyField
  /\ outdated' = (outdated \/ LookingUp)
  /\ UNCHANGED <<Sending, calls, payment, typed, overlapped>>

(* Backspace *)
ClearContact ==
  /\ place = "send" /\ field.contact # Nothing
  /\ field' = EmptyField /\ Onto(Nothing, Nothing)
  /\ outdated' = (outdated \/ LookingUp)
  /\ UNCHANGED <<Sending, calls, typed, overlapped>>

LookedUp ==
  LET c == Head(calls) IN
  /\ Serves("lookup") /\ Served(<<>>)
  /\ IF c.by = visit
     THEN /\ Onto(c.what, Known(Asset, c.what))
          /\ field' = [field EXCEPT !.contact = Known(Asset, c.what)]
     ELSE UNCHANGED <<field, payment>>
  /\ UNCHANGED <<Sending, typed, outdated>>

TypeMemo(m) ==
  /\ place = "send" /\ payment.address # Nothing
  /\ typed < MaxTyped /\ typed' = typed + 1
  /\ payment' = [payment EXCEPT !.memo = m, !.own = TRUE]
  /\ UNCHANGED <<Sending, calls, field, overlapped, outdated>>

Adding == \E i \in DOMAIN calls: calls[i].by = 0

(* A payment, and the box that saves the address of one who is no contact.  Bound: a
   confirmation takes longer than the calls of the database. *)
Pay ==
  /\ place = "send" /\ payment.address # Nothing /\ ~LookingUp /\ ~Adding
  /\ \/ field.contact = Nothing /\ Ask(Call("find", 0, payment))
     \/ UNCHANGED <<calls, overlapped>>
  /\ field' = EmptyField /\ payment' = EmptyPayment
  /\ UNCHANGED <<Sending, typed, outdated>>

(* autoAddAddressBookContact: the contact is looked for, the contacts are counted, one
   is inserted. *)
Find ==
  LET c == Head(calls) IN
  /\ Serves("find")
  /\ Served(IF ContactsAt(Asset, c.what.address) = {} THEN <<[c EXCEPT !.op = "count"]>> ELSE <<>>)
  /\ UNCHANGED <<kept, views, typed, moved>>

Count ==
  /\ Serves("count") /\ Served(<<[Head(calls) EXCEPT !.op = "auto"]>>)
  /\ UNCHANGED <<kept, views, typed, moved>>

AutoAdd ==
  LET c == Head(calls) IN
  /\ Serves("auto") /\ Served(<<>>)
  /\ Insert(Asset, c.what.address, c.what.memo)
  /\ UNCHANGED <<outdated, views, typed, moved>>

-----------------------------------------------------------------------------

DatabaseStep ==
  Fetched \/ Checked \/ CheckLost \/ SaveNew \/ SaveEdited \/ Removed \/ LookedUp \/ Find \/ Count \/ AutoAdd

BookStep ==
  \/ \E p \in {"book", "send"}: Open(p)
  \/ \E c \in contacts \union {Nothing}: OpenContact(c) \/ AskRemove(c)
  \/ \E n \in Networks, a \in Addresses: FillIn(n, a)
  \/ SubmitContact \/ CloseDialog \/ Remove
  \/ \E a \in Addresses: TypeAddress(a)
  \/ \E c \in contacts: SelectContact(c)
  \/ \E m \in Memos: TypeMemo(m)
  \/ ClearContact \/ Pay

BookNext == DatabaseStep \/ BookStep

-----------------------------------------------------------------------------
(* Properties. *)

(* No address of an asset is in the book twice, although adding looks first and writes
   later (addressBookExistsValidator, autoAddAddressBookContact): unless two of these
   have been under way together, or a contact got an address unchecked that it did not
   have: its form does not look up the address that was listed, also when its network is
   another one, or when an edit that was saved late has moved it and the list of the page
   does not know. *)
NoDuplicates ==
  ~overlapped /\ ~moved =>
    \A c, d \in book: c.network = d.network /\ c.address = d.address => c = d

(* What the form would send to is what its field shows, and the memo is the contact's
   or has been typed since: as soon as no address is being looked up any more, however
   typing, selecting and clearing overtake the look-ups and dialogs of earlier pages
   change the contacts; unless a contact is cleared while an earlier address is still
   being looked up. *)
PaysWhatItShows ==
  place = "send" /\ ~LookingUp /\ ~outdated =>
    /\ payment.address = IF field.contact # Nothing THEN field.contact.address
                                                    ELSE field.value
    /\ field.contact # Nothing => payment.own \/ payment.memo = field.contact.memo

=============================================================================
