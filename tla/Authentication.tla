--------------------------- MODULE Authentication ---------------------------
(***************************************************************************)
(* LogInVC and SignUpVC: the screens that sign the user of a device in.    *)
(* Both wait for Auth in a callback, and nothing keeps the user from       *)
(* editing the form, pressing a button again or going to the other screen  *)
(* before the callback runs.  The callback of a sign-up signs the new user *)
(* in and writes an item, the user's record and its two lists.             *)
(*                                                                         *)
(* SignUpVC keeps two copies of what is typed: the text of a field, which  *)
(* signUpPressed checks, and the text the field had when its editing       *)
(* ended, which the callback writes.  Passwords are left out: a press with *)
(* a password that is empty, wrong or mistyped only shows an alert.        *)
(* Screens are presented over each other and none is ever dismissed.       *)
(***************************************************************************)
EXTENDS Firebase, SequencesExt

CONSTANTS
  Blank,   \* the empty text
  Habits   \* how users may behave: whether they are careful, that is end
           \* editing before they press and then wait; what they type, and the
           \* calls to Auth they have in flight when they press (bounds)

ASSUME AuthenticationAssumption ==
  /\ Blank \in Text
  /\ Habits \subseteq [careful : BOOLEAN, texts : SUBSET Text, calls : Nat]

VARIABLES
  accounts, \* Auth: the form that created each account (it is known by email)
  form,     \* for each device, the screen on top and its SignUpVC
  calls,    \* for each device, the calls to Auth whose callback has not run
  habit     \* how the users of this behaviour behave

authVars == <<accounts, form, calls, habit>>
vars == <<firebaseVars, authVars>>

\* username and email are the texts of the fields, userName and userEmail what
\* the screen keeps of them; home is the user the home screen was opened for.
Form ==
  [screen    : {"login", "signup", "home"},
   alert     : {"none", "error", "welcome"},
   editing   : {"none", "username", "email"},
   username  : Text,
   email     : Text,
   userName  : Text,
   userEmail : Text,
   home      : Uid \cup {NoId}]

FirstScreen ==
  [screen |-> "login", alert |-> "none", editing |-> "none",
   username |-> Blank, email |-> Blank, userName |-> Blank,
   userEmail |-> Blank, home |-> NoId]

\* A call carries what its screen passed to it, and the account once made or
\* whether another screen covers the LogInVC that made it.
SignUpCall == [kind : {"signup"}, profile : Profile, uid : Uid \cup {NoId}]
SignInCall == [kind : {"signin"}, email : Text, covered : BOOLEAN]

-----------------------------------------------------------------------------
(* The user                                                                *)

AtEase(d) == habit.careful => calls[d] = <<>>

OnForm(d) ==
  /\ up[d]
  /\ form[d].screen = "signup"
  /\ form[d].alert = "none"
  /\ AtEase(d)

\* A mutant: the name is not kept.
KeptEmail(f) ==
  [f EXCEPT !.userEmail = IF f.editing = "email" THEN f.email ELSE @,
            !.editing   = "none"]

\* textFieldDidEndEditing
Kept(f) ==
  [f EXCEPT !.userName  = IF f.editing = "username" THEN f.username ELSE @,
            !.userEmail = IF f.editing = "email" THEN f.email ELSE @,
            !.editing   = "none"]

\* The user goes to a field, which ends the editing of another, and types.
EditUsername(d) ==
  \E t \in habit.texts :
    LET f == IF form[d].editing = "username" THEN form[d] ELSE Kept(form[d])
    IN  /\ OnForm(d)
        /\ form' = [form EXCEPT ![d] =
                      [f EXCEPT !.editing = "username", !.username = t]]
        /\ UNCHANGED <<habit, accounts, calls, firebaseVars>>

EditEmail(d) ==
  \E t \in habit.texts :
    LET f == IF form[d].editing = "email" THEN form[d] ELSE Kept(form[d])
    IN  /\ OnForm(d)
        /\ form' = [form EXCEPT ![d] =
                      [f EXCEPT !.editing = "email", !.email = t]]
        /\ UNCHANGED <<habit, accounts, calls, firebaseVars>>

\* Editing ends when the user goes to a password or the keyboard goes away.
EndEditing(d) ==
  /\ up[d]
  /\ form[d].screen # "home"
  /\ form[d].editing # "none"
  /\ form' = [form EXCEPT ![d] = Kept(form[d])]
  /\ UNCHANGED <<habit, accounts, calls, firebaseVars>>

\* SignUpVC.signUpPressed with every field filled in
SignUpPressed(d) ==
  /\ OnForm(d)
  /\ habit.careful => form[d].editing = "none"
  /\ Len(calls[d]) < habit.calls
  /\ form[d].email # Blank
  /\ form[d].username # Blank
  /\ calls' = [calls EXCEPT ![d] =
                 Append(calls[d], [kind |-> "signup", uid |-> NoId,
                            profile |-> [username |-> form[d].username,
                                         email |-> form[d].email]])]
  /\ UNCHANGED <<habit, accounts, form, firebaseVars>>

\* The same with a field that is empty or a password that is not repeated.
FormError(d) ==
  /\ OnForm(d)
  /\ form' = [form EXCEPT ![d] = [form[d] EXCEPT !.alert = "error"]]
  /\ UNCHANGED <<habit, accounts, calls, firebaseVars>>

Dismiss(d) ==
  /\ up[d]
  /\ form[d].alert = "error"
  /\ form' = [form EXCEPT ![d] = [form[d] EXCEPT !.alert = "none"]]
  /\ UNCHANGED <<habit, accounts, calls, firebaseVars>>

\* The handler of the "Congratulations!" alert
Okay(d) ==
  /\ up[d]
  /\ form[d].alert = "welcome"
  /\ form' = [form EXCEPT ![d] = [form[d] EXCEPT !.alert = "none",
                                                 !.screen = "home",
                                                 !.home = currentUser[d]]]
  /\ UNCHANGED <<habit, accounts, calls, firebaseVars>>

\* A mutant: the home screen is opened without waiting for the answer.
LogInAtOnce(d) ==
  \E t \in habit.texts \ {Blank} :
    /\ up[d]
    /\ form[d].screen = "login"
    /\ AtEase(d)
    /\ Len(calls[d]) < habit.calls
    /\ calls' = [calls EXCEPT ![d] =
                   Append(calls[d], [kind |-> "signin", email |-> t, covered |-> TRUE])]
    /\ form' = [form EXCEPT ![d] =
                  [@ EXCEPT !.screen = "home", !.home = currentUser[d]]]
    /\ UNCHANGED <<habit, accounts, firebaseVars>>

\* LogInVC.logInPressed with both fields filled in
LogInPressed(d) ==
  \E t \in habit.texts \ {Blank} :
    /\ up[d]
    /\ form[d].screen = "login"
    /\ AtEase(d)
    /\ Len(calls[d]) < habit.calls
    /\ calls' = [calls EXCEPT ![d] =
                   Append(calls[d], [kind |-> "signin", email |-> t, covered |-> FALSE])]
    /\ UNCHANGED <<habit, accounts, form, firebaseVars>>

\* The buttons from one screen to the other.  A sign-up form that was left
\* stays below the new screen, for the callbacks of its calls; a new form is
\* opened only when there are none (bound: one form with calls in flight).
GoToSignUp(d) ==
  /\ up[d]
  /\ form[d].screen = "login"
  /\ \A k \in DOMAIN calls[d] : calls[d][k].kind = "signin"
  /\ AtEase(d)
  /\ form' = [form EXCEPT ![d] = [FirstScreen EXCEPT !.screen = "signup"]]
  /\ calls' = [calls EXCEPT ![d] =
                 [k \in DOMAIN calls[d] |-> [calls[d][k] EXCEPT !.covered = TRUE]]]
  /\ UNCHANGED <<habit, accounts, firebaseVars>>

GoToLogIn(d) ==
  /\ OnForm(d)
  /\ form' = [form EXCEPT ![d] = [form[d] EXCEPT !.screen = "login"]]
  /\ UNCHANGED <<habit, accounts, calls, firebaseVars>>

-----------------------------------------------------------------------------
(* Auth and its callbacks                                                  *)

EmailsInUse == {accounts[u].email : u \in {v \in Uid : accounts[v] # Missing}}

\* Auth's server makes the account of the k-th call of d.
Register(d, k) ==
  \E u \in Uid :
    /\ up[d]
    /\ calls[d][k].kind = "signup"
    /\ calls[d][k].uid = NoId
    /\ accounts[u] = Missing
    /\ calls[d][k].profile.email \notin EmailsInUse
    /\ accounts' = [accounts EXCEPT ![u] = calls[d][k].profile]
    /\ calls' = [calls EXCEPT ![d] =
                   [calls[d] EXCEPT ![k] = [calls[d][k] EXCEPT !.uid = u]]]
    /\ UNCHANGED <<habit, form, firebaseVars>>

\* The record a new user gets: what the form keeps when the callback runs.
NewProfile(d, u) ==
  [node |-> "profile", uid |-> u,
   value |-> [username |-> form[d].userName, email |-> form[d].userEmail]]

\* A mutant: the record is written after its lists.
ListsFirst(d, u, i) ==
  <<[node |-> "items", id |-> i],
    [node |-> "friendList", uid |-> u, value |-> <<u>>],
    [node |-> "itemList", uid |-> u, value |-> <<i>>], NewProfile(d, u)>>

\* The writes of the callback of createUser, in order.
NewUserWrites(d, u, i) ==
  <<[node |-> "items", id |-> i], NewProfile(d, u),
    [node |-> "friendList", uid |-> u, value |-> <<u>>],
    [node |-> "itemList", uid |-> u, value |-> <<i>>]>>

\* The keys childByAutoId may return: those no write has used.
FreshItems == ItemId \ (items \cup UNION {UnsentItems(d) : d \in Device})

\* An alert is shown only if nothing covers the screen that presents it.
Alert(f, alert) ==
  IF f.screen = "signup" /\ f.alert = "none" THEN [f EXCEPT !.alert = alert]
                                             ELSE f

SignedUp(d, k) ==
  /\ up[d]
  /\ calls[d][k].kind = "signup"
  /\ calls[d][k].uid \in Uid
  /\ \E i \in FreshItems : Issue(d, NewUserWrites(d, calls[d][k].uid, i))
  /\ currentUser' = [currentUser EXCEPT ![d] = calls[d][k].uid]
  /\ form' = [form EXCEPT ![d] = Alert(form[d], "welcome")]
  /\ calls' = [calls EXCEPT ![d] = RemoveAt(calls[d], k)]
  /\ UNCHANGED <<habit, accounts, users, items, up>>

\* The callback of createUser gets an error: the email is in use, or the call
\* or its answer was lost.
SignUpFails(d, k) ==
  /\ up[d]
  /\ calls[d][k].kind = "signup"
  /\ form' = [form EXCEPT ![d] = Alert(form[d], "error")]
  /\ calls' = [calls EXCEPT ![d] = RemoveAt(calls[d], k)]
  /\ UNCHANGED <<habit, accounts, firebaseVars>>

\* The callback of signIn gets a user; the segue to the home screen is not
\* performed if another screen covers the one it was made from.
SignedIn(d, k) ==
  \E u \in Uid :
    /\ up[d]
    /\ calls[d][k].kind = "signin"
    /\ accounts[u] # Missing
    /\ accounts[u].email = calls[d][k].email
    /\ currentUser' = [currentUser EXCEPT ![d] = u]
    /\ form' = [form EXCEPT ![d] =
                  IF form[d].screen = "login" /\ ~calls[d][k].covered
                  THEN [form[d] EXCEPT !.screen = "home", !.home = u] ELSE form[d]]
    /\ calls' = [calls EXCEPT ![d] = RemoveAt(calls[d], k)]
    /\ UNCHANGED <<habit, accounts, users, items, pending, up>>

SignInFails(d, k) ==
  /\ up[d]
  /\ calls[d][k].kind = "signin"
  /\ calls' = [calls EXCEPT ![d] = RemoveAt(calls[d], k)]
  /\ UNCHANGED <<habit, accounts, form, firebaseVars>>

Kill(d) ==
  /\ up[d]
  /\ ProcessDies(d)
  /\ form' = [form EXCEPT ![d] = FirstScreen]
  /\ calls' = [calls EXCEPT ![d] = <<>>]
  /\ UNCHANGED <<habit, accounts>>

Launch(d) ==
  /\ ProcessStarts(d)
  /\ UNCHANGED authVars

Send(d) ==
  /\ Commit(d)
  /\ UNCHANGED authVars

Returns(d) ==
  \E k \in DOMAIN calls[d] :
    \/ SignedUp(d, k) \/ SignUpFails(d, k)
    \/ SignedIn(d, k) \/ SignInFails(d, k)

-----------------------------------------------------------------------------

Init ==
  /\ users = [u \in Uid |-> EmptyRecord]
  /\ items = {}
  /\ pending = [d \in Device |-> <<>>]
  /\ currentUser = [d \in Device |-> NoId]
  /\ up = [d \in Device |-> TRUE]
  /\ accounts = [u \in Uid |-> Missing]
  /\ form = [d \in Device |-> FirstScreen]
  /\ calls = [d \in Device |-> <<>>]
  /\ habit \in Habits

Next ==
  \E d \in Device :
    \/ EditUsername(d) \/ EditEmail(d) \/ EndEditing(d)
    \/ SignUpPressed(d) \/ FormError(d) \/ Dismiss(d) \/ Okay(d)
    \/ LogInPressed(d) \/ GoToSignUp(d) \/ GoToLogIn(d)
    \/ \E k \in DOMAIN calls[d] : Register(d, k)
    \/ Returns(d) \/ Send(d)
    \/ Kill(d) \/ Launch(d)

Spec == Init /\ [][Next]_vars

-----------------------------------------------------------------------------
(* Properties                                                              *)

\* Types of Auth's accounts, the screens and the calls in flight.
TypeOK ==
  /\ FirebaseTypeOK
  /\ accounts \in [Uid -> Profile \cup {Missing}]
  /\ form \in [Device -> Form]
  /\ calls \in [Device -> Seq(SignUpCall \cup SignInCall)]
  /\ habit \in Habits

\* Wherever a sign-up is cut, the server holds a first part of what it
\* writes: no list without a profile (setValue of the profile would remove
\* it, and the other screens unwrap the email of every record), no item list
\* without friends, no item that is named and missing, no record without its
\* account.  All of the state has its type.
RecordsFillInOrder ==
  TypeOK /\ \A u \in Uid :
    /\ users[u].profile # Missing => accounts[u] # Missing
    /\ users[u].friendList # Missing => users[u].profile # Missing
    /\ users[u].itemList # Missing => users[u].friendList # Missing
    /\ Ids(users[u].itemList) \subseteq items

\* A record says who its user is: the name and email in it are those of the
\* form that was checked and made the account, although they are written from
\* other variables, after a call, by the form as it is then; if users are
\* careful (they need not be, so the record may even be blank).
RecordsMatchForms ==
  habit.careful =>
    \A u \in Uid : users[u].profile # Missing => users[u].profile = accounts[u]

\* The user Auth has is the one the home screen was opened for: a late answer
\* to a call made from another screen does not sign another user in below it,
\* if users wait for the answer.
HomeStaysMine ==
  habit.careful => \A d \in Device : form[d].screen = "home" => currentUser[d] = form[d].home

=============================================================================
