------------------------ MODULE AuthenticationProofs ------------------------
(***************************************************************************)
(* Proofs about Authentication, for every set of devices, users, items,    *)
(* texts and habits: the types, the order in which a record fills, and,    *)
(* for careful users, that a record says what its user signed up with and  *)
(* that the home screen stays with the user it was opened for.             *)
(***************************************************************************)
EXTENDS Authentication, FirebaseProofs

-----------------------------------------------------------------------------
(* The inductive invariants                                                *)

\* A screen f of a device with these calls and this user: what the form keeps
\* is what its fields held; careful users have one call at a time, of the form
\* that is shown, and go home without one.
ScreenOK(careful, f, cs, me) ==
  /\ f.editing # "username" => f.userName = f.username
  /\ f.editing # "email" => f.userEmail = f.email
  /\ careful =>
       /\ \A j, k \in DOMAIN cs : j = k
       /\ f.screen = "home" => cs = <<>> /\ me = f.home
       /\ f.alert # "none" => cs = <<>> /\ f.screen = "signup"
       /\ \A k \in DOMAIN cs :
            /\ cs[k].kind = "signin" => f.screen = "login"
            /\ cs[k].kind = "signup" =>
                 /\ f.screen = "signup" /\ f.editing = "none"
                 /\ cs[k].profile = [username |-> f.username, email |-> f.email]

AllScreensOK == \A d \in Device : ScreenOK(habit.careful, form[d], calls[d], currentUser[d])

\* The k-th call of d has made the account of u.
Made(d, k, u) == calls[d][k].kind = "signup" /\ calls[d][k].uid = u

\* The k-th unsent write of d is to this child of the record of u.
WritesTo(d, k, u, child) == pending[d][k].node = child /\ pending[d][k].uid = u

\* An account is made by one call, whose callback makes the writes.
OneCallEach ==
  \A u \in Uid, d, e \in Device :
    \A j \in DOMAIN calls[d], k \in DOMAIN calls[e] :
      Made(d, j, u) /\ Made(e, k, u) => d = e /\ j = k

CallsComeFirst ==
  \A u \in Uid, d, e \in Device :
    \A j \in DOMAIN calls[d], k \in DOMAIN pending[e] :
      Made(d, j, u) => pending[e][k].node = "items" \/ pending[e][k].uid # u

\* Whatever names a user was written for an account.
AccountsComeFirst ==
  /\ \A u \in Uid, d \in Device :
       \A k \in DOMAIN calls[d] :
         Made(d, k, u) => accounts[u] # Missing /\ accounts[u] = calls[d][k].profile
  /\ \A u \in Uid, d \in Device :
       \A k \in DOMAIN pending[d] :
         pending[d][k].node # "items" /\ pending[d][k].uid = u => accounts[u] # Missing
  /\ \A u \in Uid : users[u].profile # Missing => accounts[u] # Missing

\* No profile is on its way that would remove the lists of its user.
ProfilesComeFirst ==
  \A u \in Uid, d, e \in Device :
    \A j \in DOMAIN pending[d], k \in DOMAIN pending[e] :
      WritesTo(d, j, u, "profile") /\ WritesTo(e, k, u, "itemList") => d = e /\ j < k

\* Each list comes right after what it needs, or that was the last thing sent.
Follows(d, k) ==
  LET w == pending[d][k]
  IN  /\ w.node = "friendList" =>
           IF k = 1 THEN users[w.uid].profile # Missing
                    ELSE WritesTo(d, k - 1, w.uid, "profile")
      /\ w.node = "itemList" =>
           /\ IF k = 1 THEN users[w.uid].friendList # Missing
                       ELSE WritesTo(d, k - 1, w.uid, "friendList")
           /\ \A i \in Ids(w.value) :
                \/ i \in items
                \/ k > 3 /\ pending[d][k - 3].node = "items" /\ pending[d][k - 3].id = i

ListsFollow == \A d \in Device : \A k \in DOMAIN pending[d] : Follows(d, k)

RecordsFill ==
  \A u \in Uid :
    /\ users[u].friendList # Missing => users[u].profile # Missing
    /\ users[u].itemList # Missing => users[u].friendList # Missing
    /\ Ids(users[u].itemList) \subseteq items

\* The profiles of careful users are those of their accounts, on the way too.
ProfilesMatch ==
  habit.careful =>
    /\ \A u \in Uid, d \in Device :
         \A k \in DOMAIN pending[d] :
           WritesTo(d, k, u, "profile") => pending[d][k].value = accounts[u]
    /\ \A u \in Uid : users[u].profile # Missing => users[u].profile = accounts[u]

-----------------------------------------------------------------------------
(* Types                                                                   *)

Call == SignUpCall \cup SignInCall

LEMMA CallKinds ==
  ASSUME NEW c \in Call
  PROVE  /\ c.kind \in {"signup", "signin"}
         /\ c.kind = "signup" =>
              c \in SignUpCall /\ c.profile \in Profile /\ c.uid \in Uid \cup {NoId}
         /\ c.kind = "signin" => c \in SignInCall /\ c.email \in Text
  BY DEF Call, SignUpCall, SignInCall

LEMMA NewCalls ==
  ASSUME NEW t \in Text, NEW e \in Text
  PROVE  /\ [kind |-> "signin", email |-> t, covered |-> FALSE] \in Call
         /\ [kind |-> "signup", uid |-> NoId, profile |-> [username |-> t, email |-> e]] \in Call
<1>1. [kind |-> "signin", email |-> t, covered |-> FALSE] \in SignInCall
  BY DEF SignInCall
<1>2. [kind |-> "signup", uid |-> NoId, profile |-> [username |-> t, email |-> e]] \in SignUpCall
  BY DEF SignUpCall, Profile
<1> QED BY <1>1, <1>2 DEF Call

LEMMA CoveredCall ==
  ASSUME NEW c \in SignInCall
  PROVE  [c EXCEPT !.covered = TRUE] \in Call /\ [c EXCEPT !.covered = TRUE].kind = "signin"
  BY DEF SignInCall, Call

LEMMA MadeCall ==
  ASSUME NEW c \in SignUpCall, NEW u \in Uid
  PROVE  /\ [c EXCEPT !.uid = u] \in Call
         /\ [c EXCEPT !.uid = u].kind = "signup" /\ [c EXCEPT !.uid = u].uid = u
         /\ [c EXCEPT !.uid = u].profile = c.profile
  BY DEF SignUpCall, Call

LEMMA FirstScreenType ==
  FirstScreen \in Form /\ [FirstScreen EXCEPT !.screen = "signup"] \in Form
  BY AuthenticationAssumption DEF FirstScreen, Form

LEMMA KeptType ==
  ASSUME NEW f \in Form
  PROVE  /\ Kept(f) \in Form
         /\ Kept(f).screen = f.screen /\ Kept(f).alert = f.alert /\ Kept(f).editing = "none"
         /\ Kept(f).username = f.username /\ Kept(f).email = f.email /\ Kept(f).home = f.home
         /\ Kept(f).userName = IF f.editing = "username" THEN f.username ELSE f.userName
         /\ Kept(f).userEmail = IF f.editing = "email" THEN f.email ELSE f.userEmail
  BY DEF Kept, Form

LEMMA AlertType ==
  ASSUME NEW f \in Form, NEW alert \in {"none", "error", "welcome"}
  PROVE  /\ Alert(f, alert) \in Form
         /\ Alert(f, alert).screen = f.screen /\ Alert(f, alert).editing = f.editing
         /\ Alert(f, alert).username = f.username /\ Alert(f, alert).email = f.email
         /\ Alert(f, alert).userName = f.userName /\ Alert(f, alert).userEmail = f.userEmail
         /\ Alert(f, alert).home = f.home
         /\ Alert(f, alert).alert = f.alert \/ f.screen = "signup"
<1>1. CASE f.screen = "signup" /\ f.alert = "none"
  BY <1>1 DEF Alert, Form
<1>2. CASE ~(f.screen = "signup" /\ f.alert = "none")
  BY <1>2 DEF Alert
<1> QED BY <1>1, <1>2

\* The fields of a form after one of its fields is set.
LEMMA FormSet ==
  ASSUME NEW f \in Form
  PROVE  /\ \A x \in {"none", "error", "welcome"} : [f EXCEPT !.alert = x] \in Form
         /\ \A x \in {"login", "signup", "home"} : [f EXCEPT !.screen = x] \in Form
         /\ \A x \in Uid \cup {NoId} : [f EXCEPT !.screen = "home", !.home = x] \in Form
         /\ \A x \in Uid \cup {NoId} :
              [f EXCEPT !.alert = "none", !.screen = "home", !.home = x] \in Form
         /\ \A x \in Text : [f EXCEPT !.editing = "username", !.username = x] \in Form
         /\ \A x \in Text : [f EXCEPT !.editing = "email", !.email = x] \in Form
  BY DEF Form

LEMMA NewUserWritesType ==
  ASSUME TypeOK, NEW d \in Device, NEW u \in Uid, NEW i \in ItemId
  PROVE  NewUserWrites(d, u, i) \in Seq(Write) /\ Len(NewUserWrites(d, u, i)) = 4
<1>1. form[d] \in Form
  BY DEF TypeOK
<1>2. NewProfile(d, u) \in Write
  BY <1>1 DEF NewProfile, Write, ProfileWrite, Profile, Form
<1>3. [node |-> "items", id |-> i] \in Write
  BY DEF Write, ItemWrite
<1>4. <<u>> \in Seq(Uid \cup {NoId}) /\ <<i>> \in Seq(ItemId)
  OBVIOUS
<1>5. [node |-> "friendList", uid |-> u, value |-> <<u>>] \in Write
  BY <1>4 DEF Write, FriendListWrite
<1>6. [node |-> "itemList", uid |-> u, value |-> <<i>>] \in Write
  BY <1>4 DEF Write, ItemListWrite
<1> QED BY <1>2, <1>3, <1>5, <1>6 DEF NewUserWrites

\* Where a call is among the calls, once the k-th is taken out: its old place.
Place(j, k) == IF j < k THEN j ELSE j + 1

LEMMA TakenOut ==
  ASSUME NEW S, NEW s \in Seq(S), NEW k \in DOMAIN s
  PROVE  /\ RemoveAt(s, k) \in Seq(S)
         /\ \A j \in DOMAIN RemoveAt(s, k) :
              /\ j \in Nat
              /\ Place(j, k) \in DOMAIN s
              /\ RemoveAt(s, k)[j] = s[Place(j, k)]
<1>0. k \in 1 .. Len(s) /\ Len(s) \in Nat
  OBVIOUS
<1> DEFINE before == SubSeq(s, 1, k - 1)
           after == SubSeq(s, k + 1, Len(s))
<1>1. /\ before \in Seq(S) /\ Len(before) = k - 1
      /\ \A j \in 1 .. k - 1 : before[j] = s[j]
  BY <1>0
<1>2. /\ after \in Seq(S) /\ Len(after) = Len(s) - k
      /\ \A j \in 1 .. Len(s) - k : after[j] = s[k + j]
  BY <1>0
<1>3. RemoveAt(s, k) = before \o after
  BY DEF RemoveAt
<1> HIDE DEF before, after
<1>4. /\ before \o after \in Seq(S) /\ DOMAIN (before \o after) = 1 .. Len(s) - 1
      /\ \A j \in 1 .. k - 1 : (before \o after)[j] = before[j]
      /\ \A j \in k .. Len(s) - 1 : (before \o after)[j] = after[j - (k - 1)]
  BY <1>0, <1>1, <1>2, SMTT(20)
<1>5. ASSUME NEW j \in 1 .. Len(s) - 1
      PROVE  j \in Nat /\ Place(j, k) \in DOMAIN s /\ (before \o after)[j] = s[Place(j, k)]
  <2>1. CASE j < k
    BY <1>0, <1>1, <1>4, <2>1 DEF Place
  <2>2. CASE ~(j < k)
    <3>1. j \in k .. Len(s) - 1 /\ j - (k - 1) \in 1 .. Len(s) - k /\ k + (j - (k - 1)) = j + 1
      BY <1>0, <2>2
    <3>2. (before \o after)[j] = s[j + 1]
      BY <1>2, <1>4, <3>1
    <3> QED BY <1>0, <2>2, <3>1, <3>2, SMTT(20) DEF Place
  <2> QED BY <2>1, <2>2
<1> QED BY <1>3, <1>4, <1>5

\* A call that has been answered is gone and the others stay in order.
LEMMA CallsLeft ==
  ASSUME TypeOK, NEW d \in Device, NEW k \in DOMAIN calls[d],
         calls' = [calls EXCEPT ![d] = RemoveAt(calls[d], k)]
  PROVE  /\ calls' \in [Device -> Seq(Call)]
         /\ \A e \in Device \ {d} : calls'[e] = calls[e]
         /\ \A j \in DOMAIN calls'[d] :
              /\ j \in Nat
              /\ Place(j, k) \in DOMAIN calls[d]
              /\ calls'[d][j] = calls[d][Place(j, k)]
<1>1. calls \in [Device -> Seq(Call)] /\ calls[d] \in Seq(Call)
  BY DEF TypeOK, Call
<1>2. PICK left : left = RemoveAt(calls[d], k)
  OBVIOUS
<1>3. calls' = [calls EXCEPT ![d] = left]
  BY <1>2
<1> QED BY <1>1, <1>2, <1>3, TakenOut

\* A step that puts a form of the right type on one screen.
LEMMA FormStep ==
  ASSUME TypeOK, NEW d \in Device, NEW f \in Form, form' = [form EXCEPT ![d] = f]
  PROVE  form' \in [Device -> Form] /\ form'[d] = f /\ \A e \in Device \ {d} : form'[e] = form[e]
  BY DEF TypeOK

LEMMA CallStep ==
  ASSUME TypeOK, NEW d \in Device, NEW cs \in Seq(Call), calls' = [calls EXCEPT ![d] = cs]
  PROVE  calls' \in [Device -> Seq(Call)] /\ calls'[d] = cs
         /\ \A e \in Device \ {d} : calls'[e] = calls[e]
  BY DEF TypeOK, Call

\* The user types t into one of the fields of f.
UsernameTyped(f, t) ==
  [(IF f.editing = "username" THEN f ELSE Kept(f)) EXCEPT !.editing = "username", !.username = t]
EmailTyped(f, t) ==
  [(IF f.editing = "email" THEN f ELSE Kept(f)) EXCEPT !.editing = "email", !.email = t]

LEMMA TypedType ==
  ASSUME NEW f \in Form, NEW t \in Text
  PROVE  UsernameTyped(f, t) \in Form /\ EmailTyped(f, t) \in Form
<1>1. CASE f.editing = "username"
  BY <1>1, KeptType, FormSet DEF UsernameTyped, EmailTyped
<1>2. CASE f.editing = "email"
  BY <1>2, KeptType, FormSet DEF UsernameTyped, EmailTyped
<1>3. CASE f.editing # "username" /\ f.editing # "email"
  BY <1>3, KeptType, FormSet DEF UsernameTyped, EmailTyped
<1> QED BY <1>1, <1>2, <1>3

LEMMA TextsAreTexts == ASSUME TypeOK, NEW t \in habit.texts PROVE t \in Text
  BY AuthenticationAssumption DEF TypeOK

LEMMA TypeStep ==
  ASSUME TypeOK, [Next]_vars
  PROVE  TypeOK'
<1> USE DEF TypeOK, FirebaseTypeOK, authVars, firebaseVars, Call
<1>1. ASSUME NEW d \in Device, EditUsername(d)
      PROVE  TypeOK'
  <2>1. PICK t \in habit.texts : form' = [form EXCEPT ![d] = UsernameTyped(form[d], t)]
    BY <1>1 DEF EditUsername, UsernameTyped
  <2>2. UsernameTyped(form[d], t) \in Form
    BY <2>1, TextsAreTexts, TypedType
  <2> QED BY <1>1, <2>1, <2>2 DEF EditUsername
<1>2. ASSUME NEW d \in Device, EditEmail(d)
      PROVE  TypeOK'
  <2>1. PICK t \in habit.texts : form' = [form EXCEPT ![d] = EmailTyped(form[d], t)]
    BY <1>2 DEF EditEmail, EmailTyped
  <2>2. EmailTyped(form[d], t) \in Form
    BY <2>1, TextsAreTexts, TypedType
  <2> QED BY <1>2, <2>1, <2>2 DEF EditEmail
<1>3. ASSUME NEW d \in Device, EndEditing(d)
      PROVE  TypeOK'
  BY <1>3, KeptType DEF EndEditing
<1>4. ASSUME NEW d \in Device, SignUpPressed(d)
      PROVE  TypeOK'
  <2> DEFINE c == [kind |-> "signup", uid |-> NoId,
                   profile |-> [username |-> form[d].username, email |-> form[d].email]]
  <2>1. form[d].username \in Text /\ form[d].email \in Text
    BY DEF Form
  <2>2. c \in Call
    BY <2>1, NewCalls
  <2> HIDE DEF c
  <2>3. calls' = [calls EXCEPT ![d] = Append(calls[d], c)]
    BY <1>4 DEF SignUpPressed, c
  <2>4. calls' \in [Device -> Seq(Call)]
    BY <2>2, <2>3
  <2> QED BY <1>4, <2>4 DEF SignUpPressed
<1>5. ASSUME NEW d \in Device, FormError(d)
      PROVE  TypeOK'
  BY <1>5, FormSet DEF FormError
<1>6. ASSUME NEW d \in Device, Dismiss(d)
      PROVE  TypeOK'
  BY <1>6, FormSet DEF Dismiss
<1>7. ASSUME NEW d \in Device, Okay(d)
      PROVE  TypeOK'
  BY <1>7, FormSet DEF Okay
<1>8. ASSUME NEW d \in Device, LogInPressed(d)
      PROVE  TypeOK'
  <2>1. PICK t \in habit.texts :
          calls' = [calls EXCEPT ![d] =
                      Append(calls[d], [kind |-> "signin", email |-> t, covered |-> FALSE])]
    BY <1>8 DEF LogInPressed
  <2> DEFINE c == [kind |-> "signin", email |-> t, covered |-> FALSE]
  <2>2. c \in Call
    BY <2>1, TextsAreTexts, NewCalls
  <2> HIDE DEF c
  <2>3. calls' = [calls EXCEPT ![d] = Append(calls[d], c)]
    BY <2>1 DEF c
  <2>4. calls' \in [Device -> Seq(Call)]
    BY <2>2, <2>3
  <2> QED BY <1>8, <2>4 DEF LogInPressed
<1>9. ASSUME NEW d \in Device, GoToSignUp(d)
      PROVE  TypeOK'
  <2> DEFINE Covered(k) == [calls[d][k] EXCEPT !.covered = TRUE]
             cs == [k \in DOMAIN calls[d] |-> Covered(k)]
  <2>1. ASSUME NEW k \in DOMAIN calls[d]
        PROVE  Covered(k) \in Call
    <3>1. calls[d][k] \in Call /\ calls[d][k].kind = "signin"
      BY <1>9 DEF GoToSignUp
    <3>2. calls[d][k] \in SignInCall
      BY <3>1, CallKinds
    <3> QED BY <3>2, CoveredCall
  <2>2. cs \in Seq(Call)
    <3> HIDE DEF Covered
    <3>1. DOMAIN calls[d] = 1 .. Len(calls[d]) /\ Len(calls[d]) \in Nat
      OBVIOUS
    <3> QED BY <2>1, <3>1
  <2>3. calls' = [calls EXCEPT ![d] = cs] /\ form' \in [Device -> Form]
    BY <1>9, FirstScreenType DEF GoToSignUp
  <2> HIDE DEF cs
  <2>4. calls' \in [Device -> Seq(Call)]
    BY <2>2, <2>3
  <2> QED BY <1>9, <2>3, <2>4 DEF GoToSignUp
<1>10. ASSUME NEW d \in Device, GoToLogIn(d)
       PROVE  TypeOK'
  BY <1>10, FormSet DEF GoToLogIn
<1>11. ASSUME NEW d \in Device, NEW k \in DOMAIN calls[d], Register(d, k)
       PROVE  TypeOK'
  <2>1. PICK u \in Uid :
          /\ calls[d][k].kind = "signup"
          /\ accounts' = [accounts EXCEPT ![u] = calls[d][k].profile]
          /\ calls' = [calls EXCEPT ![d] =
                         [calls[d] EXCEPT ![k] = [calls[d][k] EXCEPT !.uid = u]]]
    BY <1>11 DEF Register
  <2>2. calls[d][k] \in Call /\ calls[d][k] \in SignUpCall
    BY <2>1, CallKinds
  <2>3. PICK c \in Call : c = [calls[d][k] EXCEPT !.uid = u]
    BY <2>2, MadeCall
  <2>4. calls' = [calls EXCEPT ![d] = [calls[d] EXCEPT ![k] = c]]
    BY <2>1, <2>3
  <2>5. calls' \in [Device -> Seq(Call)]
    BY <2>3, <2>4
  <2>6. accounts' \in [Uid -> Profile \cup {Missing}]
    BY <2>1, <2>2, CallKinds
  <2> QED BY <1>11, <2>5, <2>6 DEF Register
<1>12. ASSUME NEW d \in Device, NEW k \in DOMAIN calls[d], SignedUp(d, k)
       PROVE  TypeOK'
  <2>1. calls' \in [Device -> Seq(Call)]
    BY <1>12, CallsLeft DEF SignedUp
  <2>2. PICK i \in FreshItems : Issue(d, NewUserWrites(d, calls[d][k].uid, i))
    BY <1>12 DEF SignedUp
  <2>3. pending' \in [Device -> Seq(Write)]
    BY <1>12, <2>2, NewUserWritesType, IssueType DEF SignedUp, FreshItems
  <2>4. form' \in [Device -> Form]
    BY <1>12, AlertType DEF SignedUp
  <2> QED BY <1>12, <2>1, <2>3, <2>4 DEF SignedUp
<1>13. ASSUME NEW d \in Device, NEW k \in DOMAIN calls[d], SignUpFails(d, k)
       PROVE  TypeOK'
  <2>1. calls' \in [Device -> Seq(Call)]
    BY <1>13, CallsLeft DEF SignUpFails
  <2> QED BY <1>13, <2>1, AlertType DEF SignUpFails
<1>14. ASSUME NEW d \in Device, NEW k \in DOMAIN calls[d], SignedIn(d, k)
       PROVE  TypeOK'
  <2>1. calls' \in [Device -> Seq(Call)]
    BY <1>14, CallsLeft DEF SignedIn
  <2>2. PICK u \in Uid :
          /\ currentUser' = [currentUser EXCEPT ![d] = u]
          /\ form' = [form EXCEPT ![d] =
                        IF form[d].screen = "login" /\ ~calls[d][k].covered
                        THEN [form[d] EXCEPT !.screen = "home", !.home = u] ELSE form[d]]
    BY <1>14 DEF SignedIn
  <2>3. [form[d] EXCEPT !.screen = "home", !.home = u] \in Form
    BY FormSet
  <2>4. form' \in [Device -> Form] /\ currentUser' \in [Device -> Uid \cup {NoId}]
    BY <2>2, <2>3
  <2> QED BY <1>14, <2>1, <2>4 DEF SignedIn
<1>15. ASSUME NEW d \in Device, NEW k \in DOMAIN calls[d], SignInFails(d, k)
       PROVE  TypeOK'
  <2>1. calls' \in [Device -> Seq(Call)]
    BY <1>15, CallsLeft DEF SignInFails
  <2> QED BY <1>15, <2>1 DEF SignInFails
<1>16. ASSUME NEW d \in Device, Send(d)
       PROVE  TypeOK'
  BY <1>16, CommitType DEF Send, Commit
<1>17. ASSUME NEW d \in Device, Kill(d)
       PROVE  TypeOK'
  BY <1>17, FirstScreenType DEF Kill, ProcessDies
<1>18. ASSUME NEW d \in Device, Launch(d)
       PROVE  TypeOK'
  BY <1>18 DEF Launch, ProcessStarts
<1>19. CASE UNCHANGED vars
  BY <1>19 DEF vars
<1> QED BY <1>1, <1>2, <1>3, <1>4, <1>5, <1>6, <1>7, <1>8, <1>9, <1>10, <1>11, <1>12,
           <1>13, <1>14, <1>15, <1>16, <1>17, <1>18, <1>19 DEF Next, Returns

LEMMA TypeInit == Init => TypeOK
  BY FirstScreenType DEF Init, TypeOK, FirebaseTypeOK, EmptyRecord, Record

-----------------------------------------------------------------------------
(* The screens                                                             *)

LEMMA OneScreen ==
  ASSUME AllScreensOK, NEW d \in Device, habit' = habit,
         \A e \in Device \ {d} :
           form'[e] = form[e] /\ calls'[e] = calls[e] /\ currentUser'[e] = currentUser[e],
         ScreenOK(habit.careful, form'[d], calls'[d], currentUser'[d])
  PROVE  AllScreensOK'
<1>1. ASSUME NEW e \in Device
      PROVE  ScreenOK(habit'.careful, form'[e], calls'[e], currentUser'[e])
  <2>1. CASE e = d
    BY <2>1
  <2>2. CASE e # d
    <3>1. ScreenOK(habit.careful, form[e], calls[e], currentUser[e])
      BY DEF AllScreensOK
    <3>2. form'[e] = form[e] /\ calls'[e] = calls[e] /\ currentUser'[e] = currentUser[e]
      BY <2>2
    <3> QED BY <3>1, <3>2
  <2> QED BY <2>1, <2>2
<1> QED BY <1>1 DEF AllScreensOK

\* Typing in a field, or leaving it.
LEMMA TypedOK ==
  ASSUME NEW careful, NEW f \in Form, NEW cs, NEW me, NEW t \in Text,
         ScreenOK(careful, f, cs, me), careful => cs = <<>>,
         f.screen # "home"
  PROVE  /\ ScreenOK(careful, UsernameTyped(f, t), cs, me)
         /\ ScreenOK(careful, EmailTyped(f, t), cs, me)
<1> DEFINE f1 == UsernameTyped(f, t)
           f2 == EmailTyped(f, t)
<1>0. /\ f.editing # "username" => f.userName = f.username
      /\ f.editing # "email" => f.userEmail = f.email
      /\ f.alert # "none" /\ careful => f.screen = "signup"
  BY DEF ScreenOK
<1>1. /\ f1.editing = "username" /\ f1.screen = f.screen /\ f1.alert = f.alert
      /\ f1.userEmail = f1.email
  BY <1>0, KeptType DEF UsernameTyped, Form
<1>2. /\ f2.editing = "email" /\ f2.screen = f.screen /\ f2.alert = f.alert
      /\ f2.userName = f2.username
  BY <1>0, KeptType DEF EmailTyped, Form
<1> HIDE DEF f1, f2
<1>3. ScreenOK(careful, f1, cs, me)
  BY <1>0, <1>1 DEF ScreenOK
<1>4. ScreenOK(careful, f2, cs, me)
  BY <1>0, <1>2 DEF ScreenOK
<1> QED BY <1>3, <1>4 DEF f1, f2

LEMMA KeptOK ==
  ASSUME NEW careful, NEW f \in Form, NEW cs, NEW me,
         ScreenOK(careful, f, cs, me), f.screen # "home"
  PROVE  ScreenOK(careful, Kept(f), cs, me)
<1>1. PICK g : g = Kept(f)
  OBVIOUS
<1>2. /\ g.screen = f.screen /\ g.alert = f.alert /\ g.editing = "none"
      /\ g.username = f.username /\ g.email = f.email
      /\ g.userName = IF f.editing = "username" THEN f.username ELSE f.userName
      /\ g.userEmail = IF f.editing = "email" THEN f.email ELSE f.userEmail
  BY <1>1, KeptType
<1>3. ScreenOK(careful, g, cs, me)
  BY <1>2 DEF ScreenOK
<1> QED BY <1>1, <1>3

\* With no calls of careful users, only what the screen shows matters.
LEMMA AlertOrScreenSet ==
  ASSUME NEW careful, NEW f \in Form, NEW g, NEW cs, NEW me, NEW left, NEW you,
         ScreenOK(careful, f, cs, me), careful => left = <<>>,
         g.editing = f.editing, g.userName = f.userName, g.userEmail = f.userEmail,
         g.username = f.username, g.email = f.email,
         careful => /\ g.alert # "none" => g.screen = "signup"
                    /\ g.screen = "home" => you = g.home
  PROVE  ScreenOK(careful, g, left, you)
  BY DEF ScreenOK

LEMMA FirstScreenOK ==
  ASSUME NEW careful, NEW me
  PROVE  /\ ScreenOK(careful, FirstScreen, <<>>, me)
         /\ ScreenOK(careful, [FirstScreen EXCEPT !.screen = "signup"], <<>>, me)
         /\ ~careful =>
              \A any : ScreenOK(careful, [FirstScreen EXCEPT !.screen = "signup"], any, me)
  BY DEF ScreenOK, FirstScreen

LEMMA OnlyOne ==
  ASSUME NEW n \in Nat, NEW k \in 1 .. n, \A i, j \in 1 .. n : i = j
  PROVE  n = 1 /\ k = 1
<1>1. 1 \in 1 .. n
  OBVIOUS
<1>2. k = 1
  BY <1>1
<1>3. ASSUME n # 1
      PROVE  FALSE
  <2>1. 2 \in 1 .. n
    BY <1>1, <1>3
  <2>2. 1 # 2
    OBVIOUS
  <2> QED BY <1>1, <2>1, <2>2
<1> QED BY <1>2, <1>3

\* The callback of a careful user's call leaves none.
LEMMA LastCall ==
  ASSUME TypeOK, AllScreensOK, habit.careful, NEW d \in Device, NEW k \in DOMAIN calls[d],
         calls' = [calls EXCEPT ![d] = RemoveAt(calls[d], k)]
  PROVE  calls'[d] = <<>>
<1>1. calls'[d] \in Seq(Call) /\ calls[d] \in Seq(Call)
  BY CallsLeft DEF TypeOK, Call
<1>2. Len(calls[d]) \in Nat /\ DOMAIN calls[d] = 1 .. Len(calls[d])
  BY <1>1
<1>3. \A i, j \in DOMAIN calls[d] : i = j
  BY DEF AllScreensOK, ScreenOK
<1>4. Len(calls[d]) = 1 /\ k = 1
  BY <1>2, <1>3, OnlyOne
<1>5. ASSUME calls'[d] # <<>>
      PROVE  FALSE
  <2>1. 1 \in DOMAIN calls'[d]
    BY <1>1, <1>5
  <2>2. Place(1, k) \in DOMAIN calls[d]
    BY <2>1, CallsLeft
  <2> QED BY <1>2, <1>4, <2>2 DEF Place
<1> QED BY <1>5

\* The callback that runs: with careful users none is left, and if the form
\* changes it is to show an alert or the home screen of the user there is.
LEMMA AnsweredOK ==
  ASSUME TypeOK, AllScreensOK, NEW d \in Device, NEW k \in DOMAIN calls[d],
         calls' = [calls EXCEPT ![d] = RemoveAt(calls[d], k)],
         NEW g \in Form, NEW you,
         g.editing = form[d].editing,
         g.userName = form[d].userName, g.userEmail = form[d].userEmail,
         g.username = form[d].username, g.email = form[d].email,
         habit.careful => /\ g.alert # "none" => g.screen = "signup"
                          /\ g.screen = "home" => you = g.home
  PROVE  ScreenOK(habit.careful, g, calls'[d], you)
<1>1. form[d] \in Form /\ ScreenOK(habit.careful, form[d], calls[d], currentUser[d])
  BY DEF AllScreensOK, TypeOK
<1>2. habit.careful => calls'[d] = <<>>
  BY LastCall
<1> QED BY <1>1, <1>2, AlertOrScreenSet

LEMMA ScreensStep ==
  ASSUME TypeOK, AllScreensOK, [Next]_vars
  PROVE  AllScreensOK'
<1>0. \A d \in Device :
        /\ ScreenOK(habit.careful, form[d], calls[d], currentUser[d])
        /\ form[d] \in Form /\ calls[d] \in Seq(Call)
  BY DEF AllScreensOK, TypeOK, Call
<1>t. /\ form \in [Device -> Form] /\ calls \in [Device -> Seq(Call)]
      /\ currentUser \in [Device -> Uid \cup {NoId}]
  BY DEF TypeOK, FirebaseTypeOK, Call
<1>1. ASSUME NEW d \in Device, EditUsername(d)
      PROVE  AllScreensOK'
  <2>1. PICK t \in habit.texts : form' = [form EXCEPT ![d] = UsernameTyped(form[d], t)]
    BY <1>1 DEF EditUsername, UsernameTyped
  <2>2. ScreenOK(habit.careful, UsernameTyped(form[d], t), calls[d], currentUser[d])
    BY <1>0, <1>1, <2>1, TextsAreTexts, TypedOK DEF EditUsername, OnForm, AtEase
  <2> QED BY <1>1, <1>t, <2>1, <2>2, OneScreen DEF EditUsername, firebaseVars
<1>2. ASSUME NEW d \in Device, EditEmail(d)
      PROVE  AllScreensOK'
  <2>1. PICK t \in habit.texts : form' = [form EXCEPT ![d] = EmailTyped(form[d], t)]
    BY <1>2 DEF EditEmail, EmailTyped
  <2>2. ScreenOK(habit.careful, EmailTyped(form[d], t), calls[d], currentUser[d])
    BY <1>0, <1>2, <2>1, TextsAreTexts, TypedOK DEF EditEmail, OnForm, AtEase
  <2> QED BY <1>2, <1>t, <2>1, <2>2, OneScreen DEF EditEmail, firebaseVars
<1>3. ASSUME NEW d \in Device, EndEditing(d)
      PROVE  AllScreensOK'
  <2>1. ScreenOK(habit.careful, Kept(form[d]), calls[d], currentUser[d])
    BY <1>0, <1>3, KeptOK DEF EndEditing
  <2> QED BY <1>3, <1>t, <2>1, OneScreen DEF EndEditing, firebaseVars
<1>4. ASSUME NEW d \in Device, SignUpPressed(d)
      PROVE  AllScreensOK'
  <2> DEFINE c == [kind |-> "signup", uid |-> NoId,
                   profile |-> [username |-> form[d].username, email |-> form[d].email]]
  <2>1. /\ c.kind = "signup"
        /\ c.profile = [username |-> form[d].username, email |-> form[d].email]
    OBVIOUS
  <2>2. calls'[d] = Append(calls[d], c) /\ \A e \in Device \ {d} : calls'[e] = calls[e]
    BY <1>4, <1>t DEF SignUpPressed
  <2> HIDE DEF c
  <2>3. /\ form[d].screen = "signup" /\ form[d].alert = "none"
        /\ habit.careful => form[d].editing = "none" /\ calls[d] = <<>>
    BY <1>4 DEF SignUpPressed, OnForm, AtEase
  <2>4. habit.careful =>
          DOMAIN calls'[d] = {1} /\ calls'[d][1] = c /\ calls'[d] # <<>>
    <3>1. Append(<<>>, c) = <<c>> /\ DOMAIN <<c>> = {1} /\ <<c>>[1] = c
      OBVIOUS
    <3>2. <<c>> # <<>>
      OBVIOUS
    <3>3. ASSUME habit.careful
          PROVE  calls'[d] = <<c>>
      BY <2>2, <2>3, <3>1, <3>3, Zenon
    <3> QED BY <3>1, <3>2, <3>3, Zenon
  <2>5. ScreenOK(habit.careful, form[d], calls'[d], currentUser[d])
    BY <1>0, <2>1, <2>3, <2>4 DEF ScreenOK
  <2> QED BY <1>4, <2>2, <2>5, OneScreen DEF SignUpPressed, firebaseVars
<1>5. ASSUME NEW d \in Device, FormError(d)
      PROVE  AllScreensOK'
  <2>1. PICK g : g = [form[d] EXCEPT !.alert = "error"]
    OBVIOUS
  <2>2. /\ g.editing = form[d].editing /\ g.screen = form[d].screen
        /\ g.userName = form[d].userName /\ g.userEmail = form[d].userEmail
        /\ g.username = form[d].username /\ g.email = form[d].email
    BY <1>0, <2>1 DEF Form
  <2>3. form[d].screen = "signup" /\ (habit.careful => calls[d] = <<>>)
    BY <1>5 DEF FormError, OnForm, AtEase
  <2>4. ScreenOK(habit.careful, g, calls[d], currentUser[d])
    BY <1>0, <2>2, <2>3, AlertOrScreenSet
  <2> QED BY <1>5, <1>t, <2>1, <2>4, OneScreen DEF FormError, firebaseVars
<1>6. ASSUME NEW d \in Device, Dismiss(d)
      PROVE  AllScreensOK'
  <2>1. PICK g : g = [form[d] EXCEPT !.alert = "none"]
    OBVIOUS
  <2>2. /\ g.editing = form[d].editing /\ g.screen = form[d].screen /\ g.alert = "none"
        /\ g.userName = form[d].userName /\ g.userEmail = form[d].userEmail
        /\ g.username = form[d].username /\ g.email = form[d].email
    BY <1>0, <2>1 DEF Form
  <2>3. habit.careful => calls[d] = <<>> /\ form[d].screen = "signup"
    BY <1>0, <1>6 DEF Dismiss, ScreenOK
  <2>4. ScreenOK(habit.careful, g, calls[d], currentUser[d])
    BY <1>0, <2>2, <2>3, AlertOrScreenSet
  <2> QED BY <1>6, <1>t, <2>1, <2>4, OneScreen DEF Dismiss, firebaseVars
<1>7. ASSUME NEW d \in Device, Okay(d)
      PROVE  AllScreensOK'
  <2>1. PICK g : g = [form[d] EXCEPT !.alert = "none", !.screen = "home", !.home = currentUser[d]]
    OBVIOUS
  <2>2. /\ g.editing = form[d].editing /\ g.alert = "none" /\ g.home = currentUser[d]
        /\ g.userName = form[d].userName /\ g.userEmail = form[d].userEmail
        /\ g.username = form[d].username /\ g.email = form[d].email
    BY <1>0, <2>1 DEF Form
  <2>3. habit.careful => calls[d] = <<>>
    BY <1>0, <1>7 DEF Okay, ScreenOK
  <2>4. ScreenOK(habit.careful, g, calls[d], currentUser[d])
    BY <1>0, <2>2, <2>3, AlertOrScreenSet
  <2> QED BY <1>7, <1>t, <2>1, <2>4, OneScreen DEF Okay, firebaseVars
<1>8. ASSUME NEW d \in Device, LogInPressed(d)
      PROVE  AllScreensOK'
  <2>1. PICK c : c.kind = "signin" /\ calls' = [calls EXCEPT ![d] = Append(calls[d], c)]
    BY <1>8 DEF LogInPressed
  <2>2. calls'[d] = Append(calls[d], c) /\ \A e \in Device \ {d} : calls'[e] = calls[e]
    BY <1>t, <2>1
  <2>3. form[d].screen = "login" /\ (habit.careful => calls[d] = <<>>)
    BY <1>8 DEF LogInPressed, AtEase
  <2>4. habit.careful =>
          DOMAIN calls'[d] = {1} /\ calls'[d][1] = c /\ calls'[d] # <<>>
    <3>1. Append(<<>>, c) = <<c>> /\ DOMAIN <<c>> = {1} /\ <<c>>[1] = c
      OBVIOUS
    <3>2. <<c>> # <<>>
      OBVIOUS
    <3>3. ASSUME habit.careful
          PROVE  calls'[d] = <<c>>
      BY <2>2, <2>3, <3>1, <3>3, Zenon
    <3> QED BY <3>1, <3>2, <3>3, Zenon
  <2>5. ScreenOK(habit.careful, form[d], calls'[d], currentUser[d])
    BY <1>0, <2>1, <2>3, <2>4, ZenonT(30) DEF ScreenOK
  <2> QED BY <1>8, <2>2, <2>5, OneScreen DEF LogInPressed, firebaseVars
<1>9. ASSUME NEW d \in Device, GoToSignUp(d)
      PROVE  AllScreensOK'
  <2>1. PICK cs : /\ cs = [k \in DOMAIN calls[d] |-> [calls[d][k] EXCEPT !.covered = TRUE]]
                  /\ calls' = [calls EXCEPT ![d] = cs]
    BY <1>9 DEF GoToSignUp
  <2>2. calls'[d] = cs /\ \A e \in Device \ {d} : calls'[e] = calls[e]
    BY <1>t, <2>1
  <2>3. habit.careful => cs = <<>>
    BY <1>9, <2>1 DEF GoToSignUp, AtEase
  <2>4. ScreenOK(habit.careful, [FirstScreen EXCEPT !.screen = "signup"], cs, currentUser[d])
    BY <2>3, FirstScreenOK
  <2> QED BY <1>9, <1>t, <2>2, <2>4, OneScreen DEF GoToSignUp, firebaseVars
<1>10. ASSUME NEW d \in Device, GoToLogIn(d)
       PROVE  AllScreensOK'
  <2>1. PICK g : g = [form[d] EXCEPT !.screen = "login"]
    OBVIOUS
  <2>2. /\ g.editing = form[d].editing /\ g.screen = "login" /\ g.alert = form[d].alert
        /\ g.userName = form[d].userName /\ g.userEmail = form[d].userEmail
        /\ g.username = form[d].username /\ g.email = form[d].email
    BY <1>0, <2>1 DEF Form
  <2>3. form[d].alert = "none" /\ (habit.careful => calls[d] = <<>>)
    BY <1>10 DEF GoToLogIn, OnForm, AtEase
  <2>4. ScreenOK(habit.careful, g, calls[d], currentUser[d])
    BY <1>0, <2>2, <2>3, AlertOrScreenSet
  <2> QED BY <1>10, <1>t, <2>1, <2>4, OneScreen DEF GoToLogIn, firebaseVars
<1>11. ASSUME NEW d \in Device, NEW k \in DOMAIN calls[d], Register(d, k)
       PROVE  AllScreensOK'
  <2>1. PICK u \in Uid :
          calls' = [calls EXCEPT ![d] =
                         [calls[d] EXCEPT ![k] = [calls[d][k] EXCEPT !.uid = u]]]
    BY <1>11 DEF Register
  <2>2. calls[d][k] \in Call /\ calls[d][k].kind = "signup"
    BY <1>0, <1>11 DEF Register
  <2>3. PICK c : c = [calls[d][k] EXCEPT !.uid = u] /\ c.kind = "signup"
                 /\ c.profile = calls[d][k].profile
    <3>1. calls[d][k] \in SignUpCall
      BY <2>2, CallKinds
    <3>2. /\ [calls[d][k] EXCEPT !.uid = u].kind = "signup"
          /\ [calls[d][k] EXCEPT !.uid = u].profile = calls[d][k].profile
      BY <3>1, MadeCall
    <3> QED BY <3>2
  <2>4. calls'[d] = [calls[d] EXCEPT ![k] = c] /\ \A e \in Device \ {d} : calls'[e] = calls[e]
    BY <1>t, <2>1, <2>3
  <2>5. /\ DOMAIN calls'[d] = DOMAIN calls[d]
        /\ \A j \in DOMAIN calls[d] :
             calls'[d][j].kind = calls[d][j].kind
             /\ (calls[d][j].kind = "signup" => calls'[d][j].profile = calls[d][j].profile)
    BY <1>0, <2>2, <2>3, <2>4
  <2>6. calls[d] = <<>> => FALSE
    OBVIOUS
  <2>7. ScreenOK(habit.careful, form[d], calls'[d], currentUser[d])
    BY <1>0, <2>5, <2>6 DEF ScreenOK
  <2> QED BY <1>11, <2>4, <2>7, OneScreen DEF Register, firebaseVars
<1>12. ASSUME NEW d \in Device, NEW k \in DOMAIN calls[d], SignedUp(d, k)
       PROVE  AllScreensOK'
  <2>1. habit.careful => form[d].screen = "signup"
    BY <1>0, <1>12 DEF SignedUp, ScreenOK
  <2>2. ScreenOK(habit.careful, Alert(form[d], "welcome"), calls'[d], calls[d][k].uid)
    BY <1>0, <1>12, <2>1, AlertType, AnsweredOK DEF SignedUp
  <2>3. \A e \in Device \ {d} : calls'[e] = calls[e]
    BY <1>12, CallsLeft DEF SignedUp
  <2> QED BY <1>12, <1>t, <2>2, <2>3, OneScreen DEF SignedUp
<1>13. ASSUME NEW d \in Device, NEW k \in DOMAIN calls[d], SignUpFails(d, k)
       PROVE  AllScreensOK'
  <2>1. habit.careful => form[d].screen = "signup"
    BY <1>0, <1>13 DEF SignUpFails, ScreenOK
  <2>2. ScreenOK(habit.careful, Alert(form[d], "error"), calls'[d], currentUser[d])
    BY <1>0, <1>13, <2>1, AlertType, AnsweredOK DEF SignUpFails
  <2>3. \A e \in Device \ {d} : calls'[e] = calls[e]
    BY <1>13, CallsLeft DEF SignUpFails
  <2> QED BY <1>13, <1>t, <2>2, <2>3, OneScreen DEF SignUpFails, firebaseVars
<1>14. ASSUME NEW d \in Device, NEW k \in DOMAIN calls[d], SignedIn(d, k)
       PROVE  AllScreensOK'
  <2>1. PICK u \in Uid :
          /\ currentUser' = [currentUser EXCEPT ![d] = u]
          /\ form' = [form EXCEPT ![d] =
                        IF form[d].screen = "login" /\ ~calls[d][k].covered
                        THEN [form[d] EXCEPT !.screen = "home", !.home = u] ELSE form[d]]
    BY <1>14 DEF SignedIn
  <2>2. PICK g : /\ g = IF form[d].screen = "login" /\ ~calls[d][k].covered
                        THEN [form[d] EXCEPT !.screen = "home", !.home = u] ELSE form[d]
                 /\ form' = [form EXCEPT ![d] = g]
    BY <2>1
  <2>3. /\ g \in Form /\ g.editing = form[d].editing
        /\ g.userName = form[d].userName /\ g.userEmail = form[d].userEmail
        /\ g.username = form[d].username /\ g.email = form[d].email
        /\ g.alert = form[d].alert /\ ((g.screen = "home" /\ g.home = u) \/ g = form[d])
    <3>1. CASE form[d].screen = "login" /\ ~calls[d][k].covered
      <4>1. g = [form[d] EXCEPT !.screen = "home", !.home = u]
        BY <2>2, <3>1
      <4>2. g \in Form
        BY <1>0, <4>1, FormSet
      <4> QED BY <1>0, <4>1, <4>2 DEF Form
    <3>2. CASE ~(form[d].screen = "login" /\ ~calls[d][k].covered)
      BY <1>0, <2>2, <3>2
    <3> QED BY <3>1, <3>2
  <2>4. habit.careful => form[d].screen = "login" /\ form[d].alert = "none"
    BY <1>0, <1>14 DEF SignedIn, ScreenOK
  <2>5. calls' = [calls EXCEPT ![d] = RemoveAt(calls[d], k)]
    BY <1>14 DEF SignedIn
  <2>6. ScreenOK(habit.careful, g, calls'[d], u)
    BY <2>3, <2>4, <2>5, AnsweredOK
  <2>7. \A e \in Device \ {d} : calls'[e] = calls[e]
    BY <2>5, CallsLeft
  <2> QED BY <1>14, <1>t, <2>1, <2>2, <2>6, <2>7, OneScreen DEF SignedIn
<1>15. ASSUME NEW d \in Device, NEW k \in DOMAIN calls[d], SignInFails(d, k)
       PROVE  AllScreensOK'
  <2>1. habit.careful => form[d].screen = "login" /\ form[d].alert = "none"
    BY <1>0, <1>15 DEF SignInFails, ScreenOK
  <2>2. ScreenOK(habit.careful, form[d], calls'[d], currentUser[d])
    BY <1>0, <1>15, <2>1, AnsweredOK DEF SignInFails
  <2>3. \A e \in Device \ {d} : calls'[e] = calls[e]
    BY <1>15, CallsLeft DEF SignInFails
  <2> QED BY <1>15, <1>t, <2>2, <2>3, OneScreen DEF SignInFails, firebaseVars
<1>16. ASSUME NEW d \in Device, Kill(d)
       PROVE  AllScreensOK'
  <2>1. ScreenOK(habit.careful, FirstScreen, <<>>, currentUser[d])
    BY FirstScreenOK
  <2> QED BY <1>16, <1>t, <2>1, OneScreen DEF Kill, ProcessDies
<1>17. CASE UNCHANGED <<habit, form, calls, currentUser>>
  BY <1>17 DEF AllScreensOK
<1>18. ASSUME NEW d \in Device, Send(d) \/ Launch(d)
       PROVE  AllScreensOK'
  BY <1>17, <1>18 DEF Send, Launch, Commit, ProcessStarts, authVars
<1>19. CASE UNCHANGED vars
  BY <1>17, <1>19 DEF vars, authVars, firebaseVars
<1> QED BY <1>1, <1>2, <1>3, <1>4, <1>5, <1>6, <1>7, <1>8, <1>9, <1>10, <1>11, <1>12,
           <1>13, <1>14, <1>15, <1>16, <1>18, <1>19 DEF Next, Returns

LEMMA ScreensInit == Init => AllScreensOK
  BY FirstScreenOK DEF Init, AllScreensOK

\* The home screen of careful users stays with the user it was opened for:
\* no answer that comes late signs another user in below it.
THEOREM HomeAlwaysMine == Spec => []HomeStaysMine
<1>1. TypeOK /\ AllScreensOK => HomeStaysMine
  BY DEF AllScreensOK, ScreenOK, HomeStaysMine
<1>2. Spec => [](TypeOK /\ AllScreensOK)
  BY TypeInit, TypeStep, ScreensInit, ScreensStep, PTL DEF Spec
<1> QED BY <1>1, <1>2, PTL

-----------------------------------------------------------------------------
(* Accounts, the calls that make them and what is written for them         *)

AccountsOK == OneCallEach /\ CallsComeFirst /\ AccountsComeFirst

LEMMA NoCallForNoId ==
  ASSUME NEW d \in Device, NEW k, NEW u \in Uid, calls[d][k].uid = NoId
  PROVE  ~Made(d, k, u)
  BY FirebaseAssumption DEF Made

\* No step of the user, and no answer that fails or signs a user in, leaves a
\* call with an account that was not among the calls before: m tells where.
NothingNew(d, m) ==
  \A j \in DOMAIN calls'[d], u \in Uid :
    Made(d, j, u)' => /\ m[j] \in DOMAIN calls[d]
                      /\ Made(d, m[j], u)
                      /\ calls'[d][j].profile = calls[d][m[j]].profile

LEMMA QuietStep ==
  ASSUME AccountsOK, NEW d \in Device, NEW m, NothingNew(d, m),
         \A j, k \in DOMAIN calls'[d] : m[j] = m[k] => j = k,
         \A e \in Device \ {d} : calls'[e] = calls[e],
         UNCHANGED <<accounts, users, pending>>
  PROVE  AccountsOK'
<1> DEFINE M(e) == [j \in DOMAIN calls'[e] |-> IF e = d THEN m[j] ELSE j]
<1>1. ASSUME NEW e \in Device, NEW j \in DOMAIN calls'[e], NEW u \in Uid, Made(e, j, u)'
      PROVE  /\ M(e)[j] \in DOMAIN calls[e] /\ Made(e, M(e)[j], u)
             /\ calls'[e][j].profile = calls[e][M(e)[j]].profile
  <2>1. CASE e = d
    BY <1>1, <2>1 DEF NothingNew
  <2>2. CASE e # d
    BY <1>1, <2>2 DEF Made
  <2> QED BY <2>1, <2>2
<1>2. ASSUME NEW e \in Device, NEW j \in DOMAIN calls'[e], NEW k \in DOMAIN calls'[e],
             M(e)[j] = M(e)[k]
      PROVE  j = k
  BY <1>2
<1> HIDE DEF M
<1>3. OneCallEach'
  <2>1. ASSUME NEW u \in Uid, NEW e \in Device, NEW f \in Device,
               NEW j \in DOMAIN calls'[e], NEW k \in DOMAIN calls'[f],
               Made(e, j, u)', Made(f, k, u)'
        PROVE  e = f /\ j = k
    <3>1. /\ M(e)[j] \in DOMAIN calls[e] /\ Made(e, M(e)[j], u)
          /\ M(f)[k] \in DOMAIN calls[f] /\ Made(f, M(f)[k], u)
      BY <1>1, <2>1
    <3>2. e = f /\ M(e)[j] = M(f)[k]
      BY <3>1 DEF AccountsOK, OneCallEach
    <3> QED BY <1>2, <3>2
  <2> QED BY <2>1 DEF OneCallEach
<1>4. CallsComeFirst'
  BY <1>1 DEF AccountsOK, CallsComeFirst
<1>5. AccountsComeFirst'
  BY <1>1 DEF AccountsOK, AccountsComeFirst
<1> QED BY <1>3, <1>4, <1>5 DEF AccountsOK

LEMMA PlacesDiffer ==
  ASSUME NEW k \in Nat, NEW i \in Nat, NEW j \in Nat, Place(i, k) = Place(j, k)
  PROVE  i = j
  BY DEF Place

LEMMA AnswerLeavesCalls ==
  ASSUME TypeOK, AccountsOK, NEW d \in Device, NEW k \in DOMAIN calls[d],
         calls' = [calls EXCEPT ![d] = RemoveAt(calls[d], k)],
         UNCHANGED <<accounts, users, pending>>
  PROVE  AccountsOK'
<1> DEFINE m == [j \in DOMAIN calls'[d] |-> Place(j, k)]
<1>1. \A j \in DOMAIN calls'[d] :
        /\ j \in Nat /\ m[j] \in DOMAIN calls[d] /\ calls'[d][j] = calls[d][m[j]]
        /\ m[j] = Place(j, k)
  <2>1. \A j \in DOMAIN calls'[d] :
          j \in Nat /\ Place(j, k) \in DOMAIN calls[d] /\ calls'[d][j] = calls[d][Place(j, k)]
    BY CallsLeft, ZenonT(30)
  <2>2. \A j \in DOMAIN calls'[d] : m[j] = Place(j, k)
    OBVIOUS
  <2> QED BY <2>1, <2>2, Zenon
<1>2. k \in Nat
  BY DEF TypeOK
<1> HIDE DEF m
<1>3. \A i, j \in DOMAIN calls'[d] : m[i] = m[j] => i = j
  BY <1>1, <1>2, PlacesDiffer
<1>4. NothingNew(d, m)
  BY <1>1 DEF NothingNew, Made
<1>5. \A e \in Device \ {d} : calls'[e] = calls[e]
  BY CallsLeft
<1> QED BY <1>3, <1>4, <1>5, QuietStep

LEMMA NewCallIsNotMade ==
  ASSUME TypeOK, AccountsOK, NEW d \in Device, NEW c,
         calls' = [calls EXCEPT ![d] = Append(calls[d], c)],
         c.kind = "signin" \/ c.uid = NoId,
         UNCHANGED <<accounts, users, pending>>
  PROVE  AccountsOK'
<1> DEFINE m == [j \in DOMAIN calls'[d] |-> j]
<1>1. calls[d] \in Seq(Call) /\ calls'[d] = Append(calls[d], c)
      /\ \A e \in Device \ {d} : calls'[e] = calls[e]
  BY DEF TypeOK, Call
<1>2. \A j \in DOMAIN calls'[d] :
        (j \in DOMAIN calls[d] /\ calls'[d][j] = calls[d][j]) \/ calls'[d][j] = c
  BY <1>1
<1>3. \A j \in DOMAIN calls'[d] : m[j] = j
  OBVIOUS
<1> HIDE DEF m
<1>4. NothingNew(d, m)
  BY <1>2, <1>3, FirebaseAssumption DEF NothingNew, Made
<1> QED BY <1>1, <1>3, <1>4, QuietStep

\* Auth makes the account of u, of which nobody has heard.
LEMMA RegisterAccounts ==
  ASSUME TypeOK, AccountsOK, NEW d \in Device, NEW k \in DOMAIN calls[d], Register(d, k)
  PROVE  /\ AccountsOK'
         /\ \E u \in Uid :
              /\ accounts[u] = Missing
              /\ \A v \in Uid \ {u} : accounts'[v] = accounts[v]
<1>1. PICK u \in Uid :
        /\ calls[d][k].kind = "signup" /\ calls[d][k].uid = NoId
        /\ accounts[u] = Missing
        /\ accounts' = [accounts EXCEPT ![u] = calls[d][k].profile]
        /\ calls' = [calls EXCEPT ![d] =
                       [calls[d] EXCEPT ![k] = [calls[d][k] EXCEPT !.uid = u]]]
  BY DEF Register
<1>2. calls[d] \in Seq(Call) /\ calls[d][k] \in Call /\ calls \in [Device -> Seq(Call)]
  BY DEF TypeOK, Call
<1>3. calls[d][k] \in SignUpCall /\ calls[d][k].profile \in Profile
  BY <1>1, <1>2, CallKinds
<1>4. PICK c : c = [calls[d][k] EXCEPT !.uid = u]
  OBVIOUS
<1>5. c.kind = "signup" /\ c.uid = u /\ c.profile = calls[d][k].profile
  BY <1>3, <1>4, MadeCall
<1>6. calls' = [calls EXCEPT ![d] = [calls[d] EXCEPT ![k] = c]]
  BY <1>1, <1>4
<1>7. /\ DOMAIN calls'[d] = DOMAIN calls[d] /\ calls'[d][k] = c
      /\ \A j \in DOMAIN calls[d] \ {k} : calls'[d][j] = calls[d][j]
      /\ \A e \in Device \ {d} : calls'[e] = calls[e]
  BY <1>2, <1>6
<1>8. /\ accounts'[u] = calls[d][k].profile /\ calls[d][k].profile # Missing
      /\ \A v \in Uid \ {u} : accounts'[v] = accounts[v]
  BY <1>1, <1>3, FirebaseAssumption DEF TypeOK, Profile
<1>9. \A e \in Device : \A j \in DOMAIN calls[e] : ~Made(e, j, u)
  BY <1>1 DEF AccountsOK, AccountsComeFirst
<1>10. ASSUME NEW e \in Device, NEW j \in DOMAIN calls'[e], NEW v \in Uid, Made(e, j, v)'
       PROVE  /\ j \in DOMAIN calls[e]
              /\ \/ e = d /\ j = k /\ v = u
                 \/ v # u /\ Made(e, j, v) /\ calls'[e][j] = calls[e][j]
  <2>1. CASE e = d /\ j = k
    BY <1>5, <1>7, <1>10, <2>1 DEF Made
  <2>2. CASE ~(e = d /\ j = k)
    <3>1. j \in DOMAIN calls[e] /\ calls'[e][j] = calls[e][j]
      BY <1>7, <2>2
    <3> QED BY <1>9, <1>10, <3>1 DEF Made
  <2> QED BY <2>1, <2>2
<1>11. OneCallEach'
  BY <1>10 DEF AccountsOK, OneCallEach
<1>12. UNCHANGED <<users, pending>>
  BY DEF Register, firebaseVars
<1>13. CallsComeFirst'
  <2>1. \A e \in Device : \A j \in DOMAIN pending[e] :
          pending[e][j].node = "items" \/ pending[e][j].uid # u
    BY <1>1 DEF AccountsOK, AccountsComeFirst
  <2>2. ASSUME NEW v \in Uid, NEW e \in Device, NEW f \in Device,
               NEW j \in DOMAIN calls'[e], NEW i \in DOMAIN pending[f], Made(e, j, v)'
        PROVE  pending[f][i].node = "items" \/ pending[f][i].uid # v
    <3>1. CASE v = u
      BY <2>1, <3>1
    <3>2. CASE v # u
      BY <1>10, <2>2, <3>2 DEF AccountsOK, CallsComeFirst
    <3> QED BY <3>1, <3>2
  <2> QED BY <1>12, <2>2 DEF CallsComeFirst
<1>14. AccountsComeFirst'
  <2>1. ASSUME NEW v \in Uid, NEW e \in Device, NEW j \in DOMAIN calls'[e], Made(e, j, v)'
        PROVE  accounts'[v] # Missing /\ accounts'[v] = calls'[e][j].profile
    <3>1. CASE e = d /\ j = k /\ v = u
      BY <1>5, <1>7, <1>8, <3>1
    <3>2. CASE v # u /\ Made(e, j, v) /\ calls'[e][j] = calls[e][j]
      BY <1>8, <1>10, <2>1, <3>2 DEF AccountsOK, AccountsComeFirst
    <3> QED BY <1>10, <2>1, <3>1, <3>2
  <2>2. \A v \in Uid : accounts[v] # Missing => accounts'[v] # Missing
    BY <1>1, <1>8
  <2> QED BY <1>12, <2>1, <2>2 DEF AccountsOK, AccountsComeFirst
<1> QED BY <1>1, <1>8, <1>11, <1>13, <1>14 DEF AccountsOK

LEMMA ConcatFour ==
  ASSUME NEW S, NEW s \in Seq(S), NEW t \in Seq(S), Len(t) = 4
  PROVE  /\ DOMAIN s = 1 .. Len(s) /\ Len(s) \in Nat
         /\ DOMAIN (s \o t) = 1 .. Len(s) + 4
         /\ \A k \in 1 .. Len(s) : (s \o t)[k] = s[k]
         /\ (s \o t)[Len(s) + 1] = t[1]
         /\ (s \o t)[Len(s) + 2] = t[2]
         /\ (s \o t)[Len(s) + 3] = t[3]
         /\ (s \o t)[Len(s) + 4] = t[4]
<1>1. Len(s) \in Nat /\ DOMAIN s = 1 .. Len(s)
  OBVIOUS
<1>2. /\ s \o t \in Seq(S) /\ Len(s \o t) = Len(s) + 4
      /\ \A k \in 1 .. Len(s) + 4 :
           (s \o t)[k] = IF k <= Len(s) THEN s[k] ELSE t[k - Len(s)]
  <2>1. /\ s \o t \in Seq(S) /\ Len(s \o t) = Len(s) + Len(t)
        /\ \A k \in 1 .. Len(s) + Len(t) :
             (s \o t)[k] = IF k <= Len(s) THEN s[k] ELSE t[k - Len(s)]
    BY ConcatProperties, Zenon
  <2> QED BY <2>1, Zenon
<1>3. DOMAIN (s \o t) = 1 .. Len(s) + 4
  BY <1>2
<1> QED BY <1>1, <1>2, <1>3

\* q is p and the four writes for the new user u, after the first n.
NewUserAdded(p, q, n, d, u, i) ==
  /\ n \in Nat /\ DOMAIN p = 1 .. n /\ DOMAIN q = 1 .. n + 4
  /\ \A j \in 1 .. n : q[j] = p[j]
  /\ q[n + 1] = [node |-> "items", id |-> i]
  /\ q[n + 2] = NewProfile(d, u)
  /\ q[n + 3] = [node |-> "friendList", uid |-> u, value |-> <<u>>]
  /\ q[n + 4] = [node |-> "itemList", uid |-> u, value |-> <<i>>]

LEMMA SignedUpWrites ==
  ASSUME TypeOK, NEW d \in Device, NEW k \in DOMAIN calls[d], SignedUp(d, k)
  PROVE  /\ \E n \in Nat, i \in ItemId :
              NewUserAdded(pending[d], pending'[d], n, d, calls[d][k].uid, i)
         /\ \A e \in Device \ {d} : pending'[e] = pending[e]
<1>1. PICK i \in FreshItems : Issue(d, NewUserWrites(d, calls[d][k].uid, i))
  BY DEF SignedUp
<1>2. i \in ItemId /\ calls[d][k].uid \in Uid
  BY <1>1 DEF FreshItems, SignedUp
<1>3. PICK ws : ws = NewUserWrites(d, calls[d][k].uid, i)
  OBVIOUS
<1>4. ws \in Seq(Write) /\ Len(ws) = 4
  BY <1>2, <1>3, NewUserWritesType
<1>5. pending' = [pending EXCEPT ![d] = pending[d] \o ws]
  BY <1>1, <1>3 DEF Issue
<1>6. pending \in [Device -> Seq(Write)] /\ pending[d] \in Seq(Write)
  BY DEF TypeOK, FirebaseTypeOK
<1>7. pending'[d] = pending[d] \o ws /\ \A e \in Device \ {d} : pending'[e] = pending[e]
  BY <1>5, <1>6
<1>8. /\ ws[1] = [node |-> "items", id |-> i]
      /\ ws[2] = NewProfile(d, calls[d][k].uid)
      /\ ws[3] = [node |-> "friendList", uid |-> calls[d][k].uid, value |-> <<calls[d][k].uid>>]
      /\ ws[4] = [node |-> "itemList", uid |-> calls[d][k].uid, value |-> <<i>>]
  BY <1>3 DEF NewUserWrites
<1>9. NewUserAdded(pending[d], pending'[d], Len(pending[d]), d, calls[d][k].uid, i)
  <2>1. PICK p \in Seq(Write) : p = pending[d]
    BY <1>6
  <2>2. PICK q : q = p \o ws
    OBVIOUS
  <2>3. /\ Len(p) \in Nat /\ DOMAIN p = 1 .. Len(p) /\ DOMAIN q = 1 .. Len(p) + 4
        /\ \A j \in 1 .. Len(p) : q[j] = p[j]
        /\ q[Len(p) + 1] = ws[1] /\ q[Len(p) + 2] = ws[2]
        /\ q[Len(p) + 3] = ws[3] /\ q[Len(p) + 4] = ws[4]
    BY ONLY <1>4, <2>1, <2>2, ConcatFour, SMTT(20)
  <2>4. NewUserAdded(p, q, Len(p), d, calls[d][k].uid, i)
    BY <1>8, <2>3 DEF NewUserAdded
  <2> QED BY <1>7, <2>1, <2>2, <2>4
<1>10. Len(pending[d]) \in Nat
  BY <1>6
<1> QED BY <1>2, <1>7, <1>9, <1>10

\* What is on the way after a sign-up was on the way before or names the user.
LEMMA AddedWrite ==
  ASSUME NEW p, NEW q, NEW n, NEW d, NEW u, NEW i, NewUserAdded(p, q, n, d, u, i),
         NEW j \in DOMAIN q
  PROVE  \/ j \in DOMAIN p /\ q[j] = p[j]
         \/ j = n + 1 /\ q[j].node = "items"
         \/ j = n + 2 /\ q[j].node = "profile" /\ q[j].uid = u
         \/ j = n + 3 /\ q[j].node = "friendList" /\ q[j].uid = u
         \/ j = n + 4 /\ q[j].node = "itemList" /\ q[j].uid = u
<1>1. n \in Nat /\ DOMAIN q = 1 .. n + 4 /\ DOMAIN p = 1 .. n
  BY DEF NewUserAdded
<1>2. j \in 1 .. n \/ j = n + 1 \/ j = n + 2 \/ j = n + 3 \/ j = n + 4
  BY <1>1
<1>3. CASE j \in 1 .. n
  BY <1>1, <1>3 DEF NewUserAdded
<1>4. CASE j = n + 1
  BY <1>4 DEF NewUserAdded
<1>5. CASE j = n + 2
  BY <1>5 DEF NewUserAdded, NewProfile
<1>6. CASE j = n + 3
  BY <1>6 DEF NewUserAdded
<1>7. CASE j = n + 4
  BY <1>7 DEF NewUserAdded
<1> QED BY <1>2, <1>3, <1>4, <1>5, <1>6, <1>7

LEMMA SignedUpAccounts ==
  ASSUME TypeOK, AccountsOK, NEW d \in Device, NEW k \in DOMAIN calls[d], SignedUp(d, k)
  PROVE  AccountsOK'
<1> DEFINE u == calls[d][k].uid
<1>1. /\ u \in Uid /\ Made(d, k, u) /\ UNCHANGED <<users, accounts>>
      /\ calls' = [calls EXCEPT ![d] = RemoveAt(calls[d], k)]
  BY DEF SignedUp, Made
<1>2. PICK n \in Nat, i \in ItemId : NewUserAdded(pending[d], pending'[d], n, d, u, i)
  BY SignedUpWrites
<1>3. \A e \in Device \ {d} : pending'[e] = pending[e] /\ calls'[e] = calls[e]
  BY <1>1, SignedUpWrites, CallsLeft
<1>4. k \in Nat
  BY DEF TypeOK
<1>5. ASSUME NEW j \in DOMAIN calls'[d]
      PROVE  /\ j \in Nat /\ Place(j, k) \in DOMAIN calls[d] /\ Place(j, k) # k
             /\ calls'[d][j] = calls[d][Place(j, k)]
  <2>1. /\ j \in Nat /\ Place(j, k) \in DOMAIN calls[d]
        /\ calls'[d][j] = calls[d][Place(j, k)]
    BY <1>1, CallsLeft, ZenonT(30)
  <2>2. Place(j, k) # k
    BY <1>4, <2>1 DEF Place
  <2> QED BY <2>1, <2>2
<1> DEFINE M(e, j) == IF e = d THEN Place(j, k) ELSE j
<1>6. ASSUME NEW e \in Device, NEW j \in DOMAIN calls'[e], NEW v \in Uid, Made(e, j, v)'
      PROVE  /\ M(e, j) \in DOMAIN calls[e] /\ Made(e, M(e, j), v) /\ v # u
             /\ calls'[e][j].profile = calls[e][M(e, j)].profile
  <2>1. /\ M(e, j) \in DOMAIN calls[e] /\ calls'[e][j] = calls[e][M(e, j)]
        /\ ~(e = d /\ M(e, j) = k)
    BY <1>3, <1>5
  <2>2. Made(e, M(e, j), v)
    BY <1>6, <2>1 DEF Made
  <2>3. v # u
    BY <1>1, <2>1, <2>2 DEF AccountsOK, OneCallEach
  <2> QED BY <2>1, <2>2, <2>3
<1>7. ASSUME NEW e \in Device, NEW i1 \in DOMAIN calls'[e], NEW j \in DOMAIN calls'[e],
             M(e, i1) = M(e, j)
      PROVE  i1 = j
  BY <1>4, <1>5, <1>7, PlacesDiffer
<1> HIDE DEF M, u
<1>8. ASSUME NEW e \in Device, NEW j \in DOMAIN pending'[e]
      PROVE  \/ j \in DOMAIN pending[e] /\ pending'[e][j] = pending[e][j]
             \/ pending'[e][j].node = "items"
             \/ pending'[e][j].uid = u
  BY <1>2, <1>3, AddedWrite
<1>9. OneCallEach'
  <2>1. ASSUME NEW v \in Uid, NEW e \in Device, NEW f \in Device,
               NEW j \in DOMAIN calls'[e], NEW l \in DOMAIN calls'[f],
               Made(e, j, v)', Made(f, l, v)'
        PROVE  e = f /\ j = l
    <3>1. /\ M(e, j) \in DOMAIN calls[e] /\ Made(e, M(e, j), v)
          /\ M(f, l) \in DOMAIN calls[f] /\ Made(f, M(f, l), v)
      BY <1>6, <2>1
    <3>2. e = f /\ M(e, j) = M(f, l)
      BY <3>1 DEF AccountsOK, OneCallEach
    <3> QED BY <1>7, <3>2
  <2> QED BY <2>1 DEF OneCallEach
<1>10. CallsComeFirst'
  <2>1. ASSUME NEW v \in Uid, NEW e \in Device, NEW f \in Device,
               NEW j \in DOMAIN calls'[e], NEW l \in DOMAIN pending'[f], Made(e, j, v)'
        PROVE  pending'[f][l].node = "items" \/ pending'[f][l].uid # v
    <3>1. v # u /\ M(e, j) \in DOMAIN calls[e] /\ Made(e, M(e, j), v)
      BY <1>6, <2>1
    <3>2. CASE l \in DOMAIN pending[f] /\ pending'[f][l] = pending[f][l]
      BY <3>1, <3>2 DEF AccountsOK, CallsComeFirst
    <3> QED BY <1>8, <3>1, <3>2
  <2> QED BY <2>1 DEF CallsComeFirst
<1>11. AccountsComeFirst'
  <2>1. accounts[u] # Missing
    BY <1>1 DEF AccountsOK, AccountsComeFirst
  <2>2. \A v \in Uid, e \in Device : \A j \in DOMAIN calls'[e] :
          Made(e, j, v)' => accounts'[v] # Missing /\ accounts'[v] = calls'[e][j].profile
    BY <1>1, <1>6 DEF AccountsOK, AccountsComeFirst
  <2>3. \A v \in Uid, e \in Device : \A j \in DOMAIN pending'[e] :
          pending'[e][j].node # "items" /\ pending'[e][j].uid = v => accounts'[v] # Missing
    BY <1>1, <1>8, <2>1 DEF AccountsOK, AccountsComeFirst
  <2> QED BY <1>1, <2>2, <2>3 DEF AccountsOK, AccountsComeFirst
<1> QED BY <1>9, <1>10, <1>11 DEF AccountsOK

\* The server takes the first unsent write of d, and the others move up.
LEMMA SentWrite ==
  ASSUME TypeOK, NEW d \in Device, Send(d)
  PROVE  /\ 1 \in DOMAIN pending[d] /\ pending[d][1] \in Write
         /\ \A u \in Uid : users'[u] = Written(pending[d][1], u, users[u])
         /\ items' = IF pending[d][1].node = "items" THEN items \cup {pending[d][1].id}
                                                     ELSE items
         /\ \A k \in DOMAIN pending'[d] :
              k \in Nat \ {0} /\ k + 1 \in DOMAIN pending[d] /\ pending'[d][k] = pending[d][k + 1]
         /\ \A k \in DOMAIN pending[d] :
              k > 1 => k - 1 \in DOMAIN pending'[d] /\ pending'[d][k - 1] = pending[d][k]
         /\ \A e \in Device \ {d} : pending'[e] = pending[e]
<1>1. pending \in [Device -> Seq(Write)] /\ pending[d] \in Seq(Write) /\ pending[d] # <<>>
  BY DEF TypeOK, FirebaseTypeOK, Send, Commit
<1>2. 1 \in DOMAIN pending[d] /\ pending[d][1] \in Write /\ Head(pending[d]) = pending[d][1]
  BY <1>1
<1>3. /\ users' = [u \in Uid |-> Written(pending[d][1], u, users[u])]
      /\ items' = IF pending[d][1].node = "items" THEN items \cup {pending[d][1].id} ELSE items
      /\ pending' = [pending EXCEPT ![d] = Tail(pending[d])]
  BY <1>2 DEF Send, Commit
<1>4. pending'[d] = Tail(pending[d]) /\ \A e \in Device \ {d} : pending'[e] = pending[e]
  BY <1>1, <1>3
<1>5. \A k \in DOMAIN pending'[d] :
        k \in Nat \ {0} /\ k + 1 \in DOMAIN pending[d] /\ pending'[d][k] = pending[d][k + 1]
  BY <1>1, <1>4
<1>6. \A k \in DOMAIN pending[d] :
        k > 1 => k - 1 \in DOMAIN pending'[d] /\ pending'[d][k - 1] = pending[d][k]
  BY <1>1, <1>4
<1> QED BY <1>2, <1>3, <1>4, <1>5, <1>6

\* What a write leaves of the record of u.
LEMMA WrittenRecord ==
  ASSUME NEW w \in Write, NEW u \in Uid, NEW r \in Record
  PROVE  /\ w.node = "items" \/ w.uid # u => Written(w, u, r) = r
         /\ w.node = "profile" /\ w.uid = u =>
              /\ Written(w, u, r).profile = w.value
              /\ Written(w, u, r).friendList = Missing /\ Written(w, u, r).itemList = Missing
         /\ w.node = "friendList" /\ w.uid = u =>
              /\ Written(w, u, r).profile = r.profile
              /\ Written(w, u, r).friendList = w.value
              /\ Written(w, u, r).itemList = r.itemList
         /\ w.node = "itemList" /\ w.uid = u =>
              /\ Written(w, u, r).profile = r.profile
              /\ Written(w, u, r).friendList = r.friendList
              /\ Written(w, u, r).itemList = w.value
  BY DEF Written, Record

LEMMA SendAccounts ==
  ASSUME TypeOK, AccountsOK, NEW d \in Device, Send(d)
  PROVE  AccountsOK'
<1>1. UNCHANGED <<accounts, calls>>
  BY DEF Send, authVars
<1>2. ASSUME NEW e \in Device, NEW j \in DOMAIN pending'[e]
      PROVE  \E k \in DOMAIN pending[e] : pending'[e][j] = pending[e][k]
  <2>1. CASE e = d
    BY <2>1, SentWrite
  <2>2. CASE e # d
    BY <2>2, SentWrite
  <2> QED BY <2>1, <2>2
<1>3. OneCallEach'
  BY <1>1 DEF AccountsOK, OneCallEach, Made
<1>4. CallsComeFirst'
  BY <1>1, <1>2 DEF AccountsOK, CallsComeFirst, Made
<1>5. ASSUME NEW u \in Uid, users'[u].profile # Missing
      PROVE  accounts[u] # Missing
  <2>1. /\ pending[d][1] \in Write /\ users[u] \in Record /\ 1 \in DOMAIN pending[d]
        /\ users'[u] = Written(pending[d][1], u, users[u])
    BY SentWrite DEF TypeOK, FirebaseTypeOK
  <2>2. CASE pending[d][1].node # "items" /\ pending[d][1].uid = u
    BY <2>1, <2>2 DEF AccountsOK, AccountsComeFirst
  <2>3. CASE ~(pending[d][1].node # "items" /\ pending[d][1].uid = u)
    BY <1>5, <2>1, <2>3, WrittenRecord DEF AccountsOK, AccountsComeFirst
  <2> QED BY <2>2, <2>3
<1>6. AccountsComeFirst'
  BY <1>1, <1>2, <1>5 DEF AccountsOK, AccountsComeFirst, Made
<1> QED BY <1>3, <1>4, <1>6 DEF AccountsOK

\* Nothing is left of a process that dies, and the other devices go on.
LEMMA KillLeaves ==
  ASSUME TypeOK, NEW d \in Device, Kill(d)
  PROVE  /\ calls'[d] = <<>> /\ pending'[d] = <<>> /\ UNCHANGED <<users, items, accounts, habit>>
         /\ \A e \in Device \ {d} : pending'[e] = pending[e] /\ calls'[e] = calls[e]
  BY DEF TypeOK, FirebaseTypeOK, Kill, ProcessDies

LEMMA KillAccounts ==
  ASSUME TypeOK, AccountsOK, NEW d \in Device, Kill(d)
  PROVE  AccountsOK'
<1>1. ASSUME NEW e \in Device
      PROVE  /\ \A j \in DOMAIN calls'[e] : e # d /\ j \in DOMAIN calls[e] /\ calls'[e] = calls[e]
             /\ \A j \in DOMAIN pending'[e] :
                  e # d /\ j \in DOMAIN pending[e] /\ pending'[e] = pending[e]
  <2>1. DOMAIN <<>> = {}
    OBVIOUS
  <2> QED BY <2>1, KillLeaves
<1>2. UNCHANGED <<users, accounts>>
  BY KillLeaves
<1>3. OneCallEach'
  BY <1>1 DEF AccountsOK, OneCallEach, Made
<1>4. CallsComeFirst'
  BY <1>1 DEF AccountsOK, CallsComeFirst, Made
<1>5. AccountsComeFirst'
  BY <1>1, <1>2 DEF AccountsOK, AccountsComeFirst, Made
<1> QED BY <1>3, <1>4, <1>5 DEF AccountsOK

LEMMA GoToSignUpAccounts ==
  ASSUME TypeOK, AccountsOK, NEW d \in Device, GoToSignUp(d)
  PROVE  AccountsOK'
<1>1. PICK cs : /\ cs = [k \in DOMAIN calls[d] |-> [calls[d][k] EXCEPT !.covered = TRUE]]
                /\ calls' = [calls EXCEPT ![d] = cs]
  BY DEF GoToSignUp
<1>2. calls'[d] = cs /\ \A e \in Device \ {d} : calls'[e] = calls[e]
  BY <1>1 DEF TypeOK
<1>3. ASSUME NEW k \in DOMAIN cs
      PROVE  cs[k].kind = "signin"
  <2>1. k \in DOMAIN calls[d] /\ cs[k] = [calls[d][k] EXCEPT !.covered = TRUE]
    BY <1>1
  <2>2. calls[d][k] \in Call /\ calls[d][k].kind = "signin"
    BY <2>1 DEF GoToSignUp, TypeOK, Call
  <2>3. calls[d][k] \in SignInCall
    BY <2>2, CallKinds
  <2>4. [calls[d][k] EXCEPT !.covered = TRUE].kind = "signin"
    BY <2>3, CoveredCall
  <2> QED BY <2>1, <2>4
<1> DEFINE m == [j \in DOMAIN calls'[d] |-> j]
<1>4. \A j \in DOMAIN calls'[d] : m[j] = j
  OBVIOUS
<1> HIDE DEF m
<1>5. NothingNew(d, m)
  BY <1>2, <1>3 DEF NothingNew, Made
<1>6. UNCHANGED <<accounts, users, pending>>
  BY DEF GoToSignUp, firebaseVars
<1> QED BY <1>2, <1>4, <1>5, <1>6, QuietStep

LEMMA AccountsStep ==
  ASSUME TypeOK, AccountsOK, [Next]_vars
  PROVE  AccountsOK'
<1>1. CASE UNCHANGED <<accounts, users, pending, calls>>
  BY <1>1 DEF AccountsOK, OneCallEach, CallsComeFirst, AccountsComeFirst, Made
<1>2. ASSUME NEW d \in Device,
             \/ EditUsername(d) \/ EditEmail(d) \/ EndEditing(d) \/ FormError(d) \/ Dismiss(d)
             \/ Okay(d) \/ GoToLogIn(d) \/ Launch(d)
      PROVE  AccountsOK'
  BY <1>1, <1>2 DEF EditUsername, EditEmail, EndEditing, FormError, Dismiss, Okay, GoToLogIn,
                    Launch, ProcessStarts, firebaseVars, authVars
<1>3. ASSUME NEW d \in Device, SignUpPressed(d)
      PROVE  AccountsOK'
  <2>1. PICK c : c.uid = NoId /\ calls' = [calls EXCEPT ![d] = Append(calls[d], c)]
    BY <1>3 DEF SignUpPressed
  <2> QED BY <1>3, <2>1, NewCallIsNotMade DEF SignUpPressed, firebaseVars
<1>4. ASSUME NEW d \in Device, LogInPressed(d)
      PROVE  AccountsOK'
  <2>1. PICK c : c.kind = "signin" /\ calls' = [calls EXCEPT ![d] = Append(calls[d], c)]
    BY <1>4 DEF LogInPressed
  <2> QED BY <1>4, <2>1, NewCallIsNotMade DEF LogInPressed, firebaseVars
<1>5. ASSUME NEW d \in Device, GoToSignUp(d)
      PROVE  AccountsOK'
  BY <1>5, GoToSignUpAccounts
<1>6. ASSUME NEW d \in Device, NEW k \in DOMAIN calls[d], Register(d, k)
      PROVE  AccountsOK'
  BY <1>6, RegisterAccounts
<1>7. ASSUME NEW d \in Device, NEW k \in DOMAIN calls[d], SignedUp(d, k)
      PROVE  AccountsOK'
  BY <1>7, SignedUpAccounts
<1>8. ASSUME NEW d \in Device, NEW k \in DOMAIN calls[d],
             SignUpFails(d, k) \/ SignedIn(d, k) \/ SignInFails(d, k)
      PROVE  AccountsOK'
  <2>1. /\ calls' = [calls EXCEPT ![d] = RemoveAt(calls[d], k)]
        /\ UNCHANGED <<accounts, users, pending>>
    BY <1>8 DEF SignUpFails, SignedIn, SignInFails, firebaseVars
  <2> QED BY <2>1, AnswerLeavesCalls
<1>9. ASSUME NEW d \in Device, Send(d)
      PROVE  AccountsOK'
  BY <1>9, SendAccounts
<1>10. ASSUME NEW d \in Device, Kill(d)
       PROVE  AccountsOK'
  BY <1>10, KillAccounts
<1>11. CASE UNCHANGED vars
  BY <1>1, <1>11 DEF vars, authVars, firebaseVars
<1> QED BY <1>2, <1>3, <1>4, <1>5, <1>6, <1>7, <1>8, <1>9, <1>10, <1>11 DEF Next, Returns

LEMMA AccountsInit == Init => AccountsOK
<1>1. DOMAIN <<>> = {}
  OBVIOUS
<1> QED BY <1>1 DEF Init, AccountsOK, OneCallEach, CallsComeFirst, AccountsComeFirst, EmptyRecord

-----------------------------------------------------------------------------
(* The order in which a record fills                                       *)

FillsOK == ProfilesComeFirst /\ ListsFollow /\ RecordsFill

LEMMA SignedUpFills ==
  ASSUME TypeOK, AccountsOK, FillsOK,
         NEW d \in Device, NEW k \in DOMAIN calls[d], SignedUp(d, k)
  PROVE  FillsOK'
<1> DEFINE u == calls[d][k].uid
<1>1. u \in Uid /\ Made(d, k, u) /\ UNCHANGED <<users, items>>
  BY DEF SignedUp, Made
<1>2. PICK n \in Nat, i \in ItemId : NewUserAdded(pending[d], pending'[d], n, d, u, i)
  BY SignedUpWrites
<1>3. \A e \in Device \ {d} : pending'[e] = pending[e]
  BY SignedUpWrites
<1>4. \A e \in Device : \A j \in DOMAIN pending[e] :
        pending[e][j].node = "items" \/ pending[e][j].uid # u
  BY <1>1 DEF AccountsOK, CallsComeFirst
<1> HIDE DEF u
<1>5. ASSUME NEW e \in Device, NEW j \in DOMAIN pending'[e]
      PROVE  \/ j \in DOMAIN pending[e] /\ pending'[e][j] = pending[e][j]
             \/ e = d /\ j = n + 1 /\ pending'[e][j].node = "items"
             \/ e = d /\ j = n + 2 /\ pending'[e][j].node = "profile" /\ pending'[e][j].uid = u
             \/ e = d /\ j = n + 3 /\ pending'[e][j].node = "friendList"
                                  /\ pending'[e][j].uid = u
             \/ e = d /\ j = n + 4 /\ pending'[e][j].node = "itemList" /\ pending'[e][j].uid = u
  BY <1>2, <1>3, AddedWrite
<1>6. ProfilesComeFirst'
  <2>1. ASSUME NEW v \in Uid, NEW e \in Device, NEW f \in Device,
               NEW j \in DOMAIN pending'[e], NEW l \in DOMAIN pending'[f],
               WritesTo(e, j, v, "profile")', WritesTo(f, l, v, "itemList")'
        PROVE  e = f /\ j < l
    <3>1. pending'[e][j].node = "profile" /\ pending'[e][j].uid = v
          /\ pending'[f][l].node = "itemList" /\ pending'[f][l].uid = v
      BY <2>1 DEF WritesTo
    <3>2. CASE v = u
      <4>1. e = d /\ j = n + 2 /\ f = d /\ l = n + 4
        BY <1>4, <1>5, <3>1, <3>2
      <4> QED BY <1>2, <4>1
    <3>3. CASE v # u
      <4>1. /\ j \in DOMAIN pending[e] /\ pending'[e][j] = pending[e][j]
            /\ l \in DOMAIN pending[f] /\ pending'[f][l] = pending[f][l]
        BY <1>5, <3>1, <3>3
      <4> QED BY <3>1, <4>1 DEF FillsOK, ProfilesComeFirst, WritesTo
    <3> QED BY <3>2, <3>3
  <2> QED BY <2>1 DEF ProfilesComeFirst
<1>7. ListsFollow'
  <2>1. ASSUME NEW e \in Device, NEW j \in DOMAIN pending[e],
               pending'[e][j] = pending[e][j]
        PROVE  Follows(e, j)'
    <3>1. Follows(e, j) /\ j \in Nat /\ pending[e] \in Seq(Write)
      BY DEF FillsOK, ListsFollow, TypeOK, FirebaseTypeOK
    <3>2. \A l \in DOMAIN pending[e] : pending'[e][l] = pending[e][l]
      BY <1>2, <1>3 DEF NewUserAdded
    <3>3. j # 1 => j - 1 \in DOMAIN pending[e]
      BY <3>1
    <3>4. j > 3 => j - 3 \in DOMAIN pending[e]
      BY <3>1
    <3> QED BY <1>1, <2>1, <3>1, <3>2, <3>3, <3>4 DEF Follows, WritesTo
  <2>2. ASSUME NEW j, j = n + 1
        PROVE  Follows(d, j)'
    <3>1. pending'[d][j].node = "items"
      BY <1>2, <2>2 DEF NewUserAdded
    <3> QED BY <3>1 DEF Follows
  <2>3. ASSUME NEW j, j = n + 2
        PROVE  Follows(d, j)'
    <3>1. pending'[d][j].node = "profile"
      BY <1>2, <2>3 DEF NewUserAdded, NewProfile
    <3> QED BY <3>1 DEF Follows
  <2>4. ASSUME NEW j, j = n + 3
        PROVE  Follows(d, j)'
    <3>1. /\ pending'[d][j].node = "friendList" /\ pending'[d][j].uid = u
          /\ pending'[d][n + 2].node = "profile" /\ pending'[d][n + 2].uid = u
      BY <1>2, <2>4 DEF NewUserAdded, NewProfile
    <3>2. j # 1 /\ j - 1 = n + 2
      BY <1>2, <2>4
    <3> QED BY <3>1, <3>2 DEF Follows, WritesTo
  <2>5. ASSUME NEW j, j = n + 4
        PROVE  Follows(d, j)'
    <3>1. /\ pending'[d][j].node = "itemList" /\ pending'[d][j].uid = u
          /\ pending'[d][j].value = <<i>>
          /\ pending'[d][n + 3].node = "friendList" /\ pending'[d][n + 3].uid = u
          /\ pending'[d][n + 1].node = "items" /\ pending'[d][n + 1].id = i
      BY <1>2, <2>5 DEF NewUserAdded
    <3>2. j # 1 /\ j - 1 = n + 3 /\ j > 3 /\ j - 3 = n + 1
      BY <1>2, <2>5
    <3>3. Ids(<<i>>) = {i}
      <4>1. <<i>> \in Seq(ItemId) /\ Len(<<i>>) = 1 /\ <<i>>[1] = i
        BY <1>2
      <4>2. Ids(<<i>>) = {<<i>>[l] : l \in 1 .. 1}
        BY <4>1, IdsOfSeq, FirebaseAssumption
      <4> QED BY <4>1, <4>2
    <3> QED BY <3>1, <3>2, <3>3 DEF Follows, WritesTo
  <2>6. ASSUME NEW e \in Device, NEW j \in DOMAIN pending'[e]
        PROVE  Follows(e, j)'
    BY <1>5, <2>1, <2>2, <2>3, <2>4, <2>5
  <2> QED BY <2>6 DEF ListsFollow
<1>8. RecordsFill'
  BY <1>1 DEF FillsOK, RecordsFill
<1> QED BY <1>6, <1>7, <1>8 DEF FillsOK

\* What the server holds of a user is not lost, unless the profile comes,
\* which is the first thing written.
LEMMA SendKeepsRecords ==
  ASSUME TypeOK, FillsOK, NEW d \in Device, Send(d), NEW u \in Uid
  PROVE  /\ users[u].profile # Missing => users'[u].profile # Missing
         /\ \/ users[u].friendList # Missing => users'[u].friendList # Missing
            \/ WritesTo(d, 1, u, "profile")
         /\ WritesTo(d, 1, u, "profile") => users'[u].profile # Missing
         /\ WritesTo(d, 1, u, "friendList") => users'[u].friendList # Missing
         /\ items \subseteq items'
<1> DEFINE w == pending[d][1]
<1>1. /\ w \in Write /\ users[u] \in Record
      /\ users'[u] = Written(w, u, users[u]) /\ items \subseteq items'
  BY SentWrite DEF TypeOK, FirebaseTypeOK
<1>2. \A v \in Profile : v # Missing
  BY FirebaseAssumption DEF Profile
<1>3. \A v \in Seq(Uid \cup {NoId}) : v # Missing
  BY FirebaseAssumption
<1>4. w.node \in {"items", "profile", "friendList", "itemList"}
  BY <1>1, WriteNodes
<1>5. w.node = "profile" => w.value # Missing
  BY <1>1, <1>2, WriteNodes
<1>6. w.node = "friendList" => w.value # Missing
  BY <1>1, <1>3, WriteNodes
<1> QED BY <1>1, <1>4, <1>5, <1>6, WrittenRecord DEF WritesTo

LEMMA SendFills ==
  ASSUME TypeOK, FillsOK, NEW d \in Device, Send(d)
  PROVE  FillsOK'
<1> DEFINE w == pending[d][1]
           Old(e, j) == IF e = d THEN j + 1 ELSE j
<1>1. ASSUME NEW e \in Device, NEW j \in DOMAIN pending'[e]
      PROVE  /\ Old(e, j) \in DOMAIN pending[e] /\ pending'[e][j] = pending[e][Old(e, j)]
             /\ j \in Nat
  BY SentWrite DEF TypeOK, FirebaseTypeOK
<1>2. /\ w \in Write /\ 1 \in DOMAIN pending[d]
      /\ \A u \in Uid : users'[u] = Written(w, u, users[u])
      /\ items' = IF w.node = "items" THEN items \cup {w.id} ELSE items
  BY SentWrite
<1>3. ProfilesComeFirst'
  <2>1. ASSUME NEW v \in Uid, NEW e \in Device, NEW f \in Device,
               NEW j \in DOMAIN pending'[e], NEW l \in DOMAIN pending'[f],
               WritesTo(e, j, v, "profile")', WritesTo(f, l, v, "itemList")'
        PROVE  e = f /\ j < l
    <3>1. /\ WritesTo(e, Old(e, j), v, "profile") /\ WritesTo(f, Old(f, l), v, "itemList")
          /\ Old(e, j) \in DOMAIN pending[e] /\ Old(f, l) \in DOMAIN pending[f]
          /\ j \in Nat /\ l \in Nat
      BY <1>1, <2>1 DEF WritesTo
    <3>2. e = f /\ Old(e, j) < Old(f, l)
      BY <3>1 DEF FillsOK, ProfilesComeFirst
    <3> QED BY <3>1, <3>2
  <2> QED BY <2>1 DEF ProfilesComeFirst
<1>4. ListsFollow'
  <2>1. ASSUME NEW j \in DOMAIN pending'[d]
        PROVE  Follows(d, j)'
    <3>1. /\ j \in Nat /\ j + 1 \in DOMAIN pending[d] /\ pending'[d][j] = pending[d][j + 1]
          /\ pending[d] \in Seq(Write) /\ j # 0
      BY SentWrite DEF TypeOK, FirebaseTypeOK
    <3>2. Follows(d, j + 1)
      BY <3>1 DEF FillsOK, ListsFollow
    <3>3. pending[d][j + 1] \in Write
      BY <3>1
    <3>4. j + 1 # 1 /\ j + 1 - 1 = j
      BY <3>1
    <3>5. ASSUME NEW u \in Uid, NEW child, WritesTo(d, j, u, child), j # 1
          PROVE  WritesTo(d, j - 1, u, child)'
      <4>1. j \in DOMAIN pending[d] /\ j > 1
        BY <3>1, <3>5
      <4>2. pending'[d][j - 1] = pending[d][j]
        BY <4>1, SentWrite
      <4> QED BY <3>5, <4>2 DEF WritesTo
    <3>6. CASE pending'[d][j].node = "friendList"
      <4>1. PICK u \in Uid : u = pending'[d][j].uid /\ WritesTo(d, j, u, "profile")
        BY <3>1, <3>2, <3>3, <3>4, <3>6, WriteNodes DEF Follows
      <4>2. CASE j = 1
        <5>1. users'[u].profile # Missing
          BY <4>1, <4>2, SendKeepsRecords
        <5> QED BY <3>6, <4>1, <4>2, <5>1 DEF Follows
      <4>3. CASE j # 1
        <5>1. WritesTo(d, j - 1, u, "profile")'
          BY <3>5, <4>1, <4>3
        <5> QED BY <3>6, <4>1, <4>3, <5>1 DEF Follows
      <4> QED BY <4>2, <4>3
    <3>7. CASE pending'[d][j].node = "itemList"
      <4>1. PICK u \in Uid : u = pending'[d][j].uid /\ WritesTo(d, j, u, "friendList")
        BY <3>1, <3>2, <3>3, <3>4, <3>7, WriteNodes DEF Follows
      <4>2. IF j = 1 THEN users'[u].friendList # Missing
                     ELSE WritesTo(d, j - 1, u, "friendList")'
        <5>1. CASE j = 1
          BY <4>1, <5>1, SendKeepsRecords
        <5>2. CASE j # 1
          BY <3>5, <4>1, <5>2
        <5> QED BY <5>1, <5>2
      <4>3. ASSUME NEW i \in Ids(pending'[d][j].value)
            PROVE  \/ i \in items'
                   \/ j > 3 /\ pending'[d][j - 3].node = "items" /\ pending'[d][j - 3].id = i
        <5>1. \/ i \in items
              \/ j + 1 > 3 /\ pending[d][j - 2].node = "items" /\ pending[d][j - 2].id = i
          <6>1. j + 1 - 3 = j - 2
            BY <3>1
          <6> QED BY <3>1, <3>2, <3>7, <4>3, <6>1 DEF Follows
        <5>2. CASE i \in items
          BY <1>2, <5>2
        <5>3. CASE j = 3 /\ pending[d][j - 2].node = "items" /\ pending[d][j - 2].id = i
          BY <1>2, <5>3
        <5>4. CASE j > 3 /\ pending[d][j - 2].node = "items" /\ pending[d][j - 2].id = i
          <6>1. j - 2 \in DOMAIN pending[d] /\ j - 2 > 1 /\ j - 2 - 1 = j - 3
            BY <3>1, <5>4
          <6>2. pending'[d][j - 3] = pending[d][j - 2]
            BY <6>1, SentWrite
          <6> QED BY <5>4, <6>2
        <5>5. j + 1 > 3 => j = 3 \/ j > 3
          BY <3>1
        <5> QED BY <5>1, <5>2, <5>3, <5>4, <5>5
      <4> QED BY <3>7, <4>1, <4>2, <4>3 DEF Follows, WritesTo
    <3>8. CASE pending'[d][j].node # "friendList" /\ pending'[d][j].node # "itemList"
      BY <3>8 DEF Follows
    <3> QED BY <3>6, <3>7, <3>8
  <2>2. ASSUME NEW e \in Device \ {d}, NEW j \in DOMAIN pending[e]
        PROVE  Follows(e, j)'
    <3>1. pending'[e] = pending[e] /\ Follows(e, j) /\ pending[e][j] \in Write
      BY SentWrite DEF FillsOK, ListsFollow, TypeOK, FirebaseTypeOK
    <3>2. items \subseteq items'
      BY <1>2
    <3>3. CASE pending[e][j].node = "friendList"
      <4>1. pending[e][j].uid \in Uid
        BY <3>1, <3>3, WriteNodes
      <4>2. users[pending[e][j].uid].profile # Missing =>
              users'[pending[e][j].uid].profile # Missing
        BY <4>1, SendKeepsRecords
      <4> QED BY <3>1, <3>3, <4>2 DEF Follows, WritesTo
    <3>4. CASE pending[e][j].node = "itemList"
      <4>1. pending[e][j].uid \in Uid
        BY <3>1, <3>4, WriteNodes
      <4>2. ~WritesTo(d, 1, pending[e][j].uid, "profile")
        BY <1>2, <3>4, <4>1 DEF FillsOK, ProfilesComeFirst, WritesTo
      <4>3. users[pending[e][j].uid].friendList # Missing =>
              users'[pending[e][j].uid].friendList # Missing
        BY <4>1, <4>2, SendKeepsRecords
      <4> QED BY <3>1, <3>2, <3>4, <4>3 DEF Follows, WritesTo
    <3>5. CASE pending[e][j].node # "friendList" /\ pending[e][j].node # "itemList"
      BY <3>1, <3>5 DEF Follows
    <3> QED BY <3>3, <3>4, <3>5
  <2>3. \A e \in Device \ {d} : pending'[e] = pending[e]
    BY SentWrite
  <2> QED BY <2>1, <2>2, <2>3 DEF ListsFollow
<1>5. RecordsFill'
  <2>1. ASSUME NEW u \in Uid
        PROVE  /\ users'[u].friendList # Missing => users'[u].profile # Missing
               /\ users'[u].itemList # Missing => users'[u].friendList # Missing
               /\ Ids(users'[u].itemList) \subseteq items'
    <3>1. /\ users[u].friendList # Missing => users[u].profile # Missing
          /\ users[u].itemList # Missing => users[u].friendList # Missing
          /\ Ids(users[u].itemList) \subseteq items
          /\ users[u] \in Record /\ users'[u] = Written(w, u, users[u])
          /\ Follows(d, 1) /\ items \subseteq items'
      BY <1>2 DEF FillsOK, RecordsFill, ListsFollow, TypeOK, FirebaseTypeOK
    <3>2. w.node \in {"items", "profile", "friendList", "itemList"}
      BY <1>2, WriteNodes
    <3>3. CASE w.node = "items" \/ w.uid # u
      BY <1>2, <3>1, <3>3, WrittenRecord
    <3>4. CASE w.node = "profile" /\ w.uid = u
      <4>1. Ids(Missing) = {}
        BY DEF Ids
      <4>2. users'[u].friendList = Missing /\ users'[u].itemList = Missing
        BY <1>2, <3>1, <3>4, WrittenRecord
      <4> QED BY <4>1, <4>2
    <3>5. CASE w.node = "friendList" /\ w.uid = u
      <4>1. users[u].profile # Missing
        BY <3>1, <3>5 DEF Follows
      <4>2. users'[u].friendList # Missing
        BY <3>5, SendKeepsRecords DEF WritesTo
      <4>3. users'[u].profile = users[u].profile /\ users'[u].itemList = users[u].itemList
        BY <1>2, <3>1, <3>5, WrittenRecord
      <4> QED BY <3>1, <4>1, <4>2, <4>3
    <3>6. CASE w.node = "itemList" /\ w.uid = u
      <4>1. users[u].friendList # Missing /\ Ids(w.value) \subseteq items
        BY <3>1, <3>6 DEF Follows
      <4>2. /\ users'[u].profile = users[u].profile
            /\ users'[u].friendList = users[u].friendList
            /\ users'[u].itemList = w.value
        BY <1>2, <3>1, <3>6, WrittenRecord
      <4> QED BY <3>1, <4>1, <4>2
    <3> QED BY <3>2, <3>3, <3>4, <3>5, <3>6
  <2> QED BY <2>1 DEF RecordsFill
<1> QED BY <1>3, <1>4, <1>5 DEF FillsOK

LEMMA KillFills ==
  ASSUME TypeOK, FillsOK, NEW d \in Device, Kill(d)
  PROVE  FillsOK'
<1>1. ASSUME NEW e \in Device, NEW j \in DOMAIN pending'[e]
      PROVE  e # d /\ j \in DOMAIN pending[e] /\ pending'[e] = pending[e]
  <2>1. DOMAIN <<>> = {}
    OBVIOUS
  <2> QED BY <2>1, KillLeaves
<1>2. UNCHANGED <<users, items>>
  BY KillLeaves
<1>3. ProfilesComeFirst'
  BY <1>1 DEF FillsOK, ProfilesComeFirst, WritesTo
<1>4. ListsFollow'
  BY <1>1, <1>2 DEF FillsOK, ListsFollow, Follows, WritesTo
<1>5. RecordsFill'
  BY <1>2 DEF FillsOK, RecordsFill
<1> QED BY <1>3, <1>4, <1>5 DEF FillsOK

LEMMA FillsStep ==
  ASSUME TypeOK, AccountsOK, FillsOK, [Next]_vars
  PROVE  FillsOK'
<1>1. CASE UNCHANGED <<users, items, pending>>
  BY <1>1 DEF FillsOK, ProfilesComeFirst, ListsFollow, Follows, WritesTo, RecordsFill
<1>2. ASSUME NEW d \in Device,
             \/ EditUsername(d) \/ EditEmail(d) \/ EndEditing(d) \/ FormError(d) \/ Dismiss(d)
             \/ Okay(d) \/ SignUpPressed(d) \/ LogInPressed(d) \/ GoToSignUp(d) \/ GoToLogIn(d)
             \/ Launch(d)
      PROVE  FillsOK'
  BY <1>1, <1>2 DEF EditUsername, EditEmail, EndEditing, FormError, Dismiss, Okay, SignUpPressed,
                    LogInPressed, GoToSignUp, GoToLogIn, Launch, ProcessStarts, firebaseVars
<1>3. ASSUME NEW d \in Device, NEW k \in DOMAIN calls[d],
             Register(d, k) \/ SignUpFails(d, k) \/ SignedIn(d, k) \/ SignInFails(d, k)
      PROVE  FillsOK'
  BY <1>1, <1>3 DEF Register, SignUpFails, SignedIn, SignInFails, firebaseVars
<1>4. ASSUME NEW d \in Device, NEW k \in DOMAIN calls[d], SignedUp(d, k)
      PROVE  FillsOK'
  BY <1>4, SignedUpFills
<1>5. ASSUME NEW d \in Device, Send(d)
      PROVE  FillsOK'
  BY <1>5, SendFills
<1>6. ASSUME NEW d \in Device, Kill(d)
      PROVE  FillsOK'
  BY <1>6, KillFills
<1>7. CASE UNCHANGED vars
  BY <1>1, <1>7 DEF vars, firebaseVars
<1> QED BY <1>2, <1>3, <1>4, <1>5, <1>6, <1>7 DEF Next, Returns

LEMMA FillsInit == Init => FillsOK
<1>1. DOMAIN <<>> = {} /\ Ids(Missing) = {}
  BY DEF Ids
<1> QED BY <1>1 DEF Init, FillsOK, ProfilesComeFirst, ListsFollow, RecordsFill, EmptyRecord

\* Wherever a sign-up is cut, the server has a first part of it.
THEOREM RecordsAlwaysFillInOrder == Spec => []RecordsFillInOrder
<1>1. TypeOK /\ AccountsOK /\ FillsOK => RecordsFillInOrder
  BY DEF RecordsFillInOrder, AccountsOK, AccountsComeFirst, FillsOK, RecordsFill
<1>2. Spec => [](TypeOK /\ AccountsOK /\ FillsOK)
  BY TypeInit, TypeStep, AccountsInit, AccountsStep, FillsInit, FillsStep, PTL DEF Spec
<1> QED BY <1>1, <1>2, PTL

-----------------------------------------------------------------------------
(* What a record says                                                      *)

LEMMA SignedUpMatches ==
  ASSUME TypeOK, AllScreensOK, AccountsOK, ProfilesMatch,
         NEW d \in Device, NEW k \in DOMAIN calls[d], SignedUp(d, k)
  PROVE  ProfilesMatch'
<1> DEFINE u == calls[d][k].uid
<1>1. /\ u \in Uid /\ Made(d, k, u) /\ UNCHANGED <<users, accounts, habit>>
      /\ calls[d][k].kind = "signup"
  BY DEF SignedUp, Made
<1>2. PICK n \in Nat, i \in ItemId : NewUserAdded(pending[d], pending'[d], n, d, u, i)
  BY SignedUpWrites
<1>3. \A e \in Device \ {d} : pending'[e] = pending[e]
  BY SignedUpWrites
<1>4. habit.careful => NewProfile(d, u).value = accounts[u]
  <2>1. ASSUME habit.careful
        PROVE  /\ form[d].editing = "none"
               /\ calls[d][k].profile = [username |-> form[d].username, email |-> form[d].email]
    BY <1>1, <2>1 DEF AllScreensOK, ScreenOK
  <2>2. form[d].editing = "none" =>
          form[d].userName = form[d].username /\ form[d].userEmail = form[d].email
    BY DEF AllScreensOK, ScreenOK
  <2>3. accounts[u] = calls[d][k].profile
    BY <1>1 DEF AccountsOK, AccountsComeFirst
  <2> QED BY <2>1, <2>2, <2>3 DEF NewProfile
<1> HIDE DEF u
<1>5. ASSUME NEW e \in Device, NEW j \in DOMAIN pending'[e], pending'[e][j].node = "profile"
      PROVE  \/ j \in DOMAIN pending[e] /\ pending'[e][j] = pending[e][j]
             \/ pending'[e][j] = NewProfile(d, u)
  <2>1. CASE e # d
    BY <1>3, <2>1
  <2>2. CASE e = d
    <3>1. \/ j \in DOMAIN pending[d] /\ pending'[d][j] = pending[d][j]
          \/ j = n + 2
      BY <1>2, <1>5, <2>2, AddedWrite
    <3> QED BY <1>2, <2>2, <3>1 DEF NewUserAdded
  <2> QED BY <2>1, <2>2
<1>6. NewProfile(d, u).uid = u
  BY DEF NewProfile
<1> QED BY <1>1, <1>4, <1>5, <1>6 DEF ProfilesMatch, WritesTo

LEMMA SendMatches ==
  ASSUME TypeOK, ProfilesMatch, NEW d \in Device, Send(d)
  PROVE  ProfilesMatch'
<1>1. UNCHANGED <<accounts, habit>>
  BY DEF Send, authVars
<1>2. ASSUME NEW e \in Device, NEW j \in DOMAIN pending'[e]
      PROVE  \E k \in DOMAIN pending[e] : pending'[e][j] = pending[e][k]
  <2>1. CASE e = d
    BY <2>1, SentWrite
  <2>2. CASE e # d
    BY <2>2, SentWrite
  <2> QED BY <2>1, <2>2
<1>3. ASSUME habit.careful, NEW u \in Uid, users'[u].profile # Missing
      PROVE  users'[u].profile = accounts[u]
  <2>1. /\ pending[d][1] \in Write /\ users[u] \in Record /\ 1 \in DOMAIN pending[d]
        /\ users'[u] = Written(pending[d][1], u, users[u])
    BY SentWrite DEF TypeOK, FirebaseTypeOK
  <2>2. CASE pending[d][1].node = "profile" /\ pending[d][1].uid = u
    <3>1. users'[u].profile = pending[d][1].value
      BY <2>1, <2>2, WrittenRecord
    <3> QED BY <1>3, <2>1, <2>2, <3>1 DEF ProfilesMatch, WritesTo
  <2>3. CASE ~(pending[d][1].node = "profile" /\ pending[d][1].uid = u)
    <3>1. users'[u].profile = users[u].profile
      BY <2>1, <2>3, WrittenRecord, WriteNodes
    <3> QED BY <1>3, <3>1 DEF ProfilesMatch
  <2> QED BY <2>2, <2>3
<1> QED BY <1>1, <1>2, <1>3 DEF ProfilesMatch, WritesTo

LEMMA RegisterMatches ==
  ASSUME TypeOK, AccountsOK, ProfilesMatch,
         NEW d \in Device, NEW k \in DOMAIN calls[d], Register(d, k)
  PROVE  ProfilesMatch'
<1>1. PICK u \in Uid : accounts[u] = Missing /\ \A v \in Uid \ {u} : accounts'[v] = accounts[v]
  BY RegisterAccounts
<1>2. UNCHANGED <<users, pending, habit>>
  BY DEF Register, firebaseVars
<1>3. users[u].profile = Missing
  BY <1>1 DEF AccountsOK, AccountsComeFirst
<1>4. \A e \in Device : \A j \in DOMAIN pending[e] : ~WritesTo(e, j, u, "profile")
  BY <1>1 DEF AccountsOK, AccountsComeFirst, WritesTo
<1>5. ASSUME habit.careful, NEW v \in Uid, NEW e \in Device, NEW j \in DOMAIN pending[e],
             WritesTo(e, j, v, "profile")
      PROVE  pending[e][j].value = accounts'[v]
  BY <1>1, <1>4, <1>5 DEF ProfilesMatch
<1>6. ASSUME habit.careful, NEW v \in Uid, users[v].profile # Missing
      PROVE  users[v].profile = accounts'[v]
  BY <1>1, <1>3, <1>6 DEF ProfilesMatch
<1> QED BY <1>2, <1>5, <1>6 DEF ProfilesMatch, WritesTo

LEMMA KillMatches ==
  ASSUME TypeOK, ProfilesMatch, NEW d \in Device, Kill(d)
  PROVE  ProfilesMatch'
<1>1. ASSUME NEW e \in Device, NEW j \in DOMAIN pending'[e]
      PROVE  j \in DOMAIN pending[e] /\ pending'[e] = pending[e]
  <2>1. DOMAIN <<>> = {}
    OBVIOUS
  <2> QED BY <2>1, KillLeaves
<1>2. UNCHANGED <<users, accounts, habit>>
  BY KillLeaves
<1> QED BY <1>1, <1>2 DEF ProfilesMatch, WritesTo

LEMMA MatchStep ==
  ASSUME TypeOK, AllScreensOK, AccountsOK, ProfilesMatch, [Next]_vars
  PROVE  ProfilesMatch'
<1>1. CASE UNCHANGED <<users, pending, accounts, habit>>
  BY <1>1 DEF ProfilesMatch, WritesTo
<1>2. ASSUME NEW d \in Device,
             \/ EditUsername(d) \/ EditEmail(d) \/ EndEditing(d) \/ FormError(d) \/ Dismiss(d)
             \/ Okay(d) \/ SignUpPressed(d) \/ LogInPressed(d) \/ GoToSignUp(d) \/ GoToLogIn(d)
             \/ Launch(d)
      PROVE  ProfilesMatch'
  BY <1>1, <1>2 DEF EditUsername, EditEmail, EndEditing, FormError, Dismiss, Okay, SignUpPressed,
                    LogInPressed, GoToSignUp, GoToLogIn, Launch, ProcessStarts, firebaseVars,
                    authVars
<1>3. ASSUME NEW d \in Device, NEW k \in DOMAIN calls[d],
             SignUpFails(d, k) \/ SignedIn(d, k) \/ SignInFails(d, k)
      PROVE  ProfilesMatch'
  BY <1>1, <1>3 DEF SignUpFails, SignedIn, SignInFails, firebaseVars
<1>4. ASSUME NEW d \in Device, NEW k \in DOMAIN calls[d], Register(d, k)
      PROVE  ProfilesMatch'
  BY <1>4, RegisterMatches
<1>5. ASSUME NEW d \in Device, NEW k \in DOMAIN calls[d], SignedUp(d, k)
      PROVE  ProfilesMatch'
  BY <1>5, SignedUpMatches
<1>6. ASSUME NEW d \in Device, Send(d)
      PROVE  ProfilesMatch'
  BY <1>6, SendMatches
<1>7. ASSUME NEW d \in Device, Kill(d)
      PROVE  ProfilesMatch'
  BY <1>7, KillMatches
<1>8. CASE UNCHANGED vars
  BY <1>1, <1>8 DEF vars, firebaseVars, authVars
<1> QED BY <1>2, <1>3, <1>4, <1>5, <1>6, <1>7, <1>8 DEF Next, Returns

LEMMA MatchInit == Init => ProfilesMatch
<1>1. DOMAIN <<>> = {}
  OBVIOUS
<1> QED BY <1>1 DEF Init, ProfilesMatch, EmptyRecord

\* The record of a careful user is the form the account was made with.
THEOREM RecordsAlwaysMatch == Spec => []RecordsMatchForms
<1>1. ProfilesMatch => RecordsMatchForms
  BY DEF ProfilesMatch, RecordsMatchForms
<1>2. Spec => [](TypeOK /\ AllScreensOK /\ AccountsOK /\ ProfilesMatch)
  BY TypeInit, TypeStep, ScreensInit, ScreensStep, AccountsInit, AccountsStep,
     MatchInit, MatchStep, PTL DEF Spec
<1> QED BY <1>1, <1>2, PTL

=============================================================================
