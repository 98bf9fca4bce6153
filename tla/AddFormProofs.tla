---------------------------- MODULE AddFormProofs ----------------------------
(* Theorems about AddForm, for any shares, accounts, addresses, mount points *)
(* and number of lookup processes.                                           *)
EXTENDS AddForm, TLAPS

USE FormAssumption

\* What the flags mean: an imported password is flagged as one and its target is
\* what it is for, and a target is that of the address in the field.
ImportRight(f) ==
    /\ f.password \in Login => f.importedPassword /\ f.importedTarget = f.password.share
    /\ f.importedTarget # None => lookupTargetOf(f.share) = f.importedTarget
ImportKnown == ImportRight(form)

\* A child that is listened to is the only one, and was asked about the address
\* in the field, which names no user.
LookupKnown ==
    /\ \A c, d \in Asking : c = d
    /\ \A c \in Asking : child[c] = asked
    /\ LookupWanted
    /\ Asking # {} => lookupTargetOf(form.share) = asked.share

CheckKnown == MountPointCheckCurrent /\ (due => path # None)

FormInv == TypeOK /\ ImportKnown /\ LookupKnown /\ CheckKnown

\* What a step may do to the password in the form.
PasswordStep ==
    form'.password \in Login /\ form'.password # form.password =>
        /\ asked # None
        /\ form'.password.share = asked.share
        /\ asked.user \in {None, form'.password.account}

-----------------------------------------------------------------------------
(* The form's functions.                                                     *)

LEMMA FreshRight == Fresh \in Form /\ ImportRight(Fresh) /\ Fresh.password = None
BY DEF Fresh, Form, Prefix, Address, ImportRight, lookupTargetOf

\* Assigning the Share field leaves no login that is not for it.
LEMMA SetShareRight ==
    ASSUME NEW f \in Form, ImportRight(f), NEW text \in Address,
           NEW g, g = SetShare(f, text)
    PROVE  /\ g \in Form /\ ImportRight(g)
           /\ g.share = text /\ g.sealed = f.sealed /\ g.lookupShare = f.lookupShare
           /\ g.password \in {f.password, None}
<1> DEFINE h == [f EXCEPT !.share = text]
<1>1. /\ h \in Form /\ h.share = text /\ h.sealed = f.sealed
      /\ h.lookupShare = f.lookupShare /\ h.password = f.password
      /\ h.importedPassword = f.importedPassword /\ h.importedTarget = f.importedTarget
  BY DEF Form
<1>2. CASE text = f.share
  BY <1>2 DEF SetShare
<1>3. CASE text # f.share
  <2>1. g = withdrawImportedCredential(h)
    BY <1>3 DEF SetShare
  <2>2. CASE h.importedTarget = None \/ lookupTargetOf(h.share) = h.importedTarget
    BY <1>1, <2>1, <2>2 DEF withdrawImportedCredential, ImportRight
  <2>3. CASE ~(h.importedTarget = None \/ lookupTargetOf(h.share) = h.importedTarget)
    <3> DEFINE pw == IF h.importedPassword THEN None ELSE h.password
               us == IF h.importedIdentity /\ h.importedPassword THEN None ELSE h.user
    <3>a. g = [h EXCEPT !.importedTarget = None, !.importedPassword = FALSE,
                        !.importedIdentity = FALSE, !.password = pw, !.user = us]
      BY <2>1, <2>3 DEF withdrawImportedCredential
    <3>b. pw \in Login \cup {None, Typed} /\ us \in Accounts \cup {None}
      BY <1>1 DEF Form
    <3>c. pw = IF f.importedPassword THEN None ELSE f.password
      BY <1>1
    <3> HIDE DEF h, pw, us
    <3>1. /\ g \in Form /\ g.share = text /\ g.sealed = f.sealed
          /\ g.lookupShare = f.lookupShare /\ g.importedTarget = None
          /\ g.password = IF f.importedPassword THEN None ELSE f.password
      BY <1>1, <3>a, <3>b, <3>c DEF Form
    <3>2. g.password \notin Login
      BY <3>1 DEF ImportRight
    <3> QED
      BY <3>1, <3>2 DEF ImportRight
  <2> QED
    BY <2>2, <2>3
<1> QED
  BY <1>2, <1>3

\* Username from the address touches nothing else that matters here.
LEMMA FillRight ==
    ASSUME NEW f \in Form, ImportRight(f), NEW user \in Accounts \cup {None},
           NEW g, g = fillUsernameFromAddress(f, user)
    PROVE  /\ g \in Form /\ ImportRight(g)
           /\ g.share = f.share /\ g.sealed = f.sealed /\ g.lookupShare = f.lookupShare
           /\ g.password = f.password
<1>1. CASE user # None /\ f.user \in {None, f.urlFilled}
  <2>1. g = [f EXCEPT !.user = user, !.urlFilled = user]
    BY <1>1 DEF fillUsernameFromAddress
  <2> QED
    BY <1>1, <2>1 DEF Form, ImportRight
<1>2. CASE ~(user # None /\ f.user \in {None, f.urlFilled})
  BY <1>2 DEF fillUsernameFromAddress
<1> QED
  BY <1>1, <1>2

\* A login for the share in the field may be put in.
LEMMA SuggestionRight ==
    ASSUME NEW f \in Form, ImportRight(f), NEW login \in Login,
           lookupTargetOf(f.share) = login.share,
           NEW g, g = applyCredentialSuggestion(f, login)
    PROVE  /\ g \in Form /\ ImportRight(g)
           /\ g.share = f.share /\ g.sealed = f.sealed /\ g.lookupShare = f.lookupShare
           /\ g.password \in {f.password, login}
<1>1. CASE f.sealed \/ f.lookupShare # f.share
  BY <1>1 DEF applyCredentialSuggestion
<1>2. CASE ~(f.sealed \/ f.lookupShare # f.share)
  <2>1. g = [f EXCEPT !.user = login.account, !.password = login,
                      !.importedTarget = lookupTargetOf(f.share),
                      !.importedPassword = TRUE, !.importedIdentity = TRUE]
    BY <1>2 DEF applyCredentialSuggestion
  <2>2. login.share \in Shares /\ login.account \in Accounts
    BY DEF Login
  <2> QED
    BY <2>1, <2>2 DEF Form, ImportRight
<1> QED
  BY <1>1, <1>2

-----------------------------------------------------------------------------
(* The lookups.                                                              *)

LEMMA CancelRight ==
    ASSUME TypeOK, Cancel
    PROVE  /\ child' \in [Children -> Request \cup {None, Dying}] /\ asked' = None
           /\ Asking' = {}
BY DEF TypeOK, Cancel, Abandoned, Asking

LEMMA StartRight ==
    ASSUME TypeOK, NEW request \in Request, Start(request)
    PROVE  /\ child' \in [Children -> Request \cup {None, Dying}] /\ asked' = request
           /\ \A c, d \in Asking' : c = d
           /\ \A c \in Asking' : child'[c] = request
<1>1. PICK c \in Children : child' = [Abandoned EXCEPT ![c] = request] /\ asked' = request
  BY DEF Start
<1>2. Abandoned \in [Children -> {None, Dying}]
  BY DEF Abandoned, Asking, TypeOK
<1> QED
  BY <1>1, <1>2 DEF Asking

\* With nobody asking nothing is claimed about lookups.
LEMMA QuietKnown == ASSUME Asking' = {} PROVE LookupKnown'
BY DEF LookupKnown, LookupWanted

-----------------------------------------------------------------------------
(* The mount point's check.                                                  *)

LEMMA AskRight ==
    ASSUME TypeOK, NEW raw \in Paths, checkMountPoint(raw)
    PROVE  /\ checking' \in Check /\ pending' \in Paths \cup {None}
           /\ checking' = [raw |-> raw, looked |-> FALSE] \/ pending' = raw
<1>1. [raw |-> raw, looked |-> FALSE] \in Check
  BY DEF Check
<1>2. pending \in Paths \cup {None} /\ checking \in {None} \cup Check
  BY DEF TypeOK
<1>3. CASE checking = None
  BY <1>1, <1>2, <1>3 DEF checkMountPoint
<1>4. CASE checking # None
  BY <1>2, <1>4 DEF checkMountPoint
<1> QED
  BY <1>3, <1>4

-----------------------------------------------------------------------------
(* The steps, by the part of the state they leave alone.                     *)

\* A step that leaves the fields alone keeps what is known of them.
LEMMA FormFrame ==
    ASSUME FormInv, UNCHANGED form
    PROVE  form' \in Form /\ ImportKnown' /\ PasswordStep
BY DEF FormInv, TypeOK, ImportKnown, PasswordStep

LEMMA LookupFrame ==
    ASSUME FormInv, UNCHANGED <<lookup, open>>, form'.share = form.share,
           form'.sealed = form.sealed, form'.lookupShare = form.lookupShare
    PROVE  /\ child' \in [Children -> Request \cup {None, Dying}]
           /\ asked' \in Request \cup {None}
           /\ LookupKnown'
BY DEF FormInv, TypeOK, LookupKnown, LookupWanted, Asking, lookup

LEMMA CheckFrame ==
    ASSUME FormInv, UNCHANGED check
    PROVE  /\ path' \in Paths \cup {None} /\ fsProblem' \in Paths \cup {None}
           /\ checking' \in {None} \cup Check /\ pending' \in Paths \cup {None}
           /\ due' \in BOOLEAN /\ CheckKnown'
BY DEF FormInv, TypeOK, CheckKnown, MountPointCheckCurrent, check

\* A form put together by a step, right and without a login that was not there.
LEMMA FormStep ==
    ASSUME FormInv, form' \in Form, ImportRight(form'),
           form'.password \in {form.password, None}
    PROVE  form' \in Form /\ ImportKnown' /\ PasswordStep
<1>1. form'.password \in Login => form'.password = form.password
  BY DEF Login
<1> QED
  BY <1>1 DEF ImportKnown, PasswordStep, ImportRight, lookupTargetOf

\* The parts of the invariant, and of TypeOK, together.
LEMMA Together ==
    ASSUME form' \in Form, open' \in BOOLEAN, busy' \in BOOLEAN,
           child' \in [Children -> Request \cup {None, Dying}],
           asked' \in Request \cup {None},
           path' \in Paths \cup {None}, fsProblem' \in Paths \cup {None},
           checking' \in {None} \cup Check, pending' \in Paths \cup {None},
           due' \in BOOLEAN,
           ImportKnown', LookupKnown', CheckKnown'
    PROVE  FormInv'
BY DEF FormInv, TypeOK

-----------------------------------------------------------------------------
(* The lookups' own steps.                                                   *)

LEMMA FinishedKeeps ==
    ASSUME FormInv, NEW c \in Children, Finished(c) PROVE FormInv' /\ PasswordStep
<1> USE DEF FormInv
<1>1. /\ child[c] \in Request /\ child[c] = asked
      /\ child' = [child EXCEPT ![c] = None] /\ asked' = None
      /\ UNCHANGED <<open, busy, check>>
  BY DEF Finished, Asking, LookupKnown
<1>2. Asking' = {}
  BY <1>1 DEF Asking, LookupKnown, TypeOK, Finished
<1>3. lookupTargetOf(form.share) = asked.share /\ asked.share \in Shares
  BY <1>1 DEF LookupKnown, Finished, Request
<1>4. form' \in Form /\ ImportKnown' /\ PasswordStep
  <2>1. CASE UNCHANGED form
    BY <2>1, FormFrame
  <2>2. ASSUME NEW reply \in Reply, acceptCandidate(reply, asked),
               form' = applyCredentialSuggestion(form, LoginOf(reply, asked))
        PROVE  form' \in Form /\ ImportKnown' /\ PasswordStep
    <3> DEFINE login == LoginOf(reply, asked)
    <3>1. /\ login \in Login /\ login.share = asked.share
          /\ asked.user \in {None, login.account}
      BY <1>3, <2>2 DEF LoginOf, acceptCandidate, Reply, Login
    <3> HIDE DEF login
    <3>2. form' = applyCredentialSuggestion(form, login)
      BY <2>2 DEF login
    <3>3. /\ form' \in Form /\ ImportRight(form')
          /\ form'.password \in {form.password, login}
      BY <1>3, <3>1, <3>2, SuggestionRight DEF TypeOK, ImportKnown
    <3>4. ImportKnown'
      BY <3>3 DEF ImportKnown, ImportRight, lookupTargetOf
    <3>5. asked # None
      BY <1>1 DEF Request
    <3> QED
      BY <3>1, <3>3, <3>4, <3>5 DEF PasswordStep
  <2> QED
    BY <1>1, <2>1, <2>2 DEF Finished, Applied
<1>5. LookupKnown'
  BY <1>2, QuietKnown
<1>6. child' \in [Children -> Request \cup {None, Dying}]
  BY <1>1 DEF TypeOK
<1> QED
  BY <1>1, <1>4, <1>5, <1>6, CheckFrame, Together DEF TypeOK

LEMMA DeadlineKeeps ==
    ASSUME FormInv, Deadline PROVE FormInv' /\ PasswordStep
<1>1. /\ child' \in [Children -> Request \cup {None, Dying}]
      /\ asked' \in Request \cup {None} /\ LookupKnown'
  BY CancelRight, QuietKnown DEF Deadline, FormInv
<1> QED
  BY <1>1, FormFrame, CheckFrame, Together DEF Deadline, FormInv, TypeOK

LEMMA KilledKeeps ==
    ASSUME FormInv, NEW c \in Children, Killed(c) PROVE FormInv' /\ PasswordStep
<1>1. /\ child' \in [Children -> Request \cup {None, Dying}]
      /\ Asking' = Asking /\ \A d \in Asking : child'[d] = child[d]
  BY DEF Killed, FormInv, TypeOK, Asking
<1>2. LookupKnown'
  BY <1>1 DEF Killed, FormInv, LookupKnown, LookupWanted
<1> QED
  BY <1>1, <1>2, FormFrame, CheckFrame, Together DEF Killed, FormInv, TypeOK

-----------------------------------------------------------------------------
(* The Share and login fields.                                               *)

LEMMA EditShareKeeps ==
    ASSUME FormInv, NEW text \in Texts, EditShare(text) PROVE FormInv' /\ PasswordStep
<1>1. text \in Address /\ text.user \in Accounts \cup {None}
  BY DEF Address
<1> DEFINE g == SetShare(form, text)
<1>2. /\ g \in Form /\ ImportRight(g) /\ g.password \in {form.password, None}
  BY <1>1, SetShareRight DEF FormInv, TypeOK, ImportKnown
<1> HIDE DEF g
<1>3. form' = fillUsernameFromAddress(g, text.user)
  BY DEF EditShare, g
<1>4. form' \in Form /\ ImportRight(form') /\ form'.password = g.password
  BY <1>1, <1>2, <1>3, FillRight
<1>5. form' \in Form /\ ImportKnown' /\ PasswordStep
  BY <1>2, <1>4, FormStep
<1>6. /\ child' \in [Children -> Request \cup {None, Dying}]
      /\ asked' \in Request \cup {None} /\ LookupKnown'
  BY CancelRight, QuietKnown DEF EditShare, FormInv
<1> QED
  BY <1>5, <1>6, CheckFrame, Together DEF EditShare, FormInv, TypeOK

LEMMA PickShareKeeps ==
    ASSUME FormInv, NEW text \in Texts, NEW user \in Accounts \cup {None},
           PickShare(text, user)
    PROVE  FormInv' /\ PasswordStep
<1>1. text \in Address /\ text.user = None
  BY DEF PickShare
<1> DEFINE g == SetShare(form, text)
           f == fillUsernameFromAddress(g, user)
<1>2. /\ g \in Form /\ ImportRight(g) /\ g.password \in {form.password, None}
      /\ g.share = text /\ g.sealed = form.sealed /\ g.lookupShare = form.lookupShare
  BY <1>1, SetShareRight DEF FormInv, TypeOK, ImportKnown
<1> HIDE DEF g
<1>3. /\ f \in Form /\ ImportRight(f) /\ f.password \in {form.password, None}
      /\ f.share = text /\ f.sealed = form.sealed /\ f.lookupShare = form.lookupShare
  BY <1>2, FillRight
<1>4. /\ IF f.sealed \/ shareProblem(f)
           THEN form' = f /\ (IF text = form.share THEN UNCHANGED lookup ELSE Cancel)
           ELSE /\ form' = [f EXCEPT !.lookupShare = text]
                /\ Start([share |-> text.share, user |-> user])
      /\ UNCHANGED <<open, busy, check>> /\ open
  BY DEF PickShare, InUse, f, g
<1> HIDE DEF f
<1>5. CASE f.sealed \/ shareProblem(f)
  <2>1. form' \in Form /\ ImportKnown' /\ PasswordStep
    BY <1>3, <1>4, <1>5, FormStep
  <2>2. /\ child' \in [Children -> Request \cup {None, Dying}]
        /\ asked' \in Request \cup {None} /\ LookupKnown'
    <3>1. CASE text = form.share
      BY <1>3, <1>4, <1>5, <3>1, LookupFrame
    <3>2. CASE text # form.share
      BY <1>4, <1>5, <3>2, CancelRight, QuietKnown DEF FormInv
    <3> QED
      BY <3>1, <3>2
  <2> QED
    BY <1>4, <2>1, <2>2, CheckFrame, Together DEF FormInv, TypeOK
<1>6. CASE ~(f.sealed \/ shareProblem(f))
  <2> DEFINE request == [share |-> text.share, user |-> user]
  <2>1. request \in Request
    BY <1>1, <1>3, <1>6 DEF shareProblem, Request, Address
  <2>2. form' = [f EXCEPT !.lookupShare = text]
    BY <1>4, <1>6
  <2>3. /\ form' \in Form /\ form'.share = text /\ form'.lookupShare = text
        /\ form'.sealed = f.sealed /\ form'.password = f.password
        /\ form'.importedPassword = f.importedPassword
        /\ form'.importedTarget = f.importedTarget
    BY <1>1, <1>3, <2>2 DEF Form
  <2>4. ImportRight(form')
    BY <1>3, <2>3 DEF ImportRight
  <2>5. form' \in Form /\ ImportKnown' /\ PasswordStep
    BY <1>3, <2>3, <2>4, FormStep
  <2>6. Start(request)
    BY <1>4, <1>6
  <2>7. request.share = text.share
    OBVIOUS
  <2> HIDE DEF request
  <2>8. /\ child' \in [Children -> Request \cup {None, Dying}] /\ asked' = request
        /\ \A c, d \in Asking' : c = d
        /\ \A c \in Asking' : child'[c] = request
    BY <2>1, <2>6, StartRight DEF FormInv
  <2>9. LookupKnown'
    <3>1. open' /\ ~form'.sealed /\ form'.lookupShare = form'.share
      BY <1>4, <1>6, <2>3
    <3>2. lookupTargetOf(form'.share) = asked'.share
      BY <1>1, <2>3, <2>7, <2>8 DEF lookupTargetOf
    <3> QED
      BY <2>8, <3>1, <3>2 DEF LookupKnown, LookupWanted, lookupTargetOf
  <2> QED
    BY <1>4, <2>1, <2>5, <2>8, <2>9, CheckFrame, Together DEF FormInv, TypeOK
<1> QED
  BY <1>5, <1>6

LEMMA EditIdentityKeeps ==
    ASSUME FormInv, NEW user \in Accounts \cup {None}, EditIdentity(user)
    PROVE  FormInv' /\ PasswordStep
<1> DEFINE pw == IF user = None THEN None ELSE form.password
<1>1. form' = [form EXCEPT !.user = user, !.sealed = TRUE, !.importedIdentity = FALSE,
                           !.password = pw]
  BY DEF EditIdentity
<1>2. pw \in {form.password, None} /\ pw \in Login \cup {None, Typed}
  BY DEF FormInv, TypeOK, Form
<1> HIDE DEF pw
<1>3. /\ form' \in Form /\ form'.password = pw /\ form'.share = form.share
      /\ form'.importedPassword = form.importedPassword
      /\ form'.importedTarget = form.importedTarget
  BY <1>1, <1>2 DEF FormInv, TypeOK, Form
<1>4. ImportRight(form')
  BY <1>2, <1>3 DEF FormInv, ImportKnown, ImportRight
<1>5. form' \in Form /\ ImportKnown' /\ PasswordStep
  BY <1>2, <1>3, <1>4, FormStep
<1>6. /\ child' \in [Children -> Request \cup {None, Dying}]
      /\ asked' \in Request \cup {None} /\ LookupKnown'
  BY CancelRight, QuietKnown DEF EditIdentity, FormInv
<1> QED
  BY <1>5, <1>6, CheckFrame, Together DEF EditIdentity, FormInv, TypeOK

LEMMA EditPasswordKeeps ==
    ASSUME FormInv, EditPassword PROVE FormInv' /\ PasswordStep
<1>1. /\ form' \in Form /\ form'.password = Typed /\ form'.share = form.share
      /\ form'.importedTarget = form.importedTarget
  BY DEF EditPassword, FormInv, TypeOK, Form
<1>2. ImportKnown' /\ PasswordStep
  BY <1>1 DEF FormInv, ImportKnown, ImportRight, PasswordStep, lookupTargetOf
<1>3. /\ child' \in [Children -> Request \cup {None, Dying}]
      /\ asked' \in Request \cup {None} /\ LookupKnown'
  BY CancelRight, QuietKnown DEF EditPassword, FormInv
<1> QED
  BY <1>1, <1>2, <1>3, CheckFrame, Together DEF EditPassword, FormInv, TypeOK

-----------------------------------------------------------------------------
(* The Mount point field.                                                    *)

\* These steps touch neither the login nor a lookup.
LEMMA PathFrame ==
    ASSUME FormInv, UNCHANGED <<form, open, busy, lookup>>,
           path' \in Paths \cup {None}, fsProblem' \in Paths \cup {None},
           checking' \in {None} \cup Check, pending' \in Paths \cup {None},
           due' \in BOOLEAN, CheckKnown'
    PROVE  FormInv' /\ PasswordStep
BY FormFrame, LookupFrame, Together DEF FormInv, TypeOK

LEMMA EditPathKeeps ==
    ASSUME FormInv, NEW text \in Paths \cup {None}, EditPath(text)
    PROVE  FormInv' /\ PasswordStep
<1>1. CheckKnown'
  BY DEF EditPath, CheckKnown, MountPointCheckCurrent
<1> QED
  BY <1>1, PathFrame DEF EditPath, FormInv, TypeOK

LEMMA PickPathKeeps ==
    ASSUME FormInv, NEW text \in Paths, PickPath(text) PROVE FormInv' /\ PasswordStep
<1>1. /\ checking' \in Check /\ pending' \in Paths \cup {None}
      /\ checking' = [raw |-> text, looked |-> FALSE] \/ pending' = text
  BY AskRight DEF PickPath, FormInv
<1>2. path' = text /\ fsProblem' \in {None, text} /\ due' = TRUE
  BY DEF PickPath, FormInv, CheckKnown, MountPointCheckCurrent
<1>3. CheckKnown'
  BY <1>1, <1>2 DEF CheckKnown, MountPointCheckCurrent
<1> QED
  BY <1>1, <1>2, <1>3, PathFrame DEF PickPath

LEMMA RunFsCheckKeeps ==
    ASSUME FormInv, RunFsCheck PROVE FormInv' /\ PasswordStep
<1>1. path \in Paths
  BY DEF RunFsCheck, FormInv, TypeOK
<1>2. /\ checking' \in Check /\ pending' \in Paths \cup {None}
      /\ checking' = [raw |-> path, looked |-> FALSE] \/ pending' = path
  BY <1>1, AskRight DEF RunFsCheck, FormInv
<1>3. path' = path /\ fsProblem' = fsProblem /\ due' = TRUE
  BY DEF RunFsCheck
<1>4. CheckKnown'
  BY <1>1, <1>2, <1>3 DEF FormInv, CheckKnown, MountPointCheckCurrent
<1> QED
  BY <1>2, <1>3, <1>4, PathFrame DEF RunFsCheck, FormInv, TypeOK

LEMMA WorkerLooksKeeps ==
    ASSUME FormInv, WorkerLooks PROVE FormInv' /\ PasswordStep
<1>1. checking \in Check /\ checking' = [checking EXCEPT !.looked = TRUE]
  BY DEF WorkerLooks, FormInv, TypeOK
<1>2. checking' \in Check
  BY <1>1 DEF Check
<1>3. due' => pending = path /\ path # None
  <2>1. due' => due /\ checking.raw # path
    BY DEF WorkerLooks
  <2>2. checking = [raw |-> path, looked |-> FALSE] => checking.raw = path
    OBVIOUS
  <2> QED
    BY <2>1, <2>2 DEF FormInv, CheckKnown, MountPointCheckCurrent
<1>4. due' \in BOOLEAN
  BY DEF WorkerLooks
<1>5. CheckKnown'
  BY <1>2, <1>3 DEF WorkerLooks, FormInv, CheckKnown, MountPointCheckCurrent
<1> QED
  BY <1>2, <1>4, <1>5, PathFrame DEF WorkerLooks, FormInv, TypeOK

\* When the check of an older look ends, the one still owed is the one waiting.
LEMMA CheckFinishedKeeps ==
    ASSUME FormInv, CheckFinished PROVE FormInv' /\ PasswordStep
<1>1. /\ checking' \in {None} \cup Check
      /\ pending # None =>
            checking' = [raw |-> pending, looked |-> FALSE] /\ checking' \in Check
  BY DEF CheckFinished, FormInv, TypeOK, Check
<1>2. due => pending = path /\ path # None
  <2>1. checking = [raw |-> path, looked |-> FALSE] => ~checking.looked
    OBVIOUS
  <2> QED
    BY <2>1 DEF CheckFinished, FormInv, CheckKnown, MountPointCheckCurrent
<1>3. fsProblem' \in {None, path} /\ path' = path /\ due' = due /\ pending' = None
  BY DEF CheckFinished, FormInv, CheckKnown, MountPointCheckCurrent
<1>4. CheckKnown'
  BY <1>1, <1>2, <1>3 DEF CheckKnown, MountPointCheckCurrent
<1> QED
  BY <1>1, <1>3, <1>4, PathFrame DEF CheckFinished, FormInv, TypeOK

-----------------------------------------------------------------------------
(* The dialog.                                                               *)

LEMMA FreshStep ==
    ASSUME FormInv, form' = Fresh PROVE form' \in Form /\ ImportKnown' /\ PasswordStep
BY FreshRight, FormStep

LEMMA FreshPath ==
    ASSUME FormInv, path' = None, fsProblem' = None, due' = FALSE,
           UNCHANGED <<checking, pending>>
    PROVE  /\ path' \in Paths \cup {None} /\ fsProblem' \in Paths \cup {None}
           /\ checking' \in {None} \cup Check /\ pending' \in Paths \cup {None}
           /\ due' \in BOOLEAN /\ CheckKnown'
BY DEF FormInv, TypeOK, CheckKnown, MountPointCheckCurrent

\* While the dialog is closed no lookup is listened to.
LEMMA OpenForAddKeeps ==
    ASSUME FormInv, OpenForAdd PROVE FormInv' /\ PasswordStep
<1>1. Asking' = {} /\ UNCHANGED <<child, asked>>
  BY DEF OpenForAdd, FormInv, LookupKnown, LookupWanted, Asking, lookup
<1>2. LookupKnown'
  BY <1>1, QuietKnown
<1> QED
  BY <1>1, <1>2, FreshStep, FreshPath, Together DEF OpenForAdd, FormInv, TypeOK

LEMMA ClosedKeeps ==
    ASSUME FormInv, Closed, busy' \in BOOLEAN PROVE FormInv' /\ PasswordStep
<1>1. /\ child' \in [Children -> Request \cup {None, Dying}]
      /\ asked' \in Request \cup {None} /\ LookupKnown'
  BY CancelRight, QuietKnown DEF Closed, FormInv
<1> QED
  BY <1>1, FreshStep, FreshPath, Together DEF Closed

LEMMA SubmitKeeps ==
    ASSUME FormInv, Submit PROVE FormInv' /\ PasswordStep
<1>1. /\ form' \in Form /\ form'.password = form.password /\ form'.share = form.share
      /\ form'.importedPassword = form.importedPassword
      /\ form'.importedTarget = form.importedTarget
  BY DEF Submit, FormInv, TypeOK, Form
<1>2. ImportRight(form')
  BY <1>1 DEF FormInv, ImportKnown, ImportRight
<1>3. form' \in Form /\ ImportKnown' /\ PasswordStep
  BY <1>1, <1>2, FormStep
<1>4. /\ child' \in [Children -> Request \cup {None, Dying}]
      /\ asked' \in Request \cup {None} /\ LookupKnown'
  BY CancelRight, QuietKnown DEF Submit, FormInv
<1> QED
  BY <1>3, <1>4, CheckFrame, Together DEF Submit, FormInv, TypeOK

LEMMA AddFinishedKeeps ==
    ASSUME FormInv, AddFinished PROVE FormInv' /\ PasswordStep
<1>1. CASE Closed
  BY <1>1, ClosedKeeps DEF AddFinished
<1>2. CASE UNCHANGED <<form, open, lookup, check>>
  BY <1>2, FormFrame, LookupFrame, CheckFrame, Together DEF AddFinished, FormInv, TypeOK
<1> QED
  BY <1>1, <1>2 DEF AddFinished

-----------------------------------------------------------------------------
(* The theorems.                                                             *)

LEMMA InitRight == Init => FormInv
<1> SUFFICES ASSUME Init PROVE FormInv
  OBVIOUS
<1>1. TypeOK /\ ImportKnown
  BY FreshRight DEF Init, TypeOK, ImportKnown
<1>2. Asking = {}
  BY DEF Init, Asking
<1>3. LookupKnown /\ CheckKnown
  BY <1>2 DEF Init, LookupKnown, LookupWanted, CheckKnown, MountPointCheckCurrent
<1> QED
  BY <1>1, <1>3 DEF FormInv

LEMMA StepRight == FormInv /\ [Next]_vars => FormInv' /\ PasswordStep
<1> SUFFICES ASSUME FormInv, [Next]_vars PROVE FormInv' /\ PasswordStep
  OBVIOUS
<1>1. ASSUME NEW c \in Children, Finished(c) PROVE FormInv' /\ PasswordStep
  BY <1>1, FinishedKeeps
<1>2. ASSUME NEW c \in Children, Killed(c) PROVE FormInv' /\ PasswordStep
  BY <1>2, KilledKeeps
<1>3. CASE Deadline
  BY <1>3, DeadlineKeeps
<1>4. ASSUME NEW text \in Texts, EditShare(text) PROVE FormInv' /\ PasswordStep
  BY <1>4, EditShareKeeps
<1>5. ASSUME NEW text \in Texts, NEW user \in Accounts \cup {None}, PickShare(text, user)
      PROVE  FormInv' /\ PasswordStep
  BY <1>5, PickShareKeeps
<1>6. ASSUME NEW user \in Accounts \cup {None}, EditIdentity(user)
      PROVE  FormInv' /\ PasswordStep
  BY <1>6, EditIdentityKeeps
<1>7. CASE EditPassword
  BY <1>7, EditPasswordKeeps
<1>8. ASSUME NEW text \in Paths \cup {None}, EditPath(text) PROVE FormInv' /\ PasswordStep
  BY <1>8, EditPathKeeps
<1>9. ASSUME NEW text \in Paths, PickPath(text) PROVE FormInv' /\ PasswordStep
  BY <1>9, PickPathKeeps
<1>10. CASE RunFsCheck
  BY <1>10, RunFsCheckKeeps
<1>11. CASE WorkerLooks
  BY <1>11, WorkerLooksKeeps
<1>12. CASE CheckFinished
  BY <1>12, CheckFinishedKeeps
<1>13. CASE OpenForAdd
  BY <1>13, OpenForAddKeeps
<1>14. CASE Close
  <2>1. busy' \in BOOLEAN
    BY <1>14 DEF Close, FormInv, TypeOK
  <2> QED
    BY <1>14, <2>1, ClosedKeeps DEF Close
<1>15. CASE Submit
  BY <1>15, SubmitKeeps
<1>16. CASE AddFinished
  <2>1. busy' \in BOOLEAN
    BY <1>16 DEF AddFinished
  <2> QED
    BY <1>16, AddFinishedKeeps
<1>17. CASE UNCHANGED vars
  BY <1>17, FormFrame, LookupFrame, CheckFrame, Together DEF vars, FormInv, TypeOK
<1> QED
  BY <1>1, <1>2, <1>3, <1>4, <1>5, <1>6, <1>7, <1>8, <1>9, <1>10, <1>11, <1>12, <1>13,
     <1>14, <1>15, <1>16, <1>17 DEF Next

LEMMA Invariant == Spec => []FormInv
<1>1. FormInv /\ [Next]_vars => FormInv'
  BY StepRight
<1> QED
  BY InitRight, <1>1, PTL DEF Spec

\* Every variable keeps its type.
THEOREM TypeCorrect == Spec => []TypeOK
<1>1. FormInv => TypeOK
  BY DEF FormInv
<1> QED
  BY <1>1, Invariant, PTL

\* However often the address is typed, picked and answered for, an imported
\* password in the form is one for the share the form names: withdrawal, whatever
\* its order beside filling in the Username, never leaves one behind.
THEOREM NoLoginElsewhere == Spec => []ImportedForShare
<1>1. FormInv => ImportedForShare
  BY DEF FormInv, ImportKnown, ImportRight, ImportedForShare, lookupTargetOf, TypeOK, Form, Login
<1> QED
  BY <1>1, Invariant, PTL

\* A lookup is listened to only while its answer could be applied.
THEOREM LookupsWanted == Spec => []LookupWanted
<1>1. FormInv => LookupWanted
  BY DEF FormInv, LookupKnown
<1> QED
  BY <1>1, Invariant, PTL

\* The queue of one running and one waiting check loses no request that is still
\* about the text in the field, and no answer about another text is on display.
THEOREM ChecksNotLost == Spec => []MountPointCheckCurrent
<1>1. FormInv => MountPointCheckCurrent
  BY DEF FormInv, CheckKnown
<1> QED
  BY <1>1, Invariant, PTL

\* Only the answer to the latest request reaches the form, for the share and the
\* account that request named.
THEOREM OnlyLatestAnswer == Spec => AnswersLatest
<1>1. FormInv /\ [Next]_vars => [PasswordStep]_vars
  BY StepRight
<1>2. Spec => [][PasswordStep]_vars
  BY <1>1, Invariant, PTL DEF Spec
<1> QED
  BY <1>2, PTL DEF AnswersLatest, PasswordStep
==============================================================================
