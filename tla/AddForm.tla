-------------------------------- MODULE AddForm --------------------------------
(* The form a share is added in, as the settings module hosts it: the Share   *)
(* field and the login fields, the lookup of a stored login that a pick in    *)
(* the Share browser starts, in a child process with a deadline, and the      *)
(* Mount point field with the worker that looks at what is on disk.           *)
(* Handlers run one at a time on the GUI thread; the children and the worker  *)
(* run beside it.  The text of an address is the share it names, whether it   *)
(* names a folder in it, and the user in it.  The Domain goes as Username     *)
(* does and is left out, and so is when a field's message is shown.           *)
EXTENDS Naturals, FiniteSets

CONSTANTS
    Shares,     \* each on a server of its own
    Accounts,
    Texts,      \* the addresses typed
    Paths,      \* texts that can be mount points; None is one that cannot
    Children,   \* bound on lookup processes that are not yet reaped
    Dying,      \* a process that was abandoned and has not ended
    Typed,      \* a password the user typed
    None

Address == [share : Shares \cup {None}, sub : BOOLEAN, user : Accounts \cup {None}]

\* What reset() puts in the field.
Prefix == [share |-> None, sub |-> FALSE, user |-> None]

\* A stored login: where it is for, and whose.
Login == [share : Shares, account : Accounts]
Request == [share : Shares, user : Accounts \cup {None}]
Check == [raw : Paths, looked : BOOLEAN]

ASSUME FormAssumption ==
    /\ Texts \subseteq Address /\ Prefix \in Texts
    /\ None \notin Shares \cup Accounts \cup Paths \cup Children
    /\ None \notin Address \cup Login \cup Request \cup Check
    /\ Typed \notin Login \cup {None}
    /\ Dying \notin Request \cup {None}

VARIABLES
    form,       \* the Share and login fields and what the form knows of them
    open,       \* the dialog is open
    busy,       \* an add was handed over and has not finished
    child,      \* lookup processes: what each was asked, or Dying once abandoned
    asked,      \* history: the request whose answer is still wanted
    path,       \* the Mount point field
    fsProblem,  \* the text whose problem on disk is on display
    checking,   \* the check the worker has
    pending,    \* m_pendingRaw
    due         \* history: a check of path was asked for and the disk not yet seen

lookup == <<child, asked>>
check == <<path, fsProblem, checking, pending, due>>
vars == <<form, open, busy, lookup, check>>

Form == [share : Address, user : Accounts \cup {None}, password : Login \cup {None, Typed},
         sealed : BOOLEAN, lookupShare : Address \cup {None},
         importedTarget : Shares \cup {None}, importedPassword : BOOLEAN,
         importedIdentity : BOOLEAN, urlFilled : Accounts \cup {None}]

TypeOK ==
    /\ form \in Form /\ open \in BOOLEAN /\ busy \in BOOLEAN
    /\ child \in [Children -> Request \cup {None, Dying}] /\ asked \in Request \cup {None}
    /\ path \in Paths \cup {None} /\ fsProblem \in Paths \cup {None}
    /\ checking \in {None} \cup Check
    /\ pending \in Paths \cup {None} /\ due \in BOOLEAN

\* reset()
Fresh == [share |-> Prefix, user |-> None, password |-> None, sealed |-> FALSE,
          lookupShare |-> None, importedTarget |-> None, importedPassword |-> FALSE,
          importedIdentity |-> FALSE, urlFilled |-> None]

Init ==
    /\ form = Fresh /\ open = FALSE /\ busy = FALSE
    /\ child = [c \in Children |-> None] /\ asked = None
    /\ path = None /\ fsProblem = None /\ checking = None /\ pending = None /\ due = FALSE

-----------------------------------------------------------------------------
(* What the form's functions make of it.                                     *)

\* A text that names a user names no target.
lookupTargetOf(text) == IF text.user = None THEN text.share ELSE None

shareProblem(f) == f.share.share = None \/ f.share.user \notin {None, f.user}

\* Mutant of withdrawImportedCredential: the flags are cleared before they are read.
withdrawImportedCredentialFlagsFirst(f) ==
    IF f.importedTarget = None \/ lookupTargetOf(f.share) = f.importedTarget THEN f
    ELSE [f EXCEPT !.importedTarget = None, !.importedPassword = FALSE, !.importedIdentity = FALSE]

\* Clearing Username clears Password.
withdrawImportedCredential(f) ==
    LET dropIdentity == f.importedIdentity /\ f.importedPassword IN
    IF f.importedTarget = None \/ lookupTargetOf(f.share) = f.importedTarget THEN f
    ELSE [f EXCEPT !.importedTarget = None, !.importedPassword = FALSE,
                   !.importedIdentity = FALSE,
                   !.password = IF f.importedPassword THEN None ELSE @,
                   !.user = IF dropIdentity THEN None ELSE @]

\* Assigning the Share field, typed or not.
SetShare(f, text) ==
    IF text = f.share THEN f ELSE withdrawImportedCredential([f EXCEPT !.share = text])

fillUsernameFromAddress(f, user) ==
    IF user # None /\ f.user \in {None, f.urlFilled}
    THEN [f EXCEPT !.user = user, !.urlFilled = user]
    ELSE f

applyCredentialSuggestion(f, login) ==
    IF f.sealed \/ f.lookupShare # f.share THEN f
    ELSE [f EXCEPT !.user = login.account, !.password = login,
                   !.importedTarget = lookupTargetOf(f.share),
                   !.importedPassword = TRUE, !.importedIdentity = TRUE]

-----------------------------------------------------------------------------
(* Session::CredentialLookup.                                                *)

\* What the child may find: a login for a share, or for a whole server.
Reply == [share : Shares \cup {None}, account : Accounts]

\* Mutant of LoginOf: a login is for what the answer names.
LoginOfReply(reply, request) == reply

LoginOf(reply, request) ==
    [share |-> IF reply.share = None THEN request.share ELSE reply.share,
     account |-> reply.account]

acceptCandidate(reply, request) ==
    /\ reply.share \in {None, request.share}
    /\ request.user \in {None, reply.account}

Asking == {c \in Children : child[c] \in Request}

\* cancel() and abandon(): nothing the child does is heard from then on.
Abandoned == [c \in Children |-> IF c \in Asking THEN Dying ELSE child[c]]

Cancel == child' = Abandoned /\ asked' = None

\* Mutant of Start: the controller before it is only forgotten.
StartBeside(request) ==
    \E c \in Children :
        /\ child[c] = None
        /\ child' = [child EXCEPT ![c] = request]
        /\ asked' = request

\* startCredentialLookup: the lookup before it is cancelled.
Start(request) ==
    \E c \in Children :
        /\ child[c] = None
        /\ child' = [Abandoned EXCEPT ![c] = request]
        /\ asked' = request

\* The controller's slot: an answer that is refused is a miss.
Applied(reply, request) ==
    IF acceptCandidate(reply, request)
    THEN form' = applyCredentialSuggestion(form, LoginOf(reply, request))
    ELSE UNCHANGED form

\* The child ends, with an answer or without one, and its end is noticed.
Finished(c) ==
    /\ c \in Asking
    /\ child' = [child EXCEPT ![c] = None] /\ asked' = None
    /\ UNCHANGED form \/ \E reply \in Reply : Applied(reply, child[c])
    /\ UNCHANGED <<open, busy, check>>

\* Thirty seconds are over, or the child wrote too much.
Deadline ==
    /\ Asking # {}
    /\ Cancel
    /\ UNCHANGED <<form, open, busy, check>>

\* Mutant of Killed: the timer is that of the controller, which is gone by then.
KilledByController(c) ==
    /\ child[c] = Dying /\ c \in Asking
    /\ child' = [child EXCEPT ![c] = None]
    /\ UNCHANGED <<form, open, busy, asked, check>>

\* By SIGTERM, or two seconds later; the process deletes itself.
Killed(c) ==
    /\ child[c] = Dying
    /\ child' = [child EXCEPT ![c] = None]
    /\ UNCHANGED <<form, open, busy, asked, check>>

-----------------------------------------------------------------------------
(* The Share and login fields.                                               *)

InUse == open /\ ~busy

EditShare(text) ==
    /\ InUse /\ text # form.share
    /\ form' = fillUsernameFromAddress(SetShare(form, text), text.user)
    /\ Cancel
    /\ UNCHANGED <<open, busy, check>>

\* applyBrowsedShare: the picked address keeps no user.
PickShare(text, user) ==
    /\ InUse /\ text.user = None
    /\ LET f == fillUsernameFromAddress(SetShare(form, text), user) IN
       IF f.sealed \/ shareProblem(f)
       THEN /\ form' = f
            /\ IF text = form.share THEN UNCHANGED lookup ELSE Cancel
       ELSE /\ form' = [f EXCEPT !.lookupShare = text]
            /\ Start([share |-> text.share, user |-> user])
    /\ UNCHANGED <<open, busy, check>>

\* Username, or with the same user, Domain.  The first seal cancels.
EditIdentity(user) ==
    /\ InUse
    /\ form' = [form EXCEPT !.user = user, !.sealed = TRUE, !.importedIdentity = FALSE,
                            !.password = IF user = None THEN None ELSE @]
    /\ Cancel
    /\ UNCHANGED <<open, busy, check>>

EditPassword ==
    /\ InUse /\ form.user # None
    /\ form' = [form EXCEPT !.password = Typed, !.sealed = TRUE, !.importedPassword = FALSE]
    /\ Cancel
    /\ UNCHANGED <<open, busy, check>>

-----------------------------------------------------------------------------
(* The Mount point field and MountActions' queue.                            *)

\* Mutant of checkMountPoint: a text that is being checked is not asked about again.
checkMountPointOnce(raw) ==
    IF checking = None
    THEN checking' = [raw |-> raw, looked |-> FALSE] /\ UNCHANGED pending
    ELSE UNCHANGED checking /\ pending' = IF raw = checking.raw THEN pending ELSE raw

checkMountPoint(raw) ==
    IF checking = None
    THEN checking' = [raw |-> raw, looked |-> FALSE] /\ UNCHANGED pending
    ELSE UNCHANGED checking /\ pending' = raw

EditPath(text) ==
    /\ InUse /\ text # path
    /\ path' = text /\ fsProblem' = None /\ due' = FALSE
    /\ UNCHANGED <<form, open, busy, lookup, checking, pending>>

\* applyBrowsedMountPoint
PickPath(text) ==
    /\ InUse
    /\ path' = text
    /\ fsProblem' = IF text = path THEN fsProblem ELSE None
    /\ checkMountPoint(text) /\ due' = TRUE
    /\ UNCHANGED <<form, open, busy, lookup>>

\* runFsCheck: a pause in typing, leaving the field, or coming back to the window.
RunFsCheck ==
    /\ path # None
    /\ checkMountPoint(path) /\ due' = TRUE
    /\ UNCHANGED <<form, open, busy, lookup, path, fsProblem>>

WorkerLooks ==
    /\ checking # None /\ ~checking.looked
    /\ checking' = [checking EXCEPT !.looked = TRUE]
    /\ due' = (due /\ checking.raw # path)
    /\ UNCHANGED <<form, open, busy, lookup, path, fsProblem, pending>>

CheckFinished ==
    /\ checking # None /\ checking.looked
    /\ checking' = IF pending = None THEN None ELSE [raw |-> pending, looked |-> FALSE]
    /\ pending' = None
    /\ IF checking.raw = path THEN fsProblem' \in {None, path} ELSE UNCHANGED fsProblem
    /\ UNCHANGED <<form, open, busy, lookup, path, due>>

-----------------------------------------------------------------------------
(* The dialog.                                                               *)

OpenForAdd ==
    /\ ~open /\ ~busy
    /\ open' = TRUE
    /\ form' = Fresh
    /\ path' = None /\ fsProblem' = None /\ due' = FALSE
    /\ UNCHANGED <<busy, lookup, checking, pending>>

\* Mutant of Closed: the lookup is left to its deadline.
ClosedOnly ==
    /\ open' = FALSE
    /\ form' = Fresh
    /\ path' = None /\ fsProblem' = None /\ due' = FALSE
    /\ UNCHANGED <<lookup, checking, pending>>

\* onClosed
Closed ==
    /\ open' = FALSE
    /\ form' = Fresh
    /\ path' = None /\ fsProblem' = None /\ due' = FALSE
    /\ Cancel
    /\ UNCHANGED <<checking, pending>>

Close == open /\ Closed /\ UNCHANGED busy

canSubmit == ~shareProblem(form) /\ path # None /\ fsProblem = None

Submit ==
    /\ InUse /\ canSubmit
    /\ form' = [form EXCEPT !.sealed = TRUE]
    /\ busy' = TRUE
    /\ Cancel
    /\ UNCHANGED <<open, check>>

\* finished("add"): a dialog that is still there closes, or shows why not.
AddFinished ==
    /\ busy /\ busy' = FALSE
    /\ \/ open /\ Closed
       \/ UNCHANGED <<form, open, lookup, check>>

Next ==
    \/ \E c \in Children : Finished(c)
    \/ \E c \in Children : Killed(c)
    \/ Deadline
    \/ \E text \in Texts : EditShare(text)
    \/ \E text \in Texts, user \in Accounts \cup {None} : PickShare(text, user)
    \/ \E user \in Accounts \cup {None} : EditIdentity(user)
    \/ EditPassword
    \/ \E text \in Paths \cup {None} : EditPath(text)
    \/ \E text \in Paths : PickPath(text)
    \/ RunFsCheck \/ WorkerLooks \/ CheckFinished
    \/ OpenForAdd \/ Close \/ Submit \/ AddFinished

\* Timers fire and a killed child dies.  A child need not
\* answer (a wallet prompt may wait for ever), nor the worker come back from a
\* disk that hangs, and nobody need type.
Fairness ==
    /\ WF_vars(Deadline)
    /\ \A c \in Children : WF_vars(Killed(c))

Spec == Init /\ [][Next]_vars /\ Fairness

-----------------------------------------------------------------------------
(* Properties.                                                              *)

\* ShareForm.qml: "a password found for one machine can never be submitted to
\* another", whatever was typed, picked and answered since.
ImportedForShare ==
    form.password \in Login /\ form.share.share # None => form.password.share = form.share.share

\* A lookup runs only as long as its answer could be applied: the dialog is open,
\* the user has not taken the login over and the address is the one asked about.
LookupWanted ==
    Asking # {} => open /\ ~form.sealed /\ form.lookupShare = form.share

\* A login is put into the form only as the answer to the latest request, for
\* that share and for the account its pick named, and only if nothing has been
\* edited, submitted or closed since.
AnswersLatest ==
    [][form'.password \in Login /\ form'.password # form.password =>
          /\ asked # None
          /\ form'.password.share = asked.share
          /\ asked.user \in {None, form'.password.account}]_vars

\* The problem on display is one of the text in the field, and a check that was
\* asked for is never lost: until the disk has been looked at again, a check of
\* this text that has still to look is with the worker or waits its turn.
MountPointCheckCurrent ==
    /\ fsProblem \in {None, path}
    /\ due => /\ checking # None
              /\ checking = [raw |-> path, looked |-> FALSE] \/ pending = path

\* Every lookup process ends and is reaped, its wallet prompt answered or not.
LookupsEnd == \A c \in Children : child[c] # None ~> child[c] = None

-----------------------------------------------------------------------------
(* What a comment promises and the code does not keep.                      *)

\* ShareForm.qml: an imported login is "The whole tuple or none of it": until the
\* user edits it, an imported password stands beside the account it is of.
TupleWhole ==
    form.password \in Login /\ ~form.sealed => form.user = form.password.account
=============================================================================
