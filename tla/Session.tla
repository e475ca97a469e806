-------------------------------- MODULE Session --------------------------------
(***************************************************************************)
(* Who is signed in and whose screens are shown: launching the app, LoginVC, *)
(* SignupVC and FeedVC.handleLogout on one device.                         *)
(*                                                                         *)
(* The tabs capture the current user when they load: FeedVC as soon as its *)
(* MainTabVC is built, UserProfileVC when its tab is first selected.  Only *)
(* a new MainTabVC loads them again.                                       *)
(***************************************************************************)
EXTENDS Naturals

CONSTANTS
    Users,      \* uids; an account is known by the uid it gets
    Registered, \* the accounts that exist, with their records, at the start
    MaxLogins,  \* bound: signIn requests for one account in flight at once
    MaxAnswers, \* bound: completion blocks of signIn on the main queue at once
    MaxDeaths,  \* bound: process deaths
    NoUser,     \* nil
    Unloaded    \* a tab whose viewDidLoad has not run

ASSUME UsersAssumption == Registered \subseteq Users
ASSUME NamesAssumption == NoUser \notin Users /\ Unloaded \notin Users
                          /\ NoUser # Unloaded
ASSUME BoundsAssumption == MaxLogins \in Nat /\ MaxAnswers \in Nat
                           /\ MaxDeaths \in Nat

VARIABLES
    accounts,    \* the accounts of the authentication service
    records,     \* the uids that have an entry under users/
    currentUser, \* Auth.auth().currentUser, kept across process deaths
    feed,        \* the user FeedVC.fetchPosts has observed
    profile,     \* the user UserProfileVC has loaded
    queued,      \* checkIfUserIsLoggedIn has queued the login screen
    modal,       \* the screen that covers the tabs
    logins,      \* [u]: signIn requests for u in flight
    answers,     \* completion blocks of signIn waiting on the main queue
    signup,      \* [u]: how far handleSignUp has come for u
    showing,     \* the sign-ups whose SignupVC is still the one on screen
    form,        \* the SignupVC on screen: text in every field, imageSelected,
                 \* and whether the button is enabled
    \* Bound and history.
    deaths,      \* process deaths so far
    entered      \* how currentUser came to be signed in

server  == <<accounts, records>>
tabs    == <<feed, profile>>
screens == <<queued, modal>>
signins == <<logins, answers>>
vars    == <<server, currentUser, tabs, screens, signins, signup, showing, form,
             deaths, entered>>

SigningUp == {"creating", "created", "storing", "locating", "saving"}

TypeOK ==
    /\ accounts \subseteq Users
    /\ records \subseteq Users
    /\ currentUser \in Users \cup {NoUser}
    /\ feed \in Users \cup {NoUser}
    /\ profile \in Users \cup {Unloaded}
    /\ queued \in BOOLEAN
    /\ modal \in {"none", "login", "signup"}
    /\ logins \in [Users -> 0..MaxLogins]
    /\ answers \in 0..MaxAnswers
    /\ signup \in [Users -> SigningUp \cup {"none", "done", "unsaved", "failed"}]
    /\ showing \subseteq Users
    /\ form \in [text : BOOLEAN, image : BOOLEAN, enabled : BOOLEAN]
    /\ deaths \in 0..MaxDeaths
    /\ entered \in {"launch", "login", "signup"}

\* The form of a new SignupVC, and while there is none.
EmptyForm == [text |-> FALSE, image |-> FALSE, enabled |-> FALSE]

\* The app is launched for the first time: nobody is signed in.
Init ==
    /\ accounts = Registered
    /\ records = Registered
    /\ currentUser = NoUser
    /\ feed = NoUser
    /\ profile = Unloaded
    /\ queued = TRUE
    /\ modal = "none"
    /\ logins = [u \in Users |-> 0]
    /\ answers = 0
    /\ signup = [u \in Users |-> "none"]
    /\ showing = {}
    /\ form = EmptyForm
    /\ deaths = 0
    /\ entered = "launch"

-----------------------------------------------------------------------------
\* A new MainTabVC for user u: configureViewControllers, and FeedVC.fetchPosts
\* for whoever is signed in.
configureViewControllers(u) == feed' = u /\ profile' = Unloaded

\* Mutant: nobody checks whether the user is logged in.
checkIfUserIsLoggedInNever == queued' = FALSE

checkIfUserIsLoggedIn == queued' = (currentUser = NoUser)

\* The process dies and the scene connects again: requests in flight are gone,
\* though createUser may have made its account, and Auth restores the user.
processDeath ==
    /\ deaths < MaxDeaths
    /\ deaths' = deaths + 1
    /\ \E made \in SUBSET {u \in Users : signup[u] = "creating"} :
           accounts' = accounts \cup made
    /\ configureViewControllers(currentUser)
    /\ checkIfUserIsLoggedIn
    /\ modal' = "none"
    /\ logins' = [u \in Users |-> 0]
    /\ answers' = 0
    /\ signup' = [u \in Users |-> IF signup[u] \in SigningUp THEN "failed"
                                                             ELSE signup[u]]
    /\ showing' = {}
    /\ form' = EmptyForm
    /\ entered' = "launch"
    /\ UNCHANGED <<records, currentUser>>

presentLogin ==
    /\ queued
    /\ queued' = FALSE
    /\ modal' = "login"
    /\ UNCHANGED <<server, currentUser, tabs, signins, signup, showing, deaths,
                   entered, form>>

\* The first selection of the profile tab runs UserProfileVC.viewDidLoad, which
\* needs a current user (TypeOK): fetchPosts unwraps the uid.
selectProfileTab ==
    /\ modal = "none"
    /\ ~queued
    /\ profile = Unloaded
    /\ profile' = currentUser
    /\ UNCHANGED <<server, currentUser, feed, screens, signins, signup, showing,
                   deaths, entered, form>>

handleLogout ==
    /\ modal = "none"
    /\ ~queued
    /\ currentUser' = NoUser
    /\ modal' = "login"
    /\ UNCHANGED <<server, tabs, queued, signins, signup, showing, deaths,
                   entered, form>>

-----------------------------------------------------------------------------
(* LoginVC.                                                                *)

handleShowSignUp ==
    /\ modal = "login"
    /\ modal' = "signup"
    /\ UNCHANGED <<server, currentUser, tabs, queued, signins, signup, showing,
                   deaths, entered, form>>

\* The button stays enabled while a request is in flight.
handleLogin(u) ==
    /\ modal = "login"
    /\ logins[u] < MaxLogins
    /\ logins' = [logins EXCEPT ![u] = @ + 1]
    /\ UNCHANGED <<answers, server, currentUser, tabs, screens, signup, showing, deaths,
                   entered, form>>

signInFailed(u) ==
    /\ logins[u] > 0
    /\ logins' = [logins EXCEPT ![u] = @ - 1]
    /\ UNCHANGED <<answers, server, currentUser, tabs, screens, signup, showing, deaths,
                   entered, form>>

\* Auth's work queue takes the answer to a signIn request: it sets currentUser
\* and puts the completion block on the main queue.
updateCurrentUser(u) ==
    /\ logins[u] > 0
    /\ u \in accounts
    /\ answers < MaxAnswers
    /\ logins' = [logins EXCEPT ![u] = @ - 1]
    /\ answers' = answers + 1
    /\ currentUser' = u
    /\ entered' = "login"
    /\ UNCHANGED <<server, tabs, screens, signup, showing, deaths, form>>

\* Mutant: the login screen is dismissed over the tabs that were there.
signInDoneSameTabs ==
    /\ answers > 0
    /\ answers' = answers - 1
    /\ checkIfUserIsLoggedIn
    /\ modal' = "none"
    /\ showing' = {}
    /\ form' = EmptyForm
    /\ UNCHANGED <<server, currentUser, tabs, logins, signup, deaths, entered>>

\* The completion block, whatever is on screen and whoever is signed in by now:
\* the window gets a new MainTabVC, and with its old root every presented or
\* queued screen goes.
signInDone ==
    /\ answers > 0
    /\ answers' = answers - 1
    /\ configureViewControllers(currentUser)
    /\ checkIfUserIsLoggedIn
    /\ modal' = "none"
    /\ showing' = {}
    /\ form' = EmptyForm
    /\ UNCHANGED <<server, currentUser, logins, signup, deaths, entered>>

-----------------------------------------------------------------------------
(* SignupVC.                                                               *)

handleShowLogin ==
    /\ modal = "signup"
    /\ modal' = "login"
    /\ showing' = {}
    /\ form' = EmptyForm
    /\ UNCHANGED <<server, currentUser, tabs, queued, signins, signup, deaths,
                   entered>>

formValidation(text, image) == text /\ image

\* A text field changes, which runs formValidation.
editingChanged(text) ==
    /\ modal = "signup"
    /\ form' = [form EXCEPT !.text = text,
                            !.enabled = formValidation(text, form.image)]
    /\ UNCHANGED <<server, currentUser, tabs, screens, signins, signup, showing,
                   deaths, entered>>

\* The photo picker returns, with an edited image or without one.  The form is
\* not validated again.
imagePickerController(edited) ==
    /\ modal = "signup"
    /\ form' = [form EXCEPT !.image = edited]
    /\ UNCHANGED <<server, currentUser, tabs, screens, signins, signup, showing,
                   deaths, entered>>

handleSignUp(u) ==
    /\ modal = "signup"
    /\ form.enabled
    /\ signup[u] \in {"none", "failed"}
    /\ signup' = [signup EXCEPT ![u] = "creating"]
    /\ showing' = showing \cup {u}
    /\ UNCHANGED <<server, currentUser, tabs, screens, signins, deaths, entered,
                   form>>

\* createUser has made the account and signs it in on Auth's work queue.
accountCreated(u) ==
    /\ signup[u] = "creating"
    /\ u \notin accounts
    /\ accounts' = accounts \cup {u}
    /\ currentUser' = u
    /\ entered' = "signup"
    /\ signup' = [signup EXCEPT ![u] = "created"]
    /\ UNCHANGED <<records, tabs, screens, signins, showing, deaths, form>>

\* The completion block of createUser: it sends the picture.
createUserDone(u) ==
    /\ signup[u] = "created"
    /\ signup' = [signup EXCEPT ![u] = "storing"]
    /\ UNCHANGED <<server, currentUser, tabs, screens, signins, showing, deaths,
                   entered, form>>

putDataDone(u) ==
    /\ signup[u] = "storing"
    /\ signup' = [signup EXCEPT ![u] = "locating"]
    /\ UNCHANGED <<server, currentUser, tabs, screens, signins, showing, deaths,
                   entered, form>>

downloadURLDone(u) ==
    /\ signup[u] = "locating"
    /\ signup' = [signup EXCEPT ![u] = "saving"]
    /\ UNCHANGED <<server, currentUser, tabs, screens, signins, showing, deaths,
                   entered, form>>

\* createUser, putData or downloadURL answers with an error, or the picture
\* has no JPEG form: the callback returns.  createUser may have made the account
\* and failed to sign it in.
signUpFailed(u) ==
    /\ signup[u] \in {"creating", "created", "storing", "locating"}
    /\ signup' = [signup EXCEPT ![u] = "failed"]
    /\ \/ UNCHANGED accounts
       \/ signup[u] = "creating" /\ accounts' = accounts \cup {u}
    /\ UNCHANGED <<records, currentUser, tabs, screens, signins, showing, deaths,
                   entered, form>>

\* Mutant: the record is saved for whoever is signed in.
recordKeyOfCurrentUser(u) == currentUser

\* The key under users/: the uid of authResult.
recordKey(u) == u

\* Mutant: the completion block is lost with its screen.
saveUserDoneOnScreen(u, ok) ==
    /\ signup[u] = "saving"
    /\ u \in showing
    /\ signup' = [signup EXCEPT ![u] = IF ok THEN "done" ELSE "unsaved"]
    /\ records' = IF ok THEN records \cup ({recordKey(u)} \cap Users)
                        ELSE records
    /\ modal' = "none"
    /\ showing' = {}
    /\ form' = EmptyForm
    /\ UNCHANGED <<accounts, currentUser, tabs, queued, signins, deaths, entered>>

\* The completion block of the users write.  It dismisses its screen, if that
\* is still shown, whether or not the write was accepted.  The window's root is
\* a UINavigationController, so the cast to MainTabVC fails and the tabs stay.
saveUserDone(u, ok) ==
    /\ signup[u] = "saving"
    /\ signup' = [signup EXCEPT ![u] = IF ok THEN "done" ELSE "unsaved"]
    /\ records' = IF ok THEN records \cup ({recordKey(u)} \cap Users)
                        ELSE records
    /\ IF u \in showing THEN modal' = "none" /\ showing' = {} /\ form' = EmptyForm
                         ELSE UNCHANGED <<modal, showing, form>>
    /\ UNCHANGED <<accounts, currentUser, tabs, queued, signins, deaths, entered>>

-----------------------------------------------------------------------------
Next ==
    \/ processDeath
    \/ presentLogin
    \/ selectProfileTab
    \/ handleLogout
    \/ handleShowSignUp
    \/ handleShowLogin
    \/ signInDone
    \/ \E b \in BOOLEAN : editingChanged(b) \/ imagePickerController(b)
    \/ \E u \in Users : \/ handleLogin(u)
                        \/ signInFailed(u)
                        \/ updateCurrentUser(u)
                        \/ handleSignUp(u)
                        \/ accountCreated(u)
                        \/ createUserDone(u)
                        \/ putDataDone(u)
                        \/ downloadURLDone(u)
                        \/ signUpFailed(u)
                        \/ \E ok \in BOOLEAN : saveUserDone(u, ok)

Spec == Init /\ [][Next]_vars

\* The services answer.
Fairness ==
    \A u \in Users :
        /\ WF_vars(accountCreated(u) \/ signUpFailed(u))
        /\ WF_vars(createUserDone(u) \/ signUpFailed(u))
        /\ WF_vars(putDataDone(u) \/ signUpFailed(u))
        /\ WF_vars(downloadURLDone(u) \/ signUpFailed(u))
        /\ WF_vars(\E ok \in BOOLEAN : saveUserDone(u, ok))

FairSpec == Spec /\ Fairness

-----------------------------------------------------------------------------
\* While nobody is signed in the tabs are covered, or about to be, however
\* late the answers to sign-ins and sign-ups arrive: no tab loads its data
\* without a current user (UserProfileVC would unwrap a nil uid).
LoginCovers == currentUser = NoUser => queued \/ modal # "none"

\* After a sign-in, or a launch, every tab that has loaded belongs to the
\* current user, whoever was signed in before and whoever logged out or in
\* while a completion block was waiting; until that has run they may be another
\* user's.
TabsOwned ==
    entered \in {"launch", "login"} /\ currentUser # NoUser /\ answers = 0
        => feed = currentUser /\ profile \in {Unloaded, currentUser}

\* Every entry under users/ is that of an account, even if another account
\* signed in while handleSignUp was under way; an account without an entry is
\* one whose sign-up has not ended, was interrupted or was refused.
AccountsRecorded ==
    /\ records \subseteq accounts
    /\ \A u \in accounts \ records : signup[u] \notin {"none", "done"}

\* Every sign-up ends.
SignupSettles ==
    \A u \in Users : signup[u] \in SigningUp ~> signup[u] \notin SigningUp

\* "configure view controllers in maintabvc": when the sign-up screen has gone
\* the tabs belong to the new account.
TabsConfiguredForNewAccount ==
    \A u \in Users :
        signup[u] = "done" /\ currentUser = u /\ modal = "none" => feed = u

=============================================================================
