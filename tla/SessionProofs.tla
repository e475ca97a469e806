----------------------------- MODULE SessionProofs -----------------------------
(***************************************************************************)
(* Proofs about Session, for every set of accounts and every bound.        *)
(***************************************************************************)
EXTENDS Session, TLAPS

\* Past createUser: the account of the sign-up exists and has been signed in.
Created == {"created", "storing", "locating", "saving"}

\* The login screen is queued only while nothing is presented, and a sign-up
\* is still on screen only under the sign-up screen.
ScreensFit ==
    /\ queued => modal = "none"
    /\ showing # {} => modal = "signup"

\* As long as the screen of a sign-up is shown nobody can log out, so whom it
\* has signed in, or somebody else, is the current user when it is dismissed.
ShownIsSignedIn ==
    \A u \in showing : signup[u] \in Created => currentUser # NoUser

\* The inductive invariant.  LoginCovers is a part of TypeOK's proof and needs
\* the other two: the end of a sign-up dismisses a screen.
SessionInv == TypeOK /\ LoginCovers /\ ScreensFit /\ ShownIsSignedIn

LEMMA InitSession == Init => SessionInv
  <1> SUFFICES ASSUME Init PROVE SessionInv
    OBVIOUS
  <1> USE UsersAssumption, NamesAssumption, BoundsAssumption
  <1>1. TypeOK
    BY DEF Init, TypeOK, EmptyForm, SigningUp
  <1>2. LoginCovers /\ ScreensFit /\ ShownIsSignedIn
    BY DEF Init, LoginCovers, ScreensFit, ShownIsSignedIn
  <1>3. QED
    BY <1>1, <1>2 DEF SessionInv

LEMMA NextSession == SessionInv /\ [Next]_vars => SessionInv'
  <1> SUFFICES ASSUME SessionInv, [Next]_vars PROVE SessionInv'
    OBVIOUS
  <1> USE UsersAssumption, NamesAssumption, BoundsAssumption
  <1> USE DEF SessionInv, TypeOK, LoginCovers, ScreensFit, ShownIsSignedIn,
              server, tabs, screens, signins, SigningUp, Created
  <1>1. CASE processDeath
    <2>1. /\ logins' \in [Users -> 0..MaxLogins]
          /\ signup' \in [Users -> SigningUp \cup {"none", "done", "unsaved", "failed"}]
          /\ answers' \in 0..MaxAnswers
          /\ deaths' \in 0..MaxDeaths
      BY <1>1 DEF processDeath
    <2>2. queued' = (currentUser = NoUser) /\ queued' \in BOOLEAN
      BY <1>1 DEF processDeath, checkIfUserIsLoggedIn
    <2>3. TypeOK'
      BY <1>1, <2>1, <2>2 DEF processDeath, configureViewControllers, EmptyForm
    <2>4. LoginCovers' /\ ScreensFit' /\ ShownIsSignedIn'
      BY <1>1, <2>2 DEF processDeath
    <2>5. QED
      BY <2>3, <2>4
  <1>2. CASE presentLogin
    BY <1>2 DEF presentLogin
  <1>3. CASE selectProfileTab
    BY <1>3 DEF selectProfileTab
  <1>4. CASE handleLogout
    BY <1>4 DEF handleLogout
  <1>5. CASE handleShowSignUp
    BY <1>5 DEF handleShowSignUp
  <1>6. CASE handleShowLogin
    BY <1>6 DEF handleShowLogin, EmptyForm
  <1>7. ASSUME NEW b \in BOOLEAN, editingChanged(b) PROVE SessionInv'
    BY <1>7 DEF editingChanged, formValidation
  <1>8. ASSUME NEW b \in BOOLEAN, imagePickerController(b) PROVE SessionInv'
    <2>1. form' \in [text : BOOLEAN, image : BOOLEAN, enabled : BOOLEAN]
      BY <1>8, ZenonT(30) DEF imagePickerController
    <2>2. QED
      BY <1>8, <2>1 DEF imagePickerController
  <1>9. ASSUME NEW u \in Users, handleLogin(u) PROVE SessionInv'
    BY <1>9 DEF handleLogin
  <1>10. ASSUME NEW u \in Users, signInFailed(u) PROVE SessionInv'
    BY <1>10 DEF signInFailed
  <1>11. ASSUME NEW u \in Users, updateCurrentUser(u) PROVE SessionInv'
    <2>1. logins' \in [Users -> 0..MaxLogins] /\ answers' \in 0..MaxAnswers
      BY <1>11 DEF updateCurrentUser
    <2>2. TypeOK'
      BY <1>11, <2>1 DEF updateCurrentUser
    <2>3. LoginCovers' /\ ScreensFit' /\ ShownIsSignedIn'
      BY <1>11 DEF updateCurrentUser
    <2>4. QED
      BY <2>2, <2>3
  <1>12. ASSUME NEW u \in Users, handleSignUp(u) PROVE SessionInv'
    BY <1>12 DEF handleSignUp
  <1>13. ASSUME NEW u \in Users, accountCreated(u) \/ createUserDone(u)
         PROVE  SessionInv'
    BY <1>13 DEF accountCreated, createUserDone
  <1>14. ASSUME NEW u \in Users, putDataDone(u) PROVE SessionInv'
    BY <1>14 DEF putDataDone
  <1>15. ASSUME NEW u \in Users, downloadURLDone(u) PROVE SessionInv'
    BY <1>15 DEF downloadURLDone
  <1>16. ASSUME NEW u \in Users, signUpFailed(u) PROVE SessionInv'
    BY <1>16 DEF signUpFailed
  <1>17. ASSUME NEW u \in Users, NEW ok \in BOOLEAN, saveUserDone(u, ok)
         PROVE  SessionInv'
    <2>1. CASE u \in showing
      <3>1. form' \in [text : BOOLEAN, image : BOOLEAN, enabled : BOOLEAN]
        <4>1. form' = EmptyForm
          BY <1>17, <2>1 DEF saveUserDone
        <4>2. EmptyForm \in [text : BOOLEAN, image : BOOLEAN, enabled : BOOLEAN]
          BY DEF EmptyForm
        <4>3. QED
          BY <4>1, <4>2
      <3>2. TypeOK'
        BY <1>17, <2>1, <3>1 DEF saveUserDone, recordKey
      <3>3. currentUser # NoUser /\ ~queued
        BY <1>17, <2>1 DEF saveUserDone
      <3>4. LoginCovers' /\ ScreensFit' /\ ShownIsSignedIn'
        BY <1>17, <2>1, <3>3 DEF saveUserDone
      <3>5. QED
        BY <3>2, <3>4
    <2>2. CASE u \notin showing
      BY <1>17, <2>2 DEF saveUserDone, recordKey
    <2>3. QED
      BY <2>1, <2>2
  <1>18. CASE signInDone
    <2>1. answers' \in 0..MaxAnswers
      BY <1>18 DEF signInDone
    <2>2. queued' = (currentUser = NoUser) /\ queued' \in BOOLEAN
      BY <1>18 DEF signInDone, checkIfUserIsLoggedIn
    <2>3. TypeOK'
      BY <1>18, <2>1, <2>2 DEF signInDone, configureViewControllers, EmptyForm
    <2>4. LoginCovers' /\ ScreensFit' /\ ShownIsSignedIn'
      BY <1>18, <2>2 DEF signInDone
    <2>5. QED
      BY <2>3, <2>4
  <1>19. CASE UNCHANGED vars
    BY <1>19 DEF vars
  <1>20. QED
    BY <1>1, <1>2, <1>3, <1>4, <1>5, <1>6, <1>7, <1>8, <1>9, <1>10, <1>11,
       <1>12, <1>13, <1>14, <1>15, <1>16, <1>17, <1>18, <1>19 DEF Next

\* Every reachable state is well typed.  In particular no tab ever loads its
\* data for nobody: UserProfileVC.fetchPosts finds a uid to unwrap.
THEOREM TypeCorrect == Spec => []TypeOK
  <1>1. SessionInv => TypeOK
    BY DEF SessionInv
  <1>2. QED
    BY InitSession, NextSession, <1>1, PTL DEF Spec

\* While nobody is signed in the tabs are covered or about to be, however late
\* the answers to signIn and to the steps of handleSignUp arrive.
THEOREM LoginAlwaysCovers == Spec => []LoginCovers
  <1>1. SessionInv => LoginCovers
    BY DEF SessionInv
  <1>2. QED
    BY InitSession, NextSession, <1>1, PTL DEF Spec

-----------------------------------------------------------------------------
(* Whose tabs are shown.                                                   *)

\* After a sign-in (LoginVC) or a launch (SceneDelegate) every loaded tab
\* belongs to the current user, whatever happened between Auth's setting of
\* currentUser and the completion block on the main queue.
THEOREM TabsSafe == Spec => []TabsOwned
  <1> USE NamesAssumption
  <1> USE DEF TabsOwned, server, tabs, screens, signins
  <1>1. Init => TabsOwned
    BY DEF Init
  <1>2. TypeOK /\ TabsOwned /\ [Next]_vars => TabsOwned'
    <2> SUFFICES ASSUME TypeOK, TabsOwned, [Next]_vars PROVE TabsOwned'
      OBVIOUS
    <2>1. CASE processDeath
      BY <2>1 DEF processDeath, configureViewControllers
    <2>2. CASE handleLogout
      BY <2>2 DEF handleLogout
    <2>3. CASE selectProfileTab
      BY <2>3 DEF selectProfileTab
    <2>4. CASE signInDone
      BY <2>4 DEF signInDone, configureViewControllers
    <2>5. ASSUME NEW u \in Users, updateCurrentUser(u) PROVE TabsOwned'
      BY <2>5, BoundsAssumption DEF updateCurrentUser, TypeOK
    <2>6. ASSUME NEW u \in Users, accountCreated(u) PROVE TabsOwned'
      BY <2>6 DEF accountCreated
    <2>7. CASE UNCHANGED <<currentUser, tabs, answers, entered>>
      BY <2>7
    <2>8. QED
      BY <2>1, <2>2, <2>3, <2>4, <2>5, <2>6, <2>7
         DEF Next, vars, presentLogin, handleShowSignUp, handleShowLogin,
             editingChanged, imagePickerController, handleLogin, signInFailed,
             handleSignUp, createUserDone, putDataDone, downloadURLDone,
             signUpFailed, saveUserDone
  <1>3. QED
    BY <1>1, <1>2, TypeCorrect, PTL DEF Spec

-----------------------------------------------------------------------------
(* Sign-ups.                                                               *)

\* Every entry under users/ is that of an account, and an account without an
\* entry is one whose handleSignUp has not ended, was interrupted or was
\* refused, whoever is the current user when its callbacks run.  A sign-up past
\* createUser needs its account to be there.
THEOREM AccountsSafe == Spec => []AccountsRecorded
  <1> DEFINE Made == \A u \in Users : signup[u] \in Created => u \in accounts
  <1> USE DEF AccountsRecorded, Created, server, tabs, screens, signins
  <1>1. Init => AccountsRecorded /\ Made
    BY UsersAssumption DEF Init
  <1>2. TypeOK /\ AccountsRecorded /\ Made /\ [Next]_vars => AccountsRecorded' /\ Made'
    <2> SUFFICES ASSUME TypeOK, AccountsRecorded, Made, [Next]_vars
                 PROVE  AccountsRecorded' /\ Made'
      OBVIOUS
    <2> USE DEF TypeOK
    <2>1. CASE processDeath
      BY <2>1 DEF processDeath, SigningUp
    <2>2. ASSUME NEW u \in Users, accountCreated(u) PROVE AccountsRecorded' /\ Made'
      BY <2>2 DEF accountCreated
    <2>3. ASSUME NEW u \in Users,
                 handleSignUp(u) \/ createUserDone(u) \/ putDataDone(u)
                     \/ downloadURLDone(u) \/ signUpFailed(u)
          PROVE  AccountsRecorded' /\ Made'
      BY <2>3 DEF handleSignUp, createUserDone, putDataDone, downloadURLDone,
                  signUpFailed
    <2>4. ASSUME NEW u \in Users, NEW ok \in BOOLEAN, saveUserDone(u, ok)
          PROVE  AccountsRecorded' /\ Made'
      BY <2>4 DEF saveUserDone, recordKey
    <2>5. CASE UNCHANGED <<server, signup>>
      BY <2>5
    <2>6. QED
      BY <2>1, <2>2, <2>3, <2>4, <2>5
         DEF Next, vars, presentLogin, selectProfileTab, handleLogout,
             handleShowSignUp, handleShowLogin, editingChanged,
             imagePickerController, handleLogin, signInFailed, updateCurrentUser,
             signInDone
  <1>3. QED
    BY <1>1, <1>2, TypeCorrect, PTL DEF Spec

=============================================================================
