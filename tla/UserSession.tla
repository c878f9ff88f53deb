----------------------------- MODULE UserSession -----------------------------
(***************************************************************************)
(* The session thunks of src/packages/core/src/store/actions/user.ts.      *)
(*                                                                         *)
(* Each thunk sends one request and, when its promise resolves, dispatches *)
(* actions on the store: signIn, poll, updatePwd and unBindAccount start a *)
(* getUserMe on success; getUserMe stores the user and, unless the account *)
(* still needs a password or a space, sets isLogin and, if no space is     *)
(* active, activates the user's space; the code requests report their      *)
(* answer in homeErr.  Any number of requests can be in flight and their   *)
(* answers come back in any order; the callbacks of two answers never      *)
(* interleave (one JavaScript thread), so each is one step.  The user      *)
(* and space slices start as in the mock store of                          *)
(* formula_parser/__tests__/mock_state.ts.                                 *)
(***************************************************************************)
EXTENDS Naturals

CONSTANTS
    Spaces,        \* space ids a getUserMe answer can carry
    NoSpace,       \* space.activeId = '' (no active space)
    NoUser,        \* user.info = null
    NoErr,         \* user.err = null
    MaxRequests    \* bound on the thunks the UI calls, for TLC

ASSUME UserAssumption ==
    /\ NoSpace \notin Spaces
    /\ MaxRequests \in Nat

\* The thunks; a request in flight is counted under its thunk's name.
Thunks == {"signIn", "getRegisterCode", "poll", "getUserMe", "getEmailCode",
           "updatePwd", "unBindAccount"}

\* The user data of a successful getUserMe answer.
UserData == [needPwd : BOOLEAN, needCreate : BOOLEAN, spaceId : Spaces]

VARIABLES
    isLogin,       \* user.isLogin
    info,          \* user.info (setUserMe)
    homeErr,       \* user.err (setHomeErr): NoErr, or the thunk whose answer set it
    activeId,      \* space.activeId
    inflight,      \* inflight[k]: requests of thunk k awaiting their answer
    issued         \* thunks called by the UI so far

vars == <<isLogin, info, homeErr, activeId, inflight, issued>>

Init ==
    /\ isLogin = FALSE
    /\ info = NoUser
    /\ homeErr = NoErr
    /\ activeId = NoSpace
    /\ inflight = [k \in Thunks |-> 0]
    /\ issued = 0

(***************************************************************************)
(* The synchronous action creators the callbacks dispatch; the store's     *)
(* user reducer sets the field named by the action type to the payload.    *)
(***************************************************************************)
setHomeErr(err) == homeErr' = err

setUserMe(user) == info' = user

setIsLogin(status) == isLogin' = status

(***************************************************************************)
(* The UI calls thunk k: its request is sent.                              *)
(***************************************************************************)
Call(k) ==
    /\ issued < MaxRequests
    /\ issued' = issued + 1
    /\ inflight' = [inflight EXCEPT ![k] = @ + 1]
    /\ UNCHANGED <<isLogin, info, homeErr, activeId>>

\* The answer to a request of thunk k is taken off the wire.
Answered(k) == inflight[k] > 0

\* The answer of k arrives and its callback dispatches getUserMe().
AnswerThenGetUserMe(k) ==
    inflight' = [inflight EXCEPT ![k] = @ - 1, !["getUserMe"] = @ + 1]

AnswerOnly(k) ==
    inflight' = [inflight EXCEPT ![k] = @ - 1]

(***************************************************************************)
(* signIn: success -> getUserMe, setHomeErr(null), setHttpErrInfo(null);   *)
(* failure -> setHomeErr({code, msg}).                                     *)
(***************************************************************************)
signInDone ==
    /\ Answered("signIn")
    /\ \/ /\ AnswerThenGetUserMe("signIn")
          /\ setHomeErr(NoErr)
       \/ /\ AnswerOnly("signIn")
          /\ setHomeErr("signIn")
    /\ UNCHANGED <<isLogin, info, activeId, issued>>

\* A code request's answer: setHomeErr({code, msg}) whatever it says.
CodeDone(k) ==
    /\ Answered(k)
    /\ AnswerOnly(k)
    /\ setHomeErr(k)
    /\ UNCHANGED <<isLogin, info, activeId, issued>>

\* getRegisterCode(areaCode, phone) answered.
getRegisterCodeDone == CodeDone("getRegisterCode")

\* getEmailCode(email, type) answered.
getEmailCodeDone == CodeDone("getEmailCode")

(***************************************************************************)
(* poll: success -> getUserMe; otherwise nothing.                          *)
(***************************************************************************)
pollDone ==
    /\ Answered("poll")
    /\ \/ AnswerThenGetUserMe("poll")
       \/ AnswerOnly("poll")
    /\ UNCHANGED <<isLogin, info, homeErr, activeId, issued>>

\* An account change's answer: success -> getUserMe; failure ->
\* setHomeErr({code, msg}).
AccountChangeDone(k) ==
    /\ Answered(k)
    /\ \/ /\ AnswerThenGetUserMe(k)
          /\ UNCHANGED homeErr
       \/ /\ AnswerOnly(k)
          /\ setHomeErr(k)
    /\ UNCHANGED <<isLogin, info, activeId, issued>>

\* updatePwd(password) answered.
updatePwdDone == AccountChangeDone("updatePwd")

\* unBindAccount(type) answered.
unBindAccountDone == AccountChangeDone("unBindAccount")

\* Mutant: the getState() check and setActiveSpaceId hoisted above the
\* needPwd/needCreate return, so an incomplete account activates a space.
getUserMeSuccessEarlyActivate(data) ==
    /\ Answered("getUserMe")
    /\ AnswerOnly("getUserMe")
    /\ setUserMe(data)
    /\ activeId' = IF activeId = NoSpace THEN data.spaceId ELSE activeId
    /\ IF data.needPwd \/ data.needCreate
         THEN UNCHANGED isLogin
         ELSE setIsLogin(TRUE)
    /\ UNCHANGED <<homeErr, issued>>

(***************************************************************************)
(* getUserMe answered with success and data: an account that needs a      *)
(* password or a space only gets setUserMe; otherwise setIsLogin(true),    *)
(* setUserMe(data) and, when getState().space.activeId is empty,           *)
(* setActiveSpaceId(data.spaceId).                                         *)
(***************************************************************************)
getUserMeSuccess(data) ==
    /\ Answered("getUserMe")
    /\ AnswerOnly("getUserMe")
    /\ setUserMe(data)
    /\ IF data.needPwd \/ data.needCreate
         THEN UNCHANGED <<isLogin, activeId>>
         ELSE /\ setIsLogin(TRUE)
              /\ activeId' = IF activeId = NoSpace THEN data.spaceId ELSE activeId
    /\ UNCHANGED <<homeErr, issued>>

(***************************************************************************)
(* getUserMe answered with failure: setIsLogin(false).                     *)
(***************************************************************************)
getUserMeFailure ==
    /\ Answered("getUserMe")
    /\ AnswerOnly("getUserMe")
    /\ setIsLogin(FALSE)
    /\ UNCHANGED <<info, homeErr, activeId, issued>>

Next ==
    \/ \E k \in Thunks : Call(k)
    \/ signInDone
    \/ getRegisterCodeDone
    \/ getEmailCodeDone
    \/ pollDone
    \/ updatePwdDone
    \/ unBindAccountDone
    \/ \E data \in UserData : getUserMeSuccess(data)
    \/ getUserMeFailure

Spec == Init /\ [][Next]_vars

-----------------------------------------------------------------------------
TypeOK ==
    /\ isLogin \in BOOLEAN
    /\ info \in UserData \cup {NoUser}
    /\ homeErr \in Thunks \cup {NoErr}
    /\ activeId \in Spaces \cup {NoSpace}
    /\ inflight \in [Thunks -> Nat]
    /\ issued \in 0 .. MaxRequests

(***************************************************************************)
(* A logged-in session belongs to an account that needs neither a          *)
(* password nor a space: getUserMe returns before setIsLogin(true) for     *)
(* such an account.                                                        *)
(***************************************************************************)
LoggedInUserComplete ==
    isLogin => /\ info # NoUser
               /\ ~info.needPwd
               /\ ~info.needCreate

-----------------------------------------------------------------------------
Session == INSTANCE SessionStore WITH isLogin <- isLogin, activeId <- activeId,
                                     Spaces <- Spaces, NoSpace <- NoSpace

(***************************************************************************)
(* The thunks implement the session store: of everything their callbacks  *)
(* dispatch, only a complete getUserMe answer logs the user in, and it    *)
(* activates the user's space only when getState() shows none active; a   *)
(* failed getUserMe only logs out.  Answers needing a password or a space, *)
(* code requests and errors leave both alone.                              *)
(***************************************************************************)
ImplementsSessionStore == Session!Spec

=============================================================================
