------------------------- MODULE UserSessionProofs -------------------------
(***************************************************************************)
(* Proofs, for any set of spaces and any number of requests, that the      *)
(* session state keeps its type and that the thunks change the login flag *)
(* and the active space only as SessionStore allows.                       *)
(***************************************************************************)
EXTENDS UserSession, TLAPS

(***************************************************************************)
(* A callback that answers a request of thunk k and possibly starts a      *)
(* getUserMe keeps the request counters natural.                           *)
(***************************************************************************)
LEMMA AnswerCounters ==
    ASSUME TypeOK, NEW k \in Thunks, Answered(k),
           AnswerThenGetUserMe(k) \/ AnswerOnly(k)
    PROVE  inflight' \in [Thunks -> Nat]
BY DEF TypeOK, Answered, AnswerThenGetUserMe, AnswerOnly, Thunks

LEMMA InitTypeOK == Init => TypeOK
<1> SUFFICES ASSUME Init PROVE TypeOK
    OBVIOUS
<1>1. inflight \in [Thunks -> Nat]
    BY DEF Init
<1>2. issued \in 0 .. MaxRequests
    BY UserAssumption DEF Init
<1>3. QED
    BY <1>1, <1>2 DEF Init, TypeOK

LEMMA NextTypeOK == TypeOK /\ [Next]_vars => TypeOK'
<1> SUFFICES ASSUME TypeOK, [Next]_vars PROVE TypeOK'
    OBVIOUS
<1>1. ASSUME NEW k \in Thunks, Call(k) PROVE TypeOK'
    BY <1>1, UserAssumption DEF Call, TypeOK
<1>2. CASE signInDone
    <2>1. inflight' \in [Thunks -> Nat]
        BY <1>2, AnswerCounters DEF signInDone, Thunks
    <2>2. QED
        BY <1>2, <2>1 DEF signInDone, setHomeErr, TypeOK, Thunks
<1>3. ASSUME NEW k \in Thunks, CodeDone(k) PROVE TypeOK'
    BY <1>3, AnswerCounters DEF CodeDone, setHomeErr, TypeOK
<1>4. CASE pollDone
    BY <1>4, AnswerCounters DEF pollDone, TypeOK, Thunks
<1>5. ASSUME NEW k \in Thunks, AccountChangeDone(k) PROVE TypeOK'
    <2>1. inflight' \in [Thunks -> Nat]
        BY <1>5, AnswerCounters DEF AccountChangeDone
    <2>2. QED
        BY <1>5, <2>1 DEF AccountChangeDone, setHomeErr, TypeOK
<1>6. ASSUME NEW data \in UserData, getUserMeSuccess(data) PROVE TypeOK'
    <2>1. inflight' \in [Thunks -> Nat]
        BY <1>6, AnswerCounters DEF getUserMeSuccess, Thunks
    <2>2. QED
        BY <1>6, <2>1 DEF getUserMeSuccess, setUserMe, setIsLogin, TypeOK, UserData
<1>7. CASE getUserMeFailure
    BY <1>7, AnswerCounters DEF getUserMeFailure, setIsLogin, TypeOK, Thunks
<1>8. CASE UNCHANGED vars
    BY <1>8 DEF vars, TypeOK
<1>9. QED
    BY <1>1, <1>2, <1>3, <1>4, <1>5, <1>6, <1>7, <1>8
    DEF Next, getRegisterCodeDone, getEmailCodeDone, updatePwdDone,
        unBindAccountDone, Thunks

(***************************************************************************)
(* The session state keeps its type: the request counters never go below  *)
(* zero, because every callback answers a request that was sent.           *)
(***************************************************************************)
THEOREM TypeCorrect == Spec => []TypeOK
BY InitTypeOK, NextTypeOK, PTL DEF Spec

-----------------------------------------------------------------------------
(***************************************************************************)
(* Refinement of SessionStore.                                             *)
(***************************************************************************)
LEMMA InitRefines == Init => Session!Init
BY DEF Init, Session!Init

(***************************************************************************)
(* A getUserMe success is a login, activating the user's space when none  *)
(* is active, or, for an account needing a password or a space, a stutter. *)
(***************************************************************************)
LEMMA SuccessRefines ==
    ASSUME NEW data \in UserData, getUserMeSuccess(data)
    PROVE  [Session!Next]_<<isLogin, activeId>>
<1>1. CASE data.needPwd \/ data.needCreate
    BY <1>1 DEF getUserMeSuccess
<1>2. CASE ~(data.needPwd \/ data.needCreate) /\ activeId = NoSpace
    <2>1. data.spaceId \in Spaces
        BY DEF UserData
    <2>2. Session!LoginActivate(data.spaceId)
        BY <1>2 DEF getUserMeSuccess, setIsLogin, Session!LoginActivate
    <2>3. QED
        BY <2>1, <2>2 DEF Session!Next
<1>3. CASE ~(data.needPwd \/ data.needCreate) /\ activeId # NoSpace
    <2>1. Session!LoginKeep
        BY <1>3 DEF getUserMeSuccess, setIsLogin, Session!LoginKeep
    <2>2. QED
        BY <2>1 DEF Session!Next
<1>4. QED
    BY <1>1, <1>2, <1>3

LEMMA NextRefines == [Next]_vars => [Session!Next]_<<isLogin, activeId>>
<1> SUFFICES ASSUME [Next]_vars PROVE [Session!Next]_<<isLogin, activeId>>
    OBVIOUS
<1>1. CASE getUserMeFailure
    BY <1>1 DEF getUserMeFailure, setIsLogin, Session!Next, Session!Logout
<1>2. ASSUME NEW data \in UserData, getUserMeSuccess(data)
      PROVE  [Session!Next]_<<isLogin, activeId>>
    BY <1>2, SuccessRefines
<1>3. CASE ~getUserMeFailure /\ ~\E data \in UserData : getUserMeSuccess(data)
    BY <1>3 DEF Next, vars, Call, signInDone, CodeDone, getRegisterCodeDone,
              getEmailCodeDone, pollDone, AccountChangeDone, updatePwdDone,
              unBindAccountDone
<1>4. QED
    BY <1>1, <1>2, <1>3

(***************************************************************************)
(* Whatever answers arrive and in whatever order, the thunks change the    *)
(* login flag and the active space only as SessionStore allows: a space is *)
(* activated only by a complete login that finds none active, and kept     *)
(* through every later login and logout.                                   *)
(***************************************************************************)
THEOREM Refinement == Spec => ImplementsSessionStore
BY InitRefines, NextRefines, PTL DEF Spec, ImplementsSessionStore, Session!Spec


=============================================================================
