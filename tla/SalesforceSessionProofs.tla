---------------------- MODULE SalesforceSessionProofs ----------------------
(***************************************************************************)
(* Proofs about SalesforceSession: for any number of threads and sessions  *)
(* the client's record of its session is consistent, its threads do not    *)
(* disturb each other, and no session is forgotten.                        *)
(***************************************************************************)
EXTENDS SalesforceSession, TLAPS

-----------------------------------------------------------------------------
(* The inductive invariant *)

\* Whoever is past the mutex holds it, or is the destructor, which is alone.
Owner ==
  /\ \A t \in Thread : pc[t].at \notin {"idle", "lock"} => lck = t \/ pc[t].op = "destroy"
  /\ \A t \in Thread : lck = t => pc[t].at \notin {"idle", "lock"} /\ pc[t].op # "destroy"
  /\ \A t, u \in Thread : pc[t].op = "destroy" /\ t # u => pc[u] = Free
  /\ \A t \in Thread : pc[t].op = "destroy" => destroyed /\ pc[t].at \notin {"idle", "lock"}

\* What each stage of an operation relies on.
Stages ==
  \A t \in Thread :
    /\ pc[t].at \in {"logout", "call", "bye"} => logged_in
    /\ pc[t].at \in {"login", "welcome"} => ~logged_in
    /\ pc[t].at = "welcome" => pc[t].session \in Session
    /\ pc[t].at = "bye" => sessionid \notin alive
    /\ pc[t].op = "none" <=> pc[t].at = "idle"

IInv == SessionTypeOK /\ Owner /\ Stages /\ NoForgottenSession


\* The initial state satisfies the invariant.
LEMMA InitIInv == SessionInit => IInv
<1> SUFFICES ASSUME SessionInit PROVE IInv
  OBVIOUS
<1>1. SessionTypeOK
  <2>1. pc \in [Thread -> [op: Ops, at: Labels, session: Session \cup {None}]]
    BY DEF SessionInit, Free, At, Labels, Ops
  <2>2. 0 \in 0..MaxSessions
    BY SessionAssumption
  <2> QED BY <2>1, <2>2 DEF SessionInit, SessionTypeOK
<1>2. Owner
  BY SessionAssumption DEF SessionInit, Owner, Free, At
<1>3. Stages
  BY SessionAssumption DEF SessionInit, Stages, Free, At
<1>4. NoForgottenSession
  BY DEF SessionInit, NoForgottenSession
<1> QED BY <1>1, <1>2, <1>3, <1>4 DEF IInv

\* A step that begins an operation, takes or releases the mutex keeps it.
LEMMA LockingIInv ==
  ASSUME IInv, NEW t \in Thread,
         \/ \E op \in {"login", "logout", "disconnect", "call"} : Begin(t, op)
         \/ Lock(t) \/ Destroy(t) \/ Unlock(t)
  PROVE  IInv'
<1>1. ASSUME NEW op \in {"login", "logout", "disconnect", "call"}, Begin(t, op)
      PROVE  IInv'
  <2>1. SessionTypeOK'
    BY <1>1, SessionAssumption DEF Begin, IInv, SessionTypeOK, client, server, At, Labels, Ops, Session
  <2>2. Owner'
    BY <1>1, SessionAssumption DEF Begin, IInv, SessionTypeOK, Owner, Stages, client, server, At, Free
  <2>3. Stages'
    BY <1>1, SessionAssumption DEF Begin, IInv, SessionTypeOK, Stages, client, server, At, Free
  <2>4. NoForgottenSession'
    BY <1>1, SessionAssumption DEF Begin, IInv, SessionTypeOK, NoForgottenSession, client, server, At, Free
  <2> QED BY <2>1, <2>2, <2>3, <2>4 DEF IInv
<1>2. CASE Lock(t)
  <2>0. First(pc[t].op) \in {"login", "logout", "call", "unlock"}
        /\ (First(pc[t].op) \in {"logout", "call"} => logged_in)
        /\ (First(pc[t].op) = "login" => ~logged_in)
    BY <1>2 DEF Lock, First, IInv, SessionTypeOK, Owner, Stages, Ops
  <2>1. SessionTypeOK'
    BY <1>2, <2>0, SessionAssumption DEF Lock, Goto, At, IInv, SessionTypeOK, server, Labels, Ops, Session
  <2>2. Owner'
    BY <1>2, <2>0, SessionAssumption DEF Lock, Goto, IInv, SessionTypeOK, Owner, Stages, server, At, Free
  <2>3. Stages'
    BY <1>2, <2>0, SessionAssumption DEF Lock, Goto, At, IInv, SessionTypeOK, Stages, server
  <2>4. NoForgottenSession'
    BY <1>2, <2>0, SessionAssumption DEF Lock, Goto, IInv, SessionTypeOK, NoForgottenSession, server, At
  <2> QED BY <2>1, <2>2, <2>3, <2>4 DEF IInv
<1>3. CASE Destroy(t)
  <2>1. SessionTypeOK'
    BY <1>3, SessionAssumption DEF Destroy, IInv, SessionTypeOK, server, At, Labels, Ops, Session
  <2>2. Owner'
    BY <1>3, SessionAssumption DEF Destroy, IInv, SessionTypeOK, Owner, Stages, server, At, Free
  <2>3. Stages'
    BY <1>3, SessionAssumption DEF Destroy, IInv, SessionTypeOK, Stages, server, At, Free
  <2>4. NoForgottenSession'
    BY <1>3, SessionAssumption DEF Destroy, IInv, SessionTypeOK, NoForgottenSession, server, At, Free
  <2> QED BY <2>1, <2>2, <2>3, <2>4 DEF IInv
<1>4. CASE Unlock(t)
  <2>1. SessionTypeOK'
    BY <1>4, SessionAssumption DEF Unlock, IInv, SessionTypeOK, server, At, Free, Labels, Ops, Session
  <2>2. Owner'
    BY <1>4, SessionAssumption DEF Unlock, IInv, SessionTypeOK, Owner, Stages, server, At, Free
  <2>3. Stages'
    BY <1>4, SessionAssumption DEF Unlock, IInv, SessionTypeOK, Stages, server, At, Free
  <2>4. NoForgottenSession'
    BY <1>4, SessionAssumption DEF Unlock, IInv, SessionTypeOK, NoForgottenSession, server, At, Free
  <2> QED BY <2>1, <2>2, <2>3, <2>4 DEF IInv
<1> QED BY <1>1, <1>2, <1>3, <1>4

\* At most one thread is at a stage that needs the mutex.
LEMMA Exclusive ==
  ASSUME SessionTypeOK, Owner
  PROVE  \A t, u \in Thread :
           pc[t].at \notin {"idle", "lock"} /\ pc[u].at \notin {"idle", "lock"} => t = u
<1> SUFFICES ASSUME NEW t \in Thread, NEW u \in Thread, t # u,
                    pc[t].at \notin {"idle", "lock"}, pc[u].at \notin {"idle", "lock"}
             PROVE  FALSE
  OBVIOUS
<1>1. CASE pc[t].op = "destroy"
  BY <1>1 DEF Owner, Free, At
<1>2. CASE pc[u].op = "destroy"
  BY <1>2 DEF Owner, Free, At
<1>3. CASE pc[t].op # "destroy" /\ pc[u].op # "destroy"
  BY <1>3 DEF Owner
<1> QED BY <1>1, <1>2, <1>3

\* A request, its answer and what the client makes of it keep the invariant.
LEMMA ServingIInv ==
  ASSUME IInv, NEW t \in Thread,
         Unserved(t) \/ ServeLogin(t) \/ ServeSession(t) \/ loginIntern(t) \/ logoutIntern(t)
  PROVE  IInv'
<1>0. \A u, v \in Thread :
        pc[u].at \notin {"idle", "lock"} /\ pc[v].at \notin {"idle", "lock"} => u = v
  BY Exclusive DEF IInv
<1>1. CASE Unserved(t)
  <2>1. SessionTypeOK'
    BY <1>1, SessionAssumption DEF Unserved, Goto, At, IInv, SessionTypeOK, client, server, Labels, Ops, Session
  <2>2. Owner'
    BY <1>1, SessionAssumption DEF Unserved, Goto, IInv, SessionTypeOK, Owner, client, server, At, Free
  <2>3. Stages'
    BY <1>1, SessionAssumption DEF Unserved, Goto, At, IInv, SessionTypeOK, Stages, client, server
  <2>4. NoForgottenSession'
    BY <1>1, SessionAssumption DEF Unserved, Goto, IInv, SessionTypeOK, NoForgottenSession, client, server, At
  <2> QED BY <2>1, <2>2, <2>3, <2>4 DEF IInv
<1>2. CASE ServeLogin(t)
  <2>0. issued + 1 \in Session /\ issued + 1 \in Nat
    BY <1>2, SessionAssumption DEF ServeLogin, IInv, SessionTypeOK, Session
  <2>1. SessionTypeOK'
    <3>1. pc' \in [Thread -> [op: Ops, at: Labels, session: Session \cup {None}]]
      BY <1>2, <2>0 DEF ServeLogin, Goto, At, IInv, SessionTypeOK, Labels, Ops
    <3>2. issued' \in 0..MaxSessions /\ alive' \subseteq 1..issued' /\ lost' \subseteq 1..issued'
      <4>1. issued \in Nat /\ issued' = issued + 1 /\ issued' \in 0..MaxSessions
        BY <1>2, SessionAssumption DEF ServeLogin, IInv, SessionTypeOK
      <4>2. 1..issued \subseteq 1..issued' /\ issued + 1 \in 1..issued'
        BY <4>1
      <4> QED BY <1>2, <4>1, <4>2 DEF ServeLogin, IInv, SessionTypeOK
    <3> QED BY <1>2, <3>1, <3>2 DEF ServeLogin, IInv, SessionTypeOK, client
  <2>2. Owner'
    BY <1>2, <2>0, SessionAssumption DEF ServeLogin, Goto, IInv, SessionTypeOK, Owner, client, At, Free
  <2>3. Stages'
    BY <1>2, <2>0, <1>0, SessionAssumption DEF ServeLogin, Goto, IInv, SessionTypeOK, Stages, client, At, Session
  <2>4. NoForgottenSession'
    <3> DEFINE Given(u, s) == pc[u].at = "welcome" /\ pc[u].session = s
    <3>1. SUFFICES ASSUME NEW s \in alive'
                   PROVE  s = sessionid \/ s \in lost' \/ \E u \in Thread : Given(u, s)'
      BY <1>2 DEF ServeLogin, NoForgottenSession, client
    <3>2. CASE s = issued + 1
      BY <1>2, <3>2 DEF ServeLogin, Goto, At, IInv, SessionTypeOK
    <3>3. CASE s # issued + 1
      <4>1. s \in alive
        BY <1>2, <3>3 DEF ServeLogin
      <4>2. CASE s = sessionid \/ s \in lost
        BY <1>2, <4>2 DEF ServeLogin
      <4>3. ASSUME NEW u \in Thread, Given(u, s)
            PROVE  Given(u, s)'
        BY <1>2, <4>3 DEF ServeLogin, Goto, At, IInv, SessionTypeOK
      <4> QED BY <4>1, <4>2, <4>3 DEF IInv, NoForgottenSession
    <3> QED BY <3>2, <3>3
  <2> QED BY <2>1, <2>2, <2>3, <2>4 DEF IInv
<1>3. CASE ServeSession(t)
  <2>1. SessionTypeOK'
    BY <1>3, SessionAssumption DEF ServeSession, Goto, At, IInv, SessionTypeOK, client, Labels, Ops, Session
  <2>2. Owner'
    BY <1>3, SessionAssumption DEF ServeSession, Goto, IInv, SessionTypeOK, Owner, client, At, Free
  <2>3. Stages'
    BY <1>3, <1>0, SessionAssumption DEF ServeSession, Goto, At, IInv, SessionTypeOK, Stages, client
  <2>4. NoForgottenSession'
    BY <1>3, SessionAssumption DEF ServeSession, Goto, IInv, SessionTypeOK, NoForgottenSession, client, At
  <2> QED BY <2>1, <2>2, <2>3, <2>4 DEF IInv
<1>4. CASE loginIntern(t)
  <2>0. pc[t].session \in Session /\ ~logged_in /\ sessionid = None
    BY <1>4 DEF loginIntern, IInv, Stages, SessionTypeOK
  <2>1. SessionTypeOK'
    BY <1>4, <2>0, SessionAssumption DEF loginIntern, IInv, SessionTypeOK, server, At, Labels, Ops, Session
  <2>2. Owner'
    BY <1>4, <2>0, SessionAssumption DEF loginIntern, IInv, SessionTypeOK, Owner, server, At, Free
  <2>3. Stages'
    BY <1>4, <2>0, <1>0, SessionAssumption DEF loginIntern, IInv, SessionTypeOK, Stages, server, At
  <2>4. NoForgottenSession'
    BY <1>4, <2>0, <1>0, SessionAssumption DEF loginIntern, IInv, SessionTypeOK, NoForgottenSession, server, At, Session
  <2> QED BY <2>1, <2>2, <2>3, <2>4 DEF IInv
<1>5. CASE logoutIntern(t)
  <2>0. sessionid \notin alive
    BY <1>5 DEF logoutIntern, IInv, Stages
  <2>1. SessionTypeOK'
    BY <1>5, SessionAssumption DEF logoutIntern, Goto, At, IInv, SessionTypeOK, server, Labels, Ops, Session
  <2>2. Owner'
    BY <1>5, SessionAssumption DEF logoutIntern, Goto, IInv, SessionTypeOK, Owner, server, At, Free
  <2>3. Stages'
    BY <1>5, <1>0, SessionAssumption DEF logoutIntern, Goto, At, IInv, SessionTypeOK, Stages, server, Session
  <2>4. NoForgottenSession'
    BY <1>5, <2>0, SessionAssumption DEF logoutIntern, Goto, IInv, SessionTypeOK, NoForgottenSession, server, At
  <2> QED BY <2>1, <2>2, <2>3, <2>4 DEF IInv
<1> QED BY <1>1, <1>2, <1>3, <1>4, <1>5

\* The end of a session on the server's side keeps the invariant.
LEMMA ExpireIInv ==
  ASSUME IInv, NEW s \in Session, Expire(s)
  PROVE  IInv'
  BY DEF Expire, IInv, SessionTypeOK, Owner, Stages, NoForgottenSession, client

\* The invariant of the whole specification: the argument behind the theorems.
THEOREM Invariance == SessionSpec => []IInv
<1>1. IInv /\ [SessionNext]_fvars => IInv'
  <2> SUFFICES ASSUME IInv, [SessionNext]_fvars PROVE IInv'
    OBVIOUS
  <2>1. CASE UNCHANGED fvars
    BY <2>1 DEF fvars, IInv, SessionTypeOK, Owner, Stages, NoForgottenSession
  <2>2. CASE SessionNext
    BY <2>2, LockingIInv, ServingIInv, ExpireIInv DEF SessionNext, Progress
  <2> QED BY <2>1, <2>2
<1> QED BY InitIInv, <1>1, PTL DEF SessionSpec

\* In every state the client is logged in exactly when it has a session and sends
\* its requests to the server of this session.
THEOREM SessionConsistent == SessionSpec => []SessionTypeOK
  BY Invariance, PTL DEF IInv

\* No valid session is forgotten by the client, unless its login was not answered.
THEOREM NoneForgotten == SessionSpec => []NoForgottenSession
  BY Invariance, PTL DEF IInv

\* No session is replaced or ended under a thread that waits for the server.
THEOREM RequestsExclude == SessionSpec => []OneRequest
<1>1. IInv => OneRequest
  BY Exclusive DEF IInv, OneRequest, Served
<1> QED BY <1>1, Invariance, PTL
=============================================================================
