------------------------- MODULE SalesforceSession -------------------------
(***************************************************************************)
(* SalesforceSoapClient (qlib/SalesforceSoapClient.qm): several threads    *)
(* share a client that logs in when it is first used and keeps the session *)
(* id and the server URL it was given.                                     *)
(*                                                                         *)
(* Every public operation holds the mutex "lck", also while it waits for   *)
(* the server.  The destructor does not take it.  The server (external)    *)
(* may not get a request, its answer may be lost, and it may end a session *)
(* on its own.                                                             *)
(***************************************************************************)
EXTENDS Integers

CONSTANTS
  Thread,         \* threads that use the client
  force_logout,   \* the option of the same name
  MaxSessions,    \* bound: sessions the server issues
  None

ASSUME SessionAssumption ==
  /\ MaxSessions \in Nat
  /\ force_logout \in BOOLEAN
  /\ None \notin Thread
  /\ None \notin Nat

Session == 1..MaxSessions

VARIABLES
  lck,         \* the thread that holds the mutex, or None
  logged_in,
  sessionid,   \* a session or None
  serverurl,   \* the session whose login answered it, or None
  url,         \* where requests go: that of the WSDL (0) or a session's
  pc,          \* [Thread -> where it is in which operation, and the answer]
  destroyed,   \* the destructor has begun
  issued,      \* server: sessions issued so far
  alive,       \* server: sessions that are valid
  lost         \* history: sessions whose login was not answered

client == <<lck, logged_in, sessionid, serverurl, url, destroyed>>
server == <<issued, alive, lost>>
fvars == <<lck, logged_in, sessionid, serverurl, url, pc, destroyed, issued, alive, lost>>

At(op, label, s) == [op |-> op, at |-> label, session |-> s]
Free == At("none", "idle", None)
Goto(t, label) == pc' = [pc EXCEPT ![t] = At(pc[t].op, label, pc[t].session)]

-----------------------------------------------------------------------------
(* The operations *)

Begin(t, op) ==
  /\ pc[t] = Free /\ ~destroyed
  /\ pc' = [pc EXCEPT ![t] = At(op, "lock", None)]
  /\ UNCHANGED <<client, server>>

\* The first request of an operation, if it needs one.
First(op) ==
  IF op \in {"login", "call"} /\ ~logged_in THEN "login"
  ELSE IF op = "call" THEN "call"
  ELSE IF logged_in /\ (op = "logout" \/ (op = "disconnect" /\ force_logout)) THEN "logout"
  ELSE "unlock"

\* Slip: logged_in is looked at before the mutex is free.
Lock_Unguarded(t) ==
  /\ pc[t].at = "lock"
  /\ lck' = t
  /\ Goto(t, First(pc[t].op))
  /\ UNCHANGED <<logged_in, sessionid, serverurl, url, destroyed, server>>

Lock(t) ==
  /\ pc[t].at = "lock"
  /\ lck = None
  /\ lck' = t
  /\ Goto(t, First(pc[t].op))
  /\ UNCHANGED <<logged_in, sessionid, serverurl, url, destroyed, server>>

\* The destructor: nobody uses the object any more.
Destroy(t) ==
  /\ \A u \in Thread : pc[u] = Free
  /\ ~destroyed /\ destroyed' = TRUE
  /\ pc' = [pc EXCEPT ![t] =
              At("destroy", IF logged_in /\ force_logout THEN "logout" ELSE "unlock", None)]
  /\ UNCHANGED <<lck, logged_in, sessionid, serverurl, url, server>>

\* Slip: an exception leaves the mutex locked.
Unlock_Success(t) ==
  /\ pc[t].at = "unlock"
  /\ lck' = IF lck = t THEN None ELSE lck
  /\ pc' = [pc EXCEPT ![t] = Free]
  /\ UNCHANGED <<logged_in, sessionid, serverurl, url, destroyed, server>>

\* on_exit: the operation returned or raised an exception.
Unlock(t) ==
  /\ pc[t].at \in {"unlock", "failed"}
  /\ lck' = IF lck = t THEN None ELSE lck
  /\ pc' = [pc EXCEPT ![t] = Free]
  /\ UNCHANGED <<logged_in, sessionid, serverurl, url, destroyed, server>>

-----------------------------------------------------------------------------
(* callIntern(): a request, with the session id if there is one *)

\* The request does not get through, or is refused.
Unserved(t) ==
  /\ pc[t].at \in {"login", "logout", "call"}
  /\ Goto(t, "failed")
  /\ UNCHANGED <<client, server>>

\* The server issues a session; the thread gets the answer or an exception.
ServeLogin(t) ==
  LET s == issued + 1 IN
  /\ pc[t].at = "login"
  /\ issued < MaxSessions
  /\ issued' = s
  /\ alive' = alive \cup {s}
  /\ \/ pc' = [pc EXCEPT ![t] = At(pc[t].op, "welcome", s)] /\ lost' = lost
     \/ Goto(t, "failed") /\ lost' = lost \cup {s}
  /\ UNCHANGED client

\* The server ends the session or serves the call, for the session's own URL
\* and a valid session only.
ServeSession(t) ==
  /\ pc[t].at \in {"logout", "call"}
  /\ sessionid \in alive /\ url = sessionid
  /\ alive' = IF pc[t].at = "logout" THEN alive \ {sessionid} ELSE alive
  /\ \/ Goto(t, IF pc[t].at = "logout" THEN "bye" ELSE "unlock")
     \/ Goto(t, "failed")
  /\ UNCHANGED <<client, issued, lost>>

\* Slip: the requests go on to the old URL.
loginIntern_OldUrl(t) ==
  /\ pc[t].at = "welcome"
  /\ serverurl' = pc[t].session /\ sessionid' = pc[t].session
  /\ logged_in' = TRUE
  /\ pc' = [pc EXCEPT ![t] =
              At(pc[t].op, IF pc[t].op = "call" THEN "call" ELSE "unlock", None)]
  /\ UNCHANGED <<lck, url, destroyed, server>>

\* loginIntern() after the answer: the call that needed it is made.
loginIntern(t) ==
  /\ pc[t].at = "welcome"
  /\ serverurl' = pc[t].session
  /\ sessionid' = pc[t].session
  /\ url' = pc[t].session
  /\ logged_in' = TRUE
  /\ pc' = [pc EXCEPT ![t] =
              At(pc[t].op, IF pc[t].op = "call" THEN "call" ELSE "unlock", None)]
  /\ UNCHANGED <<lck, destroyed, server>>

\* Slip: an unanswered logout counts as one.
logoutIntern_Always(t) ==
  /\ pc[t].at \in {"bye", "failed"} /\ pc[t].op # "call"
  /\ logged_in' = FALSE /\ serverurl' = None /\ sessionid' = None
  /\ Goto(t, "unlock")
  /\ UNCHANGED <<lck, url, destroyed, server>>

\* logoutIntern() after the answer: url stays the last session's.
logoutIntern(t) ==
  /\ pc[t].at = "bye"
  /\ logged_in' = FALSE
  /\ serverurl' = None
  /\ sessionid' = None
  /\ Goto(t, "unlock")
  /\ UNCHANGED <<lck, url, destroyed, server>>

\* The server ends a session nobody logged out of.
Expire(s) ==
  /\ s \in alive
  /\ alive' = alive \ {s}
  /\ UNCHANGED <<client, pc, issued, lost>>

-----------------------------------------------------------------------------
SessionInit ==
  /\ lck = None
  /\ logged_in = FALSE
  /\ sessionid = None
  /\ serverurl = None
  /\ url = 0
  /\ pc = [t \in Thread |-> Free]
  /\ destroyed = FALSE
  /\ issued = 0
  /\ alive = {}
  /\ lost = {}

Progress(t) ==
  Unserved(t) \/ ServeLogin(t) \/ ServeSession(t) \/ loginIntern(t) \/ logoutIntern(t) \/ Unlock(t)

SessionNext ==
  \/ \E t \in Thread :
       \/ \E op \in {"login", "logout", "disconnect", "call"} : Begin(t, op)
       \/ Lock(t) \/ Progress(t) \/ Destroy(t)
  \/ \E s \in Session : Expire(s)

\* Fairness: a request is answered or times out, and the thread goes on.
SessionSpec ==
  SessionInit /\ [][SessionNext]_fvars /\ \A t \in Thread : WF_fvars(Progress(t))

-----------------------------------------------------------------------------
(* Properties *)

Labels == {"idle", "lock", "login", "logout", "call", "welcome", "bye", "unlock", "failed"}
Ops == {"none", "login", "logout", "disconnect", "call", "destroy"}

\* Types, and: the client is logged in exactly when it has a session and the
\* server URL of this session, to which its requests go.
SessionTypeOK ==
  /\ lck \in Thread \cup {None}
  /\ logged_in \in BOOLEAN
  /\ sessionid \in Session \cup {None}
  /\ logged_in <=> sessionid # None
  /\ serverurl = sessionid
  /\ logged_in => url = sessionid
  /\ url \in 0..MaxSessions
  /\ pc \in [Thread -> [op: Ops, at: Labels, session: Session \cup {None}]]
  /\ destroyed \in BOOLEAN
  /\ issued \in 0..MaxSessions
  /\ alive \subseteq 1..issued
  /\ lost \subseteq 1..issued

\* Threads that use the client at the same time do not log in twice: the server
\* has no valid session but the client's, the one a thread is being given, and
\* those whose login was not answered.
NoForgottenSession ==
  \A s \in alive :
    \/ s = sessionid \/ s \in lost
    \/ \E t \in Thread : pc[t].at = "welcome" /\ pc[t].session = s

Served == {"login", "logout", "call", "welcome", "bye"}

\* A thread that waits for the server to log in, to log out or to answer a call
\* is alone: the session is not replaced or ended under it.
OneRequest ==
  \A t, u \in Thread :
    pc[t].at \in Served /\ pc[u].at \in Served => t = u

\* The mutex is released, also when an operation ends with an exception.
LockReleased == \A t \in Thread : lck = t ~> lck # t
=============================================================================
