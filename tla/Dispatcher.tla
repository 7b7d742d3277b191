----------------------------- MODULE Dispatcher -----------------------------
(***************************************************************************)
(* The request dispatcher of Playground/Dispatcher/main.cpp.  A worker     *)
(* process calls /solicit, which blocks until a client's request arrives   *)
(* and returns it, and then posts the answer to /result.  Every other URI  *)
(* is a client's request: it is handed to a waiting solicitor and blocks   *)
(* until a result is signalled.  Every HTTP request runs in a thread of    *)
(* its own; mClientMutex is held for the whole of a client's call.         *)
(*                                                                         *)
(* The critical sections of mRequestMutex and mResultMutex, from the lock  *)
(* or the return of wait() to the unlock or the next wait(), are single    *)
(* actions.  Poco's conditions have no predicates here: a signal wakes one *)
(* waiting thread, and is forgotten if there is none.                      *)
(***************************************************************************)
EXTENDS Naturals, FiniteSets

CONSTANTS Clients,          \* client requests, each with a text of its own
          Workers,          \* processes that solicit and post results
          None              \* no text yet

\* What the definitions take for granted.
DispatcherParameters == None \notin Clients

VARIABLES mSolicitor, mRequest, mResult,
          holder,           \* who holds mClientMutex, or None
          client,           \* where each client's call is
          worker,           \* where each worker is
          got,              \* the request a worker has been given
          answer,           \* the result a client has been sent
          missed            \* history: requests whose result was signalled
                            \* to nobody

vars == <<mSolicitor, mRequest, mResult, holder, client, worker, got, answer,
          missed>>

TypeOK ==
    /\ mSolicitor \in BOOLEAN
    /\ mRequest \in Clients \cup {None}
    /\ mResult \in Clients \cup {None}
    /\ holder \in Clients \cup {None}
    /\ client \in [Clients -> {"start", "locked", "handed", "waiting",
                               "signalled", "refused", "answered"}]
    /\ worker \in [Workers -> {"idle", "waiting", "signalled", "working"}]
    /\ got \in [Workers -> Clients \cup {None}]
    /\ \A w \in Workers : worker[w] = "working" <=> got[w] # None
    /\ answer \in [Clients -> Clients \cup {None}]
    /\ missed \subseteq Clients

Init ==
    /\ mSolicitor = FALSE
    /\ mRequest = None /\ mResult = None
    /\ holder = None
    /\ client = [c \in Clients |-> "start"]
    /\ worker = [w \in Workers |-> "idle"]
    /\ got = [w \in Workers |-> None]
    /\ answer = [c \in Clients |-> None]
    /\ missed = {}
-----------------------------------------------------------------------------
(* Mutations of the actions below, each a bug that one property catches *)

\* mSolicitor stays set.
SendAndKeepSet(w) ==
    /\ worker[w] = "signalled"
    /\ got' = [got EXCEPT ![w] = mRequest]
    /\ worker' = [worker EXCEPT ![w] = "working"]
    /\ UNCHANGED <<mSolicitor, mRequest, mResult, holder, client, answer,
                   missed>>

\* Clients do not exclude each other.
EnterUnlocked(c) ==
    /\ client[c] = "start"
    /\ holder' = c
    /\ client' = [client EXCEPT ![c] = "locked"]
    /\ UNCHANGED <<mSolicitor, mRequest, mResult, worker, got, answer, missed>>

\* The solicitor is not signalled.
HandToNobody(c) ==
    /\ client[c] = "locked"
    /\ mSolicitor
    /\ mRequest' = c
    /\ client' = [client EXCEPT ![c] = "handed"]
    /\ UNCHANGED <<mSolicitor, mResult, holder, worker, got, answer, missed>>

\* mClientMutex is released before the wait.
WaitUnlocked(c) ==
    /\ client[c] = "handed"
    /\ client' = [client EXCEPT ![c] = "waiting"]
    /\ holder' = None
    /\ UNCHANGED <<mSolicitor, mRequest, mResult, worker, got, answer, missed>>
-----------------------------------------------------------------------------
(* solicit() *)

Solicit(w) ==
    /\ worker[w] = "idle"
    /\ mSolicitor' = TRUE
    /\ worker' = [worker EXCEPT ![w] = "waiting"]
    /\ UNCHANGED <<mRequest, mResult, holder, client, got, answer, missed>>

\* wait() returns: send mRequest; `unset' clears mSolicitor, no matter
\* whether another solicitor is waiting.
SendRequest(w) ==
    /\ worker[w] = "signalled"
    /\ got' = [got EXCEPT ![w] = mRequest]
    /\ mSolicitor' = FALSE
    /\ worker' = [worker EXCEPT ![w] = "working"]
    /\ UNCHANGED <<mRequest, mResult, holder, client, answer, missed>>

\* result(), called by a worker for the request it has been given.
Result(w) ==
    /\ worker[w] = "working"
    /\ mResult' = got[w]
    /\ \/ \E c \in Clients :
            /\ client[c] = "waiting"
            /\ client' = [client EXCEPT ![c] = "signalled"]
            /\ UNCHANGED missed
       \/ /\ \A c \in Clients : client[c] # "waiting"
          /\ missed' = missed \cup {got[w]}
          /\ UNCHANGED client
    /\ worker' = [worker EXCEPT ![w] = "idle"]
    /\ got' = [got EXCEPT ![w] = None]
    /\ UNCHANGED <<mSolicitor, mRequest, holder, answer>>
-----------------------------------------------------------------------------
(* client() *)

LockClientMutex(c) ==
    /\ client[c] = "start"
    /\ holder = None
    /\ holder' = c
    /\ client' = [client EXCEPT ![c] = "locked"]
    /\ UNCHANGED <<mSolicitor, mRequest, mResult, worker, got, answer, missed>>

Refuse(c) ==
    /\ client[c] = "locked"
    /\ ~mSolicitor
    /\ client' = [client EXCEPT ![c] = "refused"]
    /\ holder' = None
    /\ UNCHANGED <<mSolicitor, mRequest, mResult, worker, got, answer, missed>>

HandOver(c) ==
    /\ client[c] = "locked"
    /\ mSolicitor
    /\ mRequest' = c
    /\ \/ \E w \in Workers :
            /\ worker[w] = "waiting"
            /\ worker' = [worker EXCEPT ![w] = "signalled"]
       \/ /\ \A w \in Workers : worker[w] # "waiting"
          /\ UNCHANGED worker
    /\ client' = [client EXCEPT ![c] = "handed"]
    /\ UNCHANGED <<mSolicitor, mResult, holder, got, answer, missed>>

\* Between this and HandOver no mutex but mClientMutex is held.
WaitForResult(c) ==
    /\ client[c] = "handed"
    /\ client' = [client EXCEPT ![c] = "waiting"]
    /\ UNCHANGED <<mSolicitor, mRequest, mResult, holder, worker, got, answer,
                   missed>>

SendResult(c) ==
    /\ client[c] = "signalled"
    /\ answer' = [answer EXCEPT ![c] = mResult]
    /\ client' = [client EXCEPT ![c] = "answered"]
    /\ holder' = None
    /\ UNCHANGED <<mSolicitor, mRequest, mResult, worker, got, missed>>

ServeClient(c) == Refuse(c) \/ HandOver(c) \/ WaitForResult(c) \/ SendResult(c)
ServeWorker(w) == SendRequest(w) \/ Result(w)
-----------------------------------------------------------------------------
Next == \/ \E c \in Clients : LockClientMutex(c) \/ ServeClient(c)
        \/ \E w \in Workers : Solicit(w) \/ ServeWorker(w)

SafeSpec == Init /\ [][Next]_vars

\* The HTTP threads run and a worker answers what it has been given.  A
\* client may wait for mClientMutex for ever.
Spec == /\ SafeSpec
        /\ \A c \in Clients : WF_vars(ServeClient(c))
        /\ \A w \in Workers : WF_vars(ServeWorker(w))
-----------------------------------------------------------------------------
(* Properties *)

\* A client is sent the result of its own request, although requests and
\* results travel through one shared string each: no request is overwritten
\* before it is read, or given to two solicitors.
AnswerIsMine == \A c \in Clients : answer[c] \in {None, c}

\* mSolicitor is stale at times, but when a client relies on it there is a
\* solicitor waiting for the signal.
HandOverReachesSolicitor ==
    \A c \in Clients : client[c] = "locked" /\ mSolicitor =>
        \E w \in Workers : worker[w] = "waiting"

\* A client that has handed over its request is answered, unless its result
\* is signalled in the gap between the two critical sections of client().
AnsweredUnlessMissed ==
    \A c \in Clients :
        client[c] = "handed" ~> client[c] = "answered" \/ c \in missed

\* What a missed signal costs: that client never gets an answer, and as it
\* keeps mClientMutex, no other client is served any more.
MissedBlocksEverybody ==
    \A c \in missed :
        holder = c /\ client[c] \in {"handed", "waiting"}
=============================================================================
