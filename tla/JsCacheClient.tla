---------------------------- MODULE JsCacheClient ----------------------------
(***************************************************************************)
(* The Redis client of the JavaScript service (apps/js/src/cache.js): one  *)
(* connection shared by all requests, dialled on demand, torn down by the  *)
(* first operation that fails on it, and not dialled again before a        *)
(* cooldown has passed.                                                    *)
(*                                                                         *)
(* Node runs one callback at a time, so a step is what runs between two    *)
(* awaits.  Time is discrete and `Tick` advances it: a running operation   *)
(* or a dial never outlives its timeout.  The client objects of the redis  *)
(* package are modelled by what cache.js sees of them:                     *)
(*                                                                         *)
(*   "ready"   isOpen, and commands are answered while Redis is up;        *)
(*   "broken"  isOpen, but the socket is gone and commands go nowhere;     *)
(*   "closed"  not isOpen.                                                 *)
(***************************************************************************)
EXTENDS Naturals

CONSTANTS
  Ops,        \* callers of get, set and del; each has one call at a time
  Clients,    \* client objects, reused once nothing refers to them
  None,       \* no client
  Timeout,    \* REDIS_TIMEOUT_MS, in ticks: of a dial, and of a command
  Cooldown    \* COOLDOWN_MS, in ticks

ASSUME NoneAssumption == None \notin Clients
\* 200 ms and 1000 ms.
ASSUME TimeAssumption == Timeout \in Nat \ {0} /\ Cooldown \in Nat /\ Timeout < Cooldown

VARIABLES
  up,           \* Redis answers
  client,       \* the shared connection, or None
  status,       \* the state of each client object
  connecting,   \* the client being dialled, or None
  dialled,      \* for how long
  sinceFailure, \* now - lastFailureAt, up to Cooldown
  op,           \* what each caller is doing
  on,           \* the client its command was sent on
  age           \* for how long its command has been running

vars == <<up, client, status, connecting, dialled, sinceFailure, op, on, age>>

IsOpen(c) == c # None /\ status[c] # "closed"

InUse == {client, connecting} \cup {on[o] : o \in Ops}

\* Mutant: the catch block forgets the shared client without disconnecting it.
CatchWithoutDisconnect ==
  /\ sinceFailure' = 0
  /\ client' = None
  /\ UNCHANGED status

\* The catch block of safeRun: note the failure, drop the shared client and
\* disconnect it, whichever client the operation failed on.
CatchFailure ==
  /\ sinceFailure' = 0
  /\ client' = None
  /\ status' = [c \in Clients |-> IF c = client THEN "closed" ELSE status[c]]

-----------------------------------------------------------------------------
Init == /\ up \in BOOLEAN
        /\ client = None
        /\ status = [c \in Clients |-> "closed"]
        /\ connecting = None
        /\ dialled = 0
        /\ sinceFailure = Cooldown
        /\ op = [o \in Ops |-> "idle"]
        /\ on = [o \in Ops |-> None]
        /\ age = [o \in Ops |-> 0]

\* getClient finds the shared client open: the command is sent on it.
CallOnClient(o) ==
  /\ op[o] = "idle"
  /\ IsOpen(client)
  /\ op' = [op EXCEPT ![o] = "running"]
  /\ on' = [on EXCEPT ![o] = client]
  /\ UNCHANGED <<up, client, status, connecting, dialled, sinceFailure, age>>

\* getClient refuses during the cooldown, and safeRun catches the refusal like
\* any failure.
CallRefused(o) ==
  /\ op[o] = "idle"
  /\ ~IsOpen(client)
  /\ sinceFailure < Cooldown
  /\ CatchFailure
  /\ UNCHANGED <<up, connecting, dialled, op, on, age>>

\* Mutant: no cooldown, a dial starts whenever the shared client is not open.
CallWaitsNoCooldown(o) ==
  /\ op[o] = "idle"
  /\ ~IsOpen(client)
  /\ op' = [op EXCEPT ![o] = "waiting"]
  /\ IF connecting = None
       THEN \E c \in Clients \ InUse :
              connecting' = c /\ status' = [status EXCEPT ![c] = "closed"]
       ELSE UNCHANGED <<connecting, status>>
  /\ UNCHANGED <<up, client, dialled, sinceFailure, on, age>>

\* getClient starts a dial, or joins the one in progress.
CallWaits(o) ==
  /\ op[o] = "idle"
  /\ ~IsOpen(client)
  /\ sinceFailure >= Cooldown
  /\ op' = [op EXCEPT ![o] = "waiting"]
  /\ IF connecting = None
       THEN \E c \in Clients \ InUse :
              connecting' = c /\ status' = [status EXCEPT ![c] = "closed"]
       ELSE UNCHANGED <<connecting, status>>
  /\ UNCHANGED <<up, client, dialled, sinceFailure, on, age>>

Waiting == {o \in Ops : op[o] = "waiting"}

\* connect() resolves: every waiting operation sends its command.
Connected ==
  /\ connecting # None
  /\ up
  /\ client' = connecting
  /\ status' = [status EXCEPT ![connecting] = "ready"]
  /\ connecting' = None
  /\ dialled' = 0
  /\ op' = [o \in Ops |-> IF o \in Waiting THEN "running" ELSE op[o]]
  /\ on' = [o \in Ops |-> IF o \in Waiting THEN connecting ELSE on[o]]
  /\ UNCHANGED <<up, sinceFailure, age>>

\* connect() rejects (refused, or its timeout): so do the waiting operations.
ConnectFailed ==
  /\ connecting # None
  /\ ~up \/ dialled = Timeout
  /\ CatchFailure
  /\ connecting' = None
  /\ dialled' = 0
  /\ op' = [o \in Ops |-> IF o \in Waiting THEN "idle" ELSE op[o]]
  /\ UNCHANGED <<up, on, age>>

Return(o) == /\ op' = [op EXCEPT ![o] = "idle"]
             /\ on' = [on EXCEPT ![o] = None]
             /\ age' = [age EXCEPT ![o] = 0]

Answered(o) ==
  /\ op[o] = "running"
  /\ up /\ status[on[o]] = "ready"
  /\ Return(o)
  /\ UNCHANGED <<up, client, status, connecting, dialled, sinceFailure>>

\* The command's timeout fires, or its client rejects it.
Failed(o) ==
  /\ op[o] = "running"
  /\ age[o] = Timeout \/ status[on[o]] # "ready"
  /\ CatchFailure
  /\ Return(o)
  /\ UNCHANGED <<up, connecting, dialled>>

\* The socket of the shared client breaks: its 'error' handler notes a failure.
SocketBreaks ==
  /\ client # None /\ status[client] = "ready"
  /\ \E s \in {"broken", "closed"} : status' = [status EXCEPT ![client] = s]
  /\ sinceFailure' = 0
  /\ UNCHANGED <<up, client, connecting, dialled, op, on, age>>

RedisGoes == /\ up' = ~up
             /\ UNCHANGED <<client, status, connecting, dialled, sinceFailure, op, on, age>>

\* Mutant: the command's timer is not armed.
TickWithoutTimer == /\ connecting # None => dialled < Timeout
                    /\ dialled' = IF connecting # None THEN dialled + 1 ELSE 0
                    /\ age' = [o \in Ops |-> IF op[o] = "running" THEN age[o] + 1 ELSE 0]
                    /\ sinceFailure' = IF sinceFailure < Cooldown THEN sinceFailure + 1
                                                                  ELSE Cooldown
                    /\ UNCHANGED <<up, client, status, connecting, op, on>>

\* Timers fire on time: no command and no dial outlives its timeout.
Tick == /\ connecting # None => dialled < Timeout
        /\ \A o \in Ops : age[o] < Timeout
        /\ dialled' = IF connecting # None THEN dialled + 1 ELSE 0
        /\ age' = [o \in Ops |-> IF op[o] = "running" THEN age[o] + 1 ELSE 0]
        /\ sinceFailure' = IF sinceFailure < Cooldown THEN sinceFailure + 1 ELSE Cooldown
        /\ UNCHANGED <<up, client, status, connecting, op, on>>

Call(o) == CallOnClient(o) \/ CallRefused(o) \/ CallWaits(o)

Next == \/ \E o \in Ops : Call(o) \/ Answered(o) \/ Failed(o)
        \/ Connected \/ ConnectFailed
        \/ SocketBreaks \/ RedisGoes
        \/ Tick

Spec == Init /\ [][Next]_vars

\* Time passes, calls keep coming, and a call or dial in progress comes to an end.
Fairness == /\ WF_vars(Tick)
            /\ \A o \in Ops : WF_vars(Call(o)) /\ WF_vars(Answered(o) \/ Failed(o))
            /\ WF_vars(Connected \/ ConnectFailed)

FairSpec == Spec /\ Fairness

-----------------------------------------------------------------------------
TypeOK == /\ up \in BOOLEAN
          /\ client \in Clients \cup {None}
          /\ status \in [Clients -> {"ready", "broken", "closed"}]
          /\ connecting \in Clients \cup {None}
          /\ dialled \in 0..Timeout
          /\ sinceFailure \in 0..Cooldown
          /\ op \in [Ops -> {"idle", "waiting", "running"}]
          /\ on \in [Ops -> Clients \cup {None}]
          /\ age \in [Ops -> 0..Timeout]

\* safeRun's catch block drops `client` without asking whether it is the client
\* the operation failed on (cache.js:102-105).  It always is, or there is none: the
\* cooldown outlasts every command left over from a connection that was dropped.
FailsItsOwnClient ==
  \A o \in Ops : op[o] = "running" => client \in {on[o], None}

\* No socket is forgotten: a client object that is open is the shared one, and
\* none is dialled while one is open.
OneConnection ==
  \A c \in Clients : status[c] # "closed" => c = client /\ connecting = None

\* "brief cooldown after failure before retrying" (cache.js:48): as calls keep
\* coming, a client that is not connected dials again and again, unless Redis itself
\* goes down again and again.
RetriesAfterCooldown == []<>~up \/ []<>(connecting # None \/ IsOpen(client))
=============================================================================
