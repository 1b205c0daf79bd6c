---------------------------- MODULE AbyssServer ----------------------------
(* The Abyss HTTP server's connection machinery as built here (pthreads):    *)
(* the master thread in ServerRun() accepts channels from the channel        *)
(* switch, creates one connection and one thread for each, keeps them in the *)
(* outstanding connection list, frees the finished ones, and on termination  *)
(* interrupts and waits for the rest.  ServerRunOnce() serves one connection *)
(* in the caller's thread.  Any thread may call ServerTerminate().           *)
(*                                                                           *)
(* A client channel and the connection made from it are one member of Chan.  *)
(* The list's order is abstracted: a traversal visits its members in any     *)
(* order.  What a client sends, whether it reads and when timers expire are  *)
(* nondeterministic choices.                                                 *)
EXTENDS Naturals, Sequences, FiniteSets

CONSTANTS
    Chan,           \* client channels
    NoChan,         \* no channel
    MaxConn,        \* srvP->maxConn
    KeepaliveMax    \* srvP->keepalivemaxconn as configured

ASSUME ChanAssumption == IsFiniteSet(Chan) /\ NoChan \notin Chan
ASSUME MaxConnAssumption == MaxConn \in Nat \ {0}
ASSUME KeepaliveMaxAssumption == KeepaliveMax \in Nat \ {0}

VARIABLES
    pc,             \* where the master thread (the caller of ServerRun) is
    ret,            \* where freeFinishedConns() returns to
    cur,            \* the channel the master accepted and is processing
    at,             \* the listed connection the master's traversal is on
    todo,           \* listed connections the traversal has still to visit
    outstanding,    \* outstandingConnListP->firstP, as a set
    count,          \* outstandingConnListP->count
    terminationRequested,
    switchByte,     \* a byte is in the channel switch's interrupt pipe
    terminator,     \* a caller of ServerTerminate: "idle", or "flagged"
                    \* between setting the flag and writing the byte
    keepalivemaxconn,
    backlog,        \* connections the kernel has queued on the listen socket
    chan,           \* per channel: absent, queued, open, destroyed
    conn,           \* per connection descriptor: none, live, freed, lost
    hasOwnThread,
    thread,         \* per connection: where the thread serving it is
    finished,       \* connectionP->finished
    requests,       \* serverFunc()'s requestCount
    interruptByte   \* a byte is in the channel's interrupt pipe

masterVars == <<pc, ret, cur, at, todo>>
listVars   == <<outstanding, count>>
termVars   == <<terminationRequested, switchByte, terminator>>
netVars    == <<backlog, chan>>
connVars   == <<conn, hasOwnThread, thread, finished, requests, interruptByte>>
vars == <<masterVars, listVars, termVars, keepalivemaxconn, netVars, connVars>>

MasterPC == {"Idle", "Loop", "Accept", "FreeFinished", "Join", "Capacity",
             "Create", "AddToList", "Interrupt", "InterruptChannel", "Drain",
             "Failed", "OnceAccept", "OnceCreate", "OnceRun", "Exited"}

ThreadPC == {"none", "read", "gotData", "gotNothing", "process", "write",
             "finish", "cleanup", "exited"}

\* The connections some thread is serving.
Running == {c \in Chan : thread[c] \notin {"none", "exited"}}

TypeOK ==
    /\ pc \in MasterPC
    /\ ret \in {"Capacity", "Drain"}
    /\ cur \in Chan \cup {NoChan}
    /\ at \in Chan \cup {NoChan}
    /\ todo \subseteq Chan
    /\ outstanding \subseteq Chan
    /\ count \in Nat
    /\ terminationRequested \in BOOLEAN
    /\ switchByte \in BOOLEAN
    /\ terminator \in {"idle", "flagged"}
    /\ keepalivemaxconn \in Nat \ {0}
    /\ backlog \in Seq(Chan)
    /\ chan \in [Chan -> {"absent", "queued", "open", "destroyed"}]
    /\ conn \in [Chan -> {"none", "live", "freed", "lost"}]
    /\ hasOwnThread \in [Chan -> BOOLEAN]
    /\ thread \in [Chan -> ThreadPC]
    /\ finished \in [Chan -> BOOLEAN]
    /\ requests \in [Chan -> Nat]
    /\ interruptByte \in [Chan -> BOOLEAN]

Init ==
    /\ pc = "Idle" /\ ret = "Capacity"
    /\ cur = NoChan /\ at = NoChan /\ todo = {}
    /\ outstanding = {} /\ count = 0
    /\ terminationRequested = FALSE
    /\ switchByte = FALSE
    /\ terminator = "idle"
    /\ keepalivemaxconn = KeepaliveMax
    /\ backlog = <<>>
    /\ chan = [c \in Chan |-> "absent"]
    /\ conn = [c \in Chan |-> "none"]
    /\ hasOwnThread = [c \in Chan |-> FALSE]
    /\ thread = [c \in Chan |-> "none"]
    /\ finished = [c \in Chan |-> FALSE]
    /\ requests = [c \in Chan |-> 0]
    /\ interruptByte = [c \in Chan |-> FALSE]

-----------------------------------------------------------------------------
(* The master thread: ServerRun().  A definition whose name ends in _Mutant  *)
(* is a plausible slip in the definition after it, kept to show that a       *)
(* property would notice.                                                    *)

LoopContinues_Mutant == ~terminationRequested \/ backlog # <<>>
LoopContinues == ~terminationRequested

\* --listP->count along with the removal from the list.
Unlist_Mutant(c) == outstanding' = outstanding \ {c} /\ UNCHANGED count
Unlist(c) == outstanding' = outstanding \ {c} /\ count' = count - 1

Enlist_Mutant(c) == outstanding' = outstanding \cup {c} /\ UNCHANGED count
Enlist(c) == outstanding' = outstanding \cup {c} /\ count' = count + 1

\* pthread_join() returns.
Joined_Mutant(c) == finished[c]
Joined(c) == thread[c] = "exited"

AtCapacity_Mutant == count > MaxConn
AtCapacity == count >= MaxConn

NoConnections_Mutant == \A c \in outstanding : finished[c]
NoConnections == outstanding = {}

\* A connection that is waiting wins over a byte in the interrupt pipe.
SwitchInterrupted_Mutant == switchByte
SwitchInterrupted == backlog = <<>> /\ switchByte

NeedsInterrupt_Mutant(c) == finished[c]
NeedsInterrupt(c) == ~finished[c]

ServerRun ==
    /\ pc = "Idle"
    /\ pc' = "Loop"
    /\ outstanding' = {} /\ count' = 0
    /\ UNCHANGED <<ret, cur, at, todo, termVars, keepalivemaxconn, netVars,
                   connVars>>

\* The test of the accepting loop, and interruptChannels() after it.
LoopTest ==
    /\ pc = "Loop"
    /\ IF LoopContinues
       THEN pc' = "Accept" /\ UNCHANGED todo
       ELSE pc' = "Interrupt" /\ todo' = outstanding
    /\ UNCHANGED <<ret, cur, at, listVars, termVars, keepalivemaxconn,
                   netVars, connVars>>

AcceptChannel ==
    /\ pc \in {"Accept", "OnceAccept"}
    /\ backlog # <<>>
    /\ cur' = Head(backlog)
    /\ backlog' = Tail(backlog)
    /\ chan' = [chan EXCEPT ![Head(backlog)] = "open"]
    /\ IF pc = "Accept"
       THEN pc' = "FreeFinished" /\ ret' = "Capacity" /\ todo' = outstanding
       ELSE pc' = "OnceCreate" /\ UNCHANGED <<ret, todo>>
    /\ UNCHANGED <<at, listVars, termVars, keepalivemaxconn, connVars>>

\* channelP == NULL: back to the loop's test, or out of ServerRunOnce().
AcceptReturnsNone == pc' = IF pc = "Accept" THEN "Loop" ELSE "Idle"

AcceptInterrupted ==
    /\ pc \in {"Accept", "OnceAccept"}
    /\ SwitchInterrupted
    /\ AcceptReturnsNone
    /\ UNCHANGED <<ret, cur, at, todo, listVars, termVars, keepalivemaxconn,
                   netVars, connVars>>

\* poll() returns EINTR, which it does only if nothing is ready.
AcceptSignalled ==
    /\ pc \in {"Accept", "OnceAccept"}
    /\ backlog = <<>>
    /\ AcceptReturnsNone
    /\ UNCHANGED <<ret, cur, at, todo, listVars, termVars, keepalivemaxconn,
                   netVars, connVars>>

\* poll() or accept() fails, or no channel can be made of the accepted
\* socket, which is then closed.  ServerRun() returns at once: no connection
\* is interrupted or waited for and the list is leaked.
AcceptFails ==
    /\ pc \in {"Accept", "OnceAccept"}
    /\ pc' = IF pc = "Accept" THEN "Failed" ELSE "Idle"
    /\ \/ UNCHANGED netVars
       \/ /\ backlog # <<>>
          /\ backlog' = Tail(backlog)
          /\ chan' = [chan EXCEPT ![Head(backlog)] = "destroyed"]
    /\ UNCHANGED <<ret, cur, at, todo, listVars, termVars, keepalivemaxconn,
                   connVars>>

\* freeFinishedConns() looks at one connection of the list.
FreeFinishedConn(c) ==
    /\ pc = "FreeFinished"
    /\ c \in todo
    /\ todo' = todo \ {c}
    /\ IF finished[c]
       THEN Unlist(c) /\ at' = c /\ pc' = "Join"
       ELSE UNCHANGED <<listVars, at, pc>>
    /\ UNCHANGED <<ret, cur, termVars, keepalivemaxconn, netVars, connVars>>

\* ConnWaitAndRelease(): join the thread, free both descriptors.
ConnWaitAndRelease ==
    /\ pc = "Join"
    /\ Joined(at)
    /\ conn' = [conn EXCEPT ![at] = "freed"]
    /\ at' = NoChan
    /\ pc' = "FreeFinished"
    /\ UNCHANGED <<ret, cur, todo, listVars, termVars, keepalivemaxconn,
                   netVars, hasOwnThread, thread, finished, requests,
                   interruptByte>>

FreeFinishedReturns ==
    /\ pc = "FreeFinished"
    /\ todo = {}
    /\ pc' = ret
    /\ UNCHANGED <<ret, cur, at, todo, listVars, termVars, keepalivemaxconn,
                   netVars, connVars>>

\* waitForConnectionCapacity(); its 2 second sleep takes no step.
CapacityTest ==
    /\ pc = "Capacity"
    /\ IF AtCapacity
       THEN pc' = "FreeFinished" /\ todo' = outstanding
       ELSE pc' = "Create" /\ UNCHANGED todo
    /\ UNCHANGED <<ret, cur, at, listVars, termVars, keepalivemaxconn,
                   netVars, connVars>>

\* The descriptor ConnCreate() makes, and the job it starts on it.
NewConn(c, own) ==
    /\ conn' = [conn EXCEPT ![c] = "live"]
    /\ hasOwnThread' = [hasOwnThread EXCEPT ![c] = own]
    /\ thread' = [thread EXCEPT ![c] = "read"]
    /\ finished' = [finished EXCEPT ![c] = FALSE]
    /\ requests' = [requests EXCEPT ![c] = 0]
    /\ UNCHANGED interruptByte

\* The thread runs from here on, before the connection is in the list.
ConnCreate ==
    /\ pc = "Create"
    /\ NewConn(cur, TRUE)
    /\ pc' = "AddToList"
    /\ UNCHANGED <<ret, cur, at, todo, listVars, termVars, keepalivemaxconn,
                   netVars>>

\* No memory for the descriptor, or no thread; in the second case nothing
\* frees the descriptor.  The channel is destroyed and ServerRun() returns.
ConnCreateFails ==
    /\ pc = "Create"
    /\ \E d \in {"none", "lost"} : conn' = [conn EXCEPT ![cur] = d]
    /\ chan' = [chan EXCEPT ![cur] = "destroyed"]
    /\ pc' = "Failed"
    /\ UNCHANGED <<ret, cur, at, todo, listVars, termVars, keepalivemaxconn,
                   backlog, hasOwnThread, thread, finished, requests,
                   interruptByte>>

AddToOutstandingConnList ==
    /\ pc = "AddToList"
    /\ Enlist(cur)
    /\ cur' = NoChan
    /\ pc' = "Loop"
    /\ UNCHANGED <<ret, at, todo, termVars, keepalivemaxconn, netVars,
                   connVars>>

\* interruptChannels() reads connP->finished ...
InterruptTest(c) ==
    /\ pc = "Interrupt"
    /\ c \in todo
    /\ todo' = todo \ {c}
    /\ IF NeedsInterrupt(c)
       THEN pc' = "InterruptChannel" /\ at' = c
       ELSE UNCHANGED <<pc, at>>
    /\ UNCHANGED <<ret, cur, listVars, termVars, keepalivemaxconn, netVars,
                   connVars>>

\* ... and then calls ChannelInterrupt() on the channel, whatever has become
\* of it.  On a destroyed channel the write has no effect modelled here.
InterruptChannel ==
    /\ pc = "InterruptChannel"
    /\ interruptByte' = [interruptByte EXCEPT ![at] = TRUE]
    /\ pc' = "Interrupt"
    /\ at' = NoChan
    /\ UNCHANGED <<ret, cur, todo, listVars, termVars, keepalivemaxconn,
                   netVars, conn, hasOwnThread, thread, finished, requests>>

InterruptReturns ==
    /\ pc = "Interrupt"
    /\ todo = {}
    /\ pc' = "Drain"
    /\ UNCHANGED <<ret, cur, at, todo, listVars, termVars, keepalivemaxconn,
                   netVars, connVars>>

\* waitForNoConnections(); when the list is empty ServerRun() returns.
DrainTest ==
    /\ pc = "Drain"
    /\ IF NoConnections
       THEN pc' = "Idle" /\ UNCHANGED <<ret, todo>>
       ELSE pc' = "FreeFinished" /\ ret' = "Drain" /\ todo' = outstanding
    /\ UNCHANGED <<cur, at, listVars, termVars, keepalivemaxconn, netVars,
                   connVars>>

-----------------------------------------------------------------------------
(* The master thread: ServerRunOnce() *)

ServerRunOnce ==
    /\ pc = "Idle"
    /\ keepalivemaxconn' = 1
    /\ pc' = "OnceAccept"
    /\ UNCHANGED <<ret, cur, at, todo, listVars, termVars, netVars, connVars>>

\* serverRunChannel(): a foreground connection; the job runs in this thread.
OnceCreate ==
    /\ pc = "OnceCreate"
    /\ NewConn(cur, FALSE)
    /\ pc' = "OnceRun"
    /\ UNCHANGED <<ret, cur, at, todo, listVars, termVars, keepalivemaxconn,
                   netVars>>

\* No memory for the descriptor: TraceExit() ends the process.
OnceCreateFails ==
    /\ pc = "OnceCreate"
    /\ pc' = "Exited"
    /\ UNCHANGED <<ret, cur, at, todo, listVars, termVars, keepalivemaxconn,
                   netVars, connVars>>

\* The job has returned: free the descriptor, destroy the channel.
OnceReturns ==
    /\ pc = "OnceRun"
    /\ thread[cur] = "exited"
    /\ conn' = [conn EXCEPT ![cur] = "freed"]
    /\ chan' = [chan EXCEPT ![cur] = "destroyed"]
    /\ cur' = NoChan
    /\ pc' = "Idle"
    /\ UNCHANGED <<ret, at, todo, listVars, termVars, keepalivemaxconn,
                   backlog, hasOwnThread, thread, finished, requests,
                   interruptByte>>

-----------------------------------------------------------------------------
(* The thread of connection c: connJob(), serverFunc(), threadDone() *)

Goto(c, from, to) ==
    /\ thread[c] \in from
    /\ thread' = [thread EXCEPT ![c] = to]

\* What a step of a thread that only moves on leaves alone.
ThreadOnly ==
    UNCHANGED <<masterVars, listVars, termVars, keepalivemaxconn, netVars,
                conn, hasOwnThread, finished, interruptByte>>

\* ConnRead() delivers the beginning of a request.
ReadData(c) ==
    /\ Goto(c, {"read"}, "gotData")
    /\ ThreadOnly /\ UNCHANGED requests

\* ConnRead() reports end of file, an error, or the keepalive timeout.
ReadEnds(c) ==
    /\ Goto(c, {"read"}, "gotNothing")
    /\ ThreadOnly /\ UNCHANGED requests

\* ConnRead() finds the channel's interrupt pipe readable and no data.
ReadInterrupted(c) ==
    /\ interruptByte[c]
    /\ Goto(c, {"read"}, "gotNothing")
    /\ ThreadOnly /\ UNCHANGED requests

\* The tests serverFunc() makes after ConnRead().
CheckRead(c) ==
    /\ Goto(c, {"gotData", "gotNothing"},
            IF terminationRequested \/ thread[c] = "gotNothing"
            THEN "finish" ELSE "process")
    /\ ThreadOnly /\ UNCHANGED requests

\* processRequestFromClient() up to the response: reading the rest of the
\* request (bounded by srvP->timeout) and running the handler.
ProcessRequest(c) ==
    /\ Goto(c, {"process"}, "write")
    /\ ThreadOnly /\ UNCHANGED requests

\* The blocking send() of the response returns; another request is read
\* unless this was the last one or the client or the handler ended it.
WriteResponse(c) ==
    /\ \E next \in {"read", "finish"} :
         /\ requests[c] + 1 >= keepalivemaxconn => next = "finish"
         /\ Goto(c, {"write"}, next)
    /\ requests' = [requests EXCEPT ![c] = @ + 1]
    /\ ThreadOnly

\* connJob() after the job; a foreground connection ends here.
SetFinished(c) ==
    /\ Goto(c, {"finish"}, IF hasOwnThread[c] THEN "cleanup" ELSE "exited")
    /\ finished' = [finished EXCEPT ![c] = TRUE]
    /\ UNCHANGED <<masterVars, listVars, termVars, keepalivemaxconn, netVars,
                   conn, hasOwnThread, requests, interruptByte>>

\* ThreadExit() runs threadDone(), connDone() and destroyChannel().
ThreadDone(c) ==
    /\ Goto(c, {"cleanup"}, "exited")
    /\ chan' = [chan EXCEPT ![c] = "destroyed"]
    /\ finished' = [finished EXCEPT ![c] = TRUE]
    /\ UNCHANGED <<masterVars, listVars, termVars, keepalivemaxconn, backlog,
                   conn, hasOwnThread, requests, interruptByte>>

-----------------------------------------------------------------------------
(* Clients, and callers of ServerTerminate() and ServerResetTerminate() *)

Connect(c) ==
    /\ chan[c] = "absent"
    /\ chan' = [chan EXCEPT ![c] = "queued"]
    /\ backlog' = Append(backlog, c)
    /\ UNCHANGED <<masterVars, listVars, termVars, keepalivemaxconn, connVars>>

ServerTerminate ==
    /\ terminator = "idle"
    /\ terminationRequested' = TRUE
    /\ terminator' = "flagged"
    /\ UNCHANGED <<masterVars, listVars, switchByte, keepalivemaxconn,
                   netVars, connVars>>

ChanSwitchInterrupt_Mutant ==
    /\ terminator = "flagged"
    /\ terminator' = "idle"
    /\ UNCHANGED <<masterVars, listVars, terminationRequested, switchByte,
                   keepalivemaxconn, netVars, connVars>>

\* Nothing ever reads the byte.
ChanSwitchInterrupt ==
    /\ terminator = "flagged"
    /\ switchByte' = TRUE
    /\ terminator' = "idle"
    /\ UNCHANGED <<masterVars, listVars, terminationRequested,
                   keepalivemaxconn, netVars, connVars>>

\* Called between runs of the server.
ServerResetTerminate ==
    /\ pc = "Idle"
    /\ terminationRequested
    /\ terminationRequested' = FALSE
    /\ UNCHANGED <<masterVars, listVars, switchByte, terminator,
                   keepalivemaxconn, netVars, connVars>>

\* ServerRun() has given up, or the process has exited.
Ended ==
    /\ pc \in {"Failed", "Exited"}
    /\ UNCHANGED vars

-----------------------------------------------------------------------------
\* The master's steps that do not depend on a failure or on the user.
MasterProgress ==
    \/ LoopTest \/ AcceptChannel \/ AcceptInterrupted
    \/ \E c \in Chan : FreeFinishedConn(c) \/ InterruptTest(c)
    \/ ConnWaitAndRelease \/ FreeFinishedReturns \/ CapacityTest
    \/ ConnCreate \/ AddToOutstandingConnList
    \/ InterruptChannel \/ InterruptReturns \/ DrainTest
    \/ OnceCreate \/ OnceReturns

\* A thread's steps that wait neither for a timer nor for the client.
ThreadProgress(c) ==
    \/ ReadInterrupted(c) \/ CheckRead(c) \/ ProcessRequest(c)
    \/ SetFinished(c) \/ ThreadDone(c)

Next ==
    \/ MasterProgress
    \/ AcceptSignalled \/ AcceptFails \/ ConnCreateFails \/ OnceCreateFails
    \/ ServerRun \/ ServerRunOnce \/ ServerResetTerminate
    \/ ServerTerminate \/ ChanSwitchInterrupt
    \/ \E c \in Chan : \/ ThreadProgress(c) \/ Connect(c)
                       \/ ReadData(c) \/ ReadEnds(c) \/ WriteResponse(c)
    \/ Ended

Spec == Init /\ [][Next]_vars
-----------------------------------------------------------------------------
(* Safety *)

\* No call of ServerRun() or ServerRunOnce() is in progress.
Returned == pc \in {"Idle", "Failed", "Exited"}

\* The connections that have a descriptor and are not in the list: the one
\* the master is about to add or to run itself, and the one it is joining.
InHand == (IF pc \in {"AddToList", "OnceRun"} THEN {cur} ELSE {})
          \cup (IF pc = "Join" THEN {at} ELSE {})

\* A thread runs only while its connection descriptor and its channel exist:
\* freeing a finished connection waits for the thread, and the channel is
\* destroyed once, by the last step that uses it (connJob() sets finished
\* before the thread's cleanup has run).
NoUseAfterFree ==
    \A c \in Running : conn[c] = "live" /\ chan[c] = "open"

\* Every descriptor that is allocated can still be found by the master, in
\* the list or in hand, and the list's redundant count agrees with the list:
\* nothing leaks and nothing in the list has been freed, until ServerRun()
\* gives up.
EveryConnectionTracked ==
    /\ count = Cardinality(outstanding)
    /\ {c \in Chan : conn[c] = "live"} = outstanding \cup InHand

\* waitForConnectionCapacity() and the list's count bound the threads: a
\* thread that is still winding down counts too.
AtMostMaxConn == Cardinality(Running) <= MaxConn

\* When ServerRun() has returned without failing, or ServerRunOnce() has
\* returned, no thread runs, no descriptor is left and every channel that
\* was accepted has been destroyed.
QuiescentWhenIdle ==
    pc = "Idle" => /\ Running = {}
                   /\ \A c \in Chan : /\ conn[c] \in {"none", "freed"}
                                      /\ chan[c] # "open"

\* server.c:1142 says a connection whose finished flag is set needs no
\* interrupt because its channel may not exist any more; the channel of the
\* connection that is interrupted must then exist.
InterruptsOnlyOpenChannels == pc = "InterruptChannel" => chan[at] = "open"

-----------------------------------------------------------------------------
(* Refinement: the server implements ConnService. *)

\* Where one more connection may begin although termination is requested.
MayBegin ==
    \/ pc \in {"Accept", "Capacity", "Create", "OnceAccept", "OnceCreate"}
    \/ pc \in {"FreeFinished", "Join"} /\ ret = "Capacity"

Phase ==
    CASE pc = "Idle" -> "closed"
      [] pc \in {"Failed", "Exited"} -> "failed"
      [] OTHER -> IF terminationRequested THEN "closing" ELSE "open"

Service == INSTANCE ConnService WITH
    phase   <- Phase,
    serving <- Running,
    served  <- {c \in Chan : thread[c] = "exited"},
    grace   <- Phase = "closing" /\ MayBegin

\* The server serves each client at most once and at most MaxConn at a time,
\* begins at most one connection after a termination request, and returns
\* only when nothing is being served.
ImplementsConnService == Service!Spec

-----------------------------------------------------------------------------
(* Liveness *)

\* The master and the threads keep running, handlers return, a request's
\* remainder arrives or srvP->timeout expires, and a client reads its
\* response or disconnects.
ServerFairness ==
    /\ WF_vars(MasterProgress)
    /\ WF_vars(ChanSwitchInterrupt)
    /\ \A c \in Chan : WF_vars(ThreadProgress(c))

ClientsRead == \A c \in Chan : WF_vars(WriteResponse(c))

FairSpec == Spec /\ ServerFairness /\ ClientsRead

\* Waits in ConnRead() end at the keepalive timeout.
TimeoutsExpire == \A c \in Chan : WF_vars(ReadEnds(c))

\* A termination request ends the call of ServerRun(), whatever the master
\* was doing, if idle connections time out (waitForConnectionCapacity() does
\* not look at the request).
TerminationReturns == TimeoutsExpire => (terminationRequested ~> Returned)

\* Once interruptChannels() has run, ServerRun() returns without any
\* keepalive timeout having to expire.
DrainNeedsNoTimeout == (pc = "Drain") ~> Returned

\* A client in the listen queue is accepted, or the server stops.
QueuedClientAccepted ==
    TimeoutsExpire =>
      \A c \in Chan : (chan[c] = "queued") ~> (chan[c] # "queued" \/ Returned)
=============================================================================
