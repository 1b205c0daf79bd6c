---------------------------- MODULE CurlTransport ----------------------------
(* The Curl client transport of xmlrpc_curl_transport.c: threads that start  *)
(* asynchronous RPCs, finish them, and make synchronous ones; the two libcurl *)
(* multi managers, whose operations curlmulti.c puts under a lock; the        *)
(* interrupt flag that a signal handler sets; and completion routines, which  *)
(* may start RPCs themselves; with what xmlrpc_client.c makes and frees        *)
(* around each RPC.  libcurl and the network are external.                    *)
EXTENDS Naturals, FiniteSets

CONSTANTS
    Thread,
    Asynch,         \* the asynchronous RPCs the program may start
    Synch,          \* the synchronous ones
    MaxRpcs,        \* bound: RPCs it starts, of either kind
    MaxSignals,     \* bound: signals
    CallbackStarts, \* completion routines start RPCs
    NoRpc, NoThread

ASSUME ThreadAssumption == NoThread \notin Thread
ASSUME RpcAssumption == Asynch \cap Synch = {} /\ NoRpc \notin Asynch \cup Synch
ASSUME BoundAssumption == {MaxRpcs, MaxSignals} \subseteq Nat /\ CallbackStarts \in BOOLEAN

Rpc == Asynch \cup Synch

\* What the transport gets for an RPC, in the order in which it gets it: the
\* response's memory block, the easy handle, the rpc object, the
\* curlTransaction, and its place in the multi manager.  A synchronous RPC
\* shares the transport's easy handle.
Resource == {"response", "session", "rpc", "transaction", "handle"}

\* What the client has for it before: the call's XML and, for an asynchronous
\* RPC, the xmlrpc_call_info with its reference to the parameters.
CallInfo == {"callInfo", "parameters", "callXml"}
ClientHas(r) == IF r \in Asynch THEN CallInfo ELSE {"callXml"}

VARIABLES
    pc,             \* pc[t]: where thread t is; see Places
    job,            \* job[t]: the variables of its call of the transport
    rpc,            \* rpc[r]: the RPC and its curlTransaction
    answer,         \* answer[r]: what the network will make of it
    syncLock,       \* the thread that holds syncCurlSessionLock
    syncSession,    \* the RPC that the synchronous easy handle is set up for
    interruptP,     \* the client has registered an interrupt flag ...
    interrupt,      \* ... and this is it
    handledBy,      \* the thread whose signal handler set it last
    pending,        \* a signal is pending for the process
    signals,        \* signals so far
    phase           \* what the program does; see the end of the module

vars == <<pc, job, rpc, answer, syncLock, syncSession, interruptP, interrupt,
          handledBy, pending, signals, phase>>

Outcome == {"answered", "aborted"}
States == {"idle", "outstanding", "done", "completing", "complete", "refused"}

\* pc follows finishCurlMulti() and what it calls.
Places ==
    {"idle", "lock", "test", "armed", "asleepInt", "asleep", "work", "perform", "messages",
     "callback", "return"}
JobType ==
    [call : Synch \cup {NoRpc}, current : Asynch \cup {NoRpc},
     limit : {"none", "ahead", "passed"}, interruptible : BOOLEAN, running : BOOLEAN,
     curlCalled : BOOLEAN, entry : SUBSET Asynch, skips : Nat]
RpcType ==
    [state : States, result : Outcome \cup {"none"}, canAbort : BOOLEAN,
     mem : SUBSET (Resource \cup CallInfo), byCallback : BOOLEAN, flagged : BOOLEAN]

\* The type invariant.
TypeOK ==
    /\ pc \in [Thread -> Places]
    /\ job \in [Thread -> JobType]
    /\ rpc \in [Rpc -> RpcType]
    /\ answer \in [Rpc -> {"none", "answered"}]
    /\ syncLock \in Thread \cup {NoThread} /\ syncSession \in Synch \cup {NoRpc}
    /\ handledBy \in Thread \cup {NoThread}
    /\ interruptP \in BOOLEAN /\ interrupt \in BOOLEAN /\ pending \in BOOLEAN
    /\ phase \in {"calls", "finishes", "finished", "destroyed"}
    /\ signals \in 0 .. MaxSignals

NoJob ==
    [call |-> NoRpc, current |-> NoRpc, limit |-> "none", interruptible |-> FALSE,
     running |-> TRUE, curlCalled |-> FALSE, entry |-> {}, skips |-> 0]

NewRpc ==
    [state |-> "idle", result |-> "none", canAbort |-> FALSE, mem |-> {},
     byCallback |-> FALSE, flagged |-> FALSE]

Init ==
    /\ pc = [t \in Thread |-> "idle"]
    /\ job = [t \in Thread |-> NoJob]
    /\ rpc = [r \in Rpc |-> NewRpc]
    /\ answer = [r \in Rpc |-> "none"]
    /\ syncLock = NoThread /\ syncSession = NoRpc
    /\ interruptP = FALSE /\ interrupt = FALSE /\ handledBy = NoThread
    /\ pending = FALSE /\ signals = 0
    /\ phase = "calls"

Goto(t, where) == pc' = [pc EXCEPT ![t] = where]
InterruptUnchanged == UNCHANGED <<interruptP, interrupt, handledBy, pending, signals>>
SyncUnchanged == UNCHANGED <<syncLock, syncSession>>
Finishing(t) == pc[t] # "idle" /\ job[t].call = NoRpc
-----------------------------------------------------------------------------
(* Starting RPCs. *)

\* An RPC the program may start.
New(r) ==
    /\ rpc[r].state = "idle" /\ \A u \in Thread : job[u].call # r
    /\ Cardinality({x \in Rpc : rpc[x].state # "idle" \/ \E u \in Thread : job[u].call = x}) < MaxRpcs

\* createRpc(): an RPC that begins when no flag is registered gets no progress
\* function, by which libcurl would notice the flag.
Started(t, resources) ==
    [state |-> "outstanding", result |-> "none", canAbort |-> interruptP, mem |-> resources,
     byCallback |-> pc[t] = "callback", flagged |-> interrupt]

\* What is left of what an RPC got when getting `missing' fails: createRpc()
\* frees the rpc object, sendRequest() destroys an RPC it cannot start, cleans
\* up the easy handle and frees the response.
Got(missing) ==
    CASE missing = "response"    -> {}
      [] missing = "session"     -> {"response"}
      [] missing = "rpc"         -> {"response", "session"}
      [] missing = "transaction" -> {"response", "session", "rpc"}
      [] missing = "handle"      -> {"response", "session", "rpc", "transaction"}
CreateRpcFrees(missing) == IF missing = "transaction" THEN {"rpc"} ELSE {}
SendRequestFrees_Mutant(missing) ==
    IF missing = "handle" THEN {"rpc", "session", "response"}
    ELSE IF missing \in {"rpc", "transaction"} THEN {"session", "response"} ELSE {"response"}
SendRequestFrees(missing) ==
    IF missing = "handle" THEN {"transaction", "rpc", "session", "response"}
    ELSE IF missing \in {"rpc", "transaction"} THEN {"session", "response"} ELSE {"response"}

\* What the client frees: with the call info, when asynchComplete() has called
\* the program's completion routine, when the transport refuses the RPC, and at
\* the end of xmlrpc_client_call2().
CallInfoDestroyed(mem) == mem \ CallInfo
AsynchCompleted(mem) == CallInfoDestroyed(mem)
StartRefused(mem) == CallInfoDestroyed(mem)
Call2Frees(r, mem) == mem \ ClientHas(r)

\* sendRequest() for xmlrpc_client_start_rpc(), whose call info goes with the
\* RPC or back.  (When callInfoCreate() itself fails, the client destroys an
\* object that is not there; that is left out.)
SendRequest(t) ==
    /\ \/ pc[t] = "idle" /\ phase = "calls"
       \/ pc[t] = "callback" /\ CallbackStarts
    /\ \E r \in Asynch :
          /\ New(r)
          /\ \/ rpc' = [rpc EXCEPT ![r] = Started(t, ClientHas(r) \cup Resource)]
             \/ \E missing \in Resource :
                   rpc' = [rpc EXCEPT
                      ![r].state = "refused",
                      ![r].mem = StartRefused(((ClientHas(r) \cup Got(missing))
                                                  \ CreateRpcFrees(missing))
                                                  \ SendRequestFrees(missing))]
    /\ InterruptUnchanged /\ SyncUnchanged /\ UNCHANGED <<pc, job, answer, phase>>

\* finishCurlMulti() waits with waitForWorkInt() until the flag has had its
\* effect, and with waitForWork() from there on.
Wait(j) == IF j.interruptible /\ ~j.curlCalled THEN "test" ELSE "asleep"

\* finishAsynch(), with a time limit or without.
FinishAsynch(t) ==
    /\ pc[t] = "idle"
    /\ \E limit \in {"none", "ahead"} :
          /\ phase = "calls" \/ (phase = "finishes" /\ limit = "none")
          /\ job' = [job EXCEPT ![t] =
                [NoJob EXCEPT !.limit = limit, !.interruptible = interruptP,
                              !.entry = {r \in Asynch : /\ limit = "none"
                                                        /\ rpc[r].state \in {"outstanding", "done"}}]]
    /\ Goto(t, Wait(job'[t]))
    /\ InterruptUnchanged /\ SyncUnchanged /\ UNCHANGED <<rpc, answer, phase>>

\* xmlrpc_client_call2(), which makes the call's XML, and call() as far as the
\* lock of the synchronous session; there may be no memory for the XML or for
\* the response ...
Call(t) ==
    /\ pc[t] = "idle" /\ phase = "calls"
    /\ \E r \in Synch :
          /\ New(r)
          /\ \/ /\ rpc' = [rpc EXCEPT ![r].mem = ClientHas(r)]
                /\ job' = [job EXCEPT ![t] = [NoJob EXCEPT !.call = r]]
                /\ Goto(t, "lock")
             \/ /\ \E has \in {{}, ClientHas(r)} :
                      rpc' = [rpc EXCEPT ![r].state = "refused", ![r].mem = Call2Frees(r, has)]
                /\ UNCHANGED <<pc, job>>
    /\ InterruptUnchanged /\ SyncUnchanged /\ UNCHANGED <<answer, phase>>

\* ... and from there: the session is set up for this RPC and goes to its
\* multi manager with the flag that is registered now, or getting `missing'
\* fails, and call() destroys an RPC it cannot perform, leaves the session and
\* frees the response.
CallFrees(missing) ==
    IF missing = "handle" THEN {"transaction", "rpc", "session", "response"}
    ELSE {"session", "response"}
LockFree_Mutant == TRUE
LockFree == syncLock = NoThread
StartCall(t) ==
    /\ pc[t] = "lock" /\ LockFree
    /\ \/ /\ syncLock' = t /\ syncSession' = job[t].call
          /\ rpc' = [rpc EXCEPT ![job[t].call] = Started(t, @.mem \cup Resource)]
          /\ job' = [job EXCEPT ![t].interruptible = interruptP]
          /\ Goto(t, Wait(job'[t]))
       \/ /\ SyncUnchanged
          /\ \E missing \in {"rpc", "transaction", "handle"} :
                rpc' = [rpc EXCEPT
                   ![job[t].call].state = "refused",
                   ![job[t].call].mem =
                      Call2Frees(job[t].call,
                                 ((@ \cup Got(missing)) \ CreateRpcFrees(missing))
                                    \ CallFrees(missing))]
          /\ Goto(t, "idle")
          /\ job' = [job EXCEPT ![t] = NoJob]
    /\ InterruptUnchanged /\ UNCHANGED <<answer, phase>>
-----------------------------------------------------------------------------
(* finishCurlMulti(). *)

\* The RPCs of the thread's multi manager.
Mine(t) == IF job[t].call = NoRpc THEN Asynch ELSE {syncSession}

\* waitForWorkInt() has blocked all signals.
TestFlag(t) ==
    /\ pc[t] = "test"
    /\ Goto(t, IF interrupt THEN "work" ELSE "armed")
    /\ job' = [job EXCEPT ![t].skips = IF interrupt THEN @ + 1 ELSE @]
    /\ InterruptUnchanged /\ SyncUnchanged /\ UNCHANGED <<rpc, answer, phase>>

\* pselect() unblocks the signals and waits in one step.
Pselect(t) ==
    /\ pc[t] = "armed"
    /\ Goto(t, "asleepInt")
    /\ InterruptUnchanged /\ SyncUnchanged /\ UNCHANGED <<job, rpc, answer, phase>>

Asleep(t) == pc[t] \in {"asleep", "asleepInt"}

\* A descriptor is ready, or pselectTimeout() is over, which is never more
\* than 3 seconds.
Wake_Mutant(t) ==
    /\ Asleep(t)
    /\ \E r \in Mine(t) : rpc[r].state = "outstanding" /\ answer[r] # "none"
    /\ Goto(t, "work")
    /\ InterruptUnchanged /\ SyncUnchanged /\ UNCHANGED <<job, rpc, answer, phase>>
Wake(t) ==
    /\ Asleep(t)
    /\ Goto(t, "work")
    /\ InterruptUnchanged /\ SyncUnchanged /\ UNCHANGED <<job, rpc, answer, phase>>

NoteInterrupt_Mutant(t) ==
    /\ pc[t] = "work"
    /\ Goto(t, "perform")
    /\ InterruptUnchanged /\ SyncUnchanged /\ UNCHANGED <<job, rpc, answer, phase>>
NoteInterrupt(t) ==
    /\ pc[t] = "work"
    /\ job' = [job EXCEPT ![t].curlCalled = @ \/ (job[t].interruptible /\ interrupt)]
    /\ Goto(t, "perform")
    /\ InterruptUnchanged /\ SyncUnchanged /\ UNCHANGED <<rpc, answer, phase>>

\* How libcurl may end a transaction: as the network will have it, or because
\* curlTransactionProgress() tells it to abort.
AbortP_Mutant(r) == rpc[r].canAbort /\ interruptP /\ ~interrupt
AbortP(r) == rpc[r].canAbort /\ interruptP /\ interrupt
MayEnd(r) == {o \in {"answered"} : answer[r] = o} \cup {o \in {"aborted"} : AbortP(r)}

Counted_Mutant(transactions, ends) == ends = {}
Counted_Always(transactions, ends) == TRUE
\* What doCurlWork() returns as *transStillRunningP.
Counted(transactions, ends) == transactions # ends

\* doCurlWork() as far as curlMulti_perform(), which counts what still runs.
Perform(t) ==
    /\ pc[t] = "perform"
    /\ LET transactions == {r \in Mine(t) : rpc[r].state = "outstanding"}
           ends == {r \in transactions : MayEnd(r) # {}}
       IN  /\ \E result \in [ends -> Outcome] :
                 /\ \A r \in ends : result[r] \in MayEnd(r)
                 /\ rpc' = [r \in Rpc |->
                       IF r \in ends
                       THEN [rpc[r] EXCEPT !.state = "done", !.result = result[r]]
                       ELSE rpc[r]]
           /\ job' = [job EXCEPT ![t].running = Counted(transactions, ends)]
    /\ Goto(t, "messages")
    /\ InterruptUnchanged /\ SyncUnchanged /\ UNCHANGED <<answer, phase>>

Done_Mutant(t) == {r \in Mine(t) : rpc[r].state \in {"done", "completing"}}
Done(t) == {r \in Mine(t) : rpc[r].state = "done"}

\* finishRpcCurlTransaction() takes an asynchronous RPC from its multi manager,
\* performCurlTransaction() a synchronous one.
HandleRemoved(mem) == mem \ {"handle"}
FinishRemoves(r, mem) == IF r \in Asynch THEN HandleRemoved(mem) ELSE mem

\* processCurlMessages(): curlTransaction_finish() and, for an asynchronous
\* RPC, finishRpcCurlTransaction() as far as the call of complete().
ProcessMessage_Mutant(t) ==
    /\ pc[t] = "messages"
    /\ \E r \in Done(t) :
          /\ rpc' = [rpc EXCEPT ![r].state = "completing", ![r].mem = FinishRemoves(r, @)]
          /\ Goto(t, "callback") /\ job' = [job EXCEPT ![t].current = r]
    /\ InterruptUnchanged /\ SyncUnchanged /\ UNCHANGED <<answer, phase>>
ProcessMessage(t) ==
    /\ pc[t] = "messages"
    /\ \E r \in Done(t) :
          /\ rpc' = [rpc EXCEPT ![r].state = "completing", ![r].mem = FinishRemoves(r, @)]
          /\ IF r \in Asynch
             THEN Goto(t, "callback") /\ job' = [job EXCEPT ![t].current = r]
             ELSE UNCHANGED <<pc, job>>
    /\ InterruptUnchanged /\ SyncUnchanged /\ UNCHANGED <<answer, phase>>

\* The RPC gives up what the transport got for it and is no more.
Over(r, mem) ==
    /\ rpc' = [rpc EXCEPT ![r] = [NewRpc EXCEPT !.state = "complete",
                                                !.mem = mem \ (Resource \ {"handle"})]]
    /\ answer' = [answer EXCEPT ![r] = "none"]

\* The rest of it, when the program's completion routine has returned to
\* asynchComplete().
CompletionReturns(t) ==
    /\ pc[t] = "callback"
    /\ Over(job[t].current, AsynchCompleted(rpc[job[t].current].mem))
    /\ job' = [job EXCEPT ![t].current = NoRpc]
    /\ Goto(t, "messages")
    /\ InterruptUnchanged /\ SyncUnchanged /\ UNCHANGED phase

\* No more messages: another iteration, or the end of the loop.
EndIteration(t) ==
    LET again == job[t].running /\ job[t].limit # "passed"
    IN  /\ pc[t] = "messages"
        /\ Goto(t, IF again THEN Wait(job[t]) ELSE "return")
        /\ job' = [job EXCEPT ![t].running = again]
        /\ InterruptUnchanged /\ SyncUnchanged /\ UNCHANGED <<rpc, answer, phase>>
EndOfMessages_Mutant(t) == EndIteration(t)
EndOfMessages(t) == EndIteration(t) /\ Done(t) = {}

FinishAsynchReturns(t) ==
    /\ pc[t] = "return" /\ job[t].call = NoRpc
    /\ phase' = IF phase = "finishes" THEN "finished" ELSE phase
    /\ Goto(t, "idle")
    /\ job' = [job EXCEPT ![t] = NoJob]
    /\ InterruptUnchanged /\ SyncUnchanged /\ UNCHANGED <<rpc, answer>>

\* The rest of performCurlTransaction() and call(): the result is read, the
\* handle removed, the RPC destroyed and the session left to the next;
\* xmlrpc_client_call2() reads the response and frees both documents.
CallReturns(t) ==
    /\ pc[t] = "return" /\ job[t].call # NoRpc
    /\ Over(job[t].call, Call2Frees(job[t].call, HandleRemoved(rpc[job[t].call].mem)))
    /\ syncLock' = NoThread /\ syncSession' = NoRpc
    /\ Goto(t, "idle")
    /\ job' = [job EXCEPT ![t] = NoJob]
    /\ InterruptUnchanged /\ UNCHANGED phase
-----------------------------------------------------------------------------
(* The program, its signals and the network. *)

\* xmlrpc_client_set_interrupt(), while RPCs may be outstanding.
SetInterruptP ==
    /\ ~interruptP
    /\ interruptP' = TRUE
    /\ SyncUnchanged
    /\ UNCHANGED <<pc, job, rpc, answer, interrupt, handledBy, pending, signals, phase>>

ClearInterrupt ==
    /\ interrupt
    /\ interrupt' = FALSE /\ handledBy' = NoThread
    /\ SyncUnchanged
    /\ UNCHANGED <<pc, job, rpc, answer, interruptP, pending, signals, phase>>

Signal ==
    /\ signals < MaxSignals /\ ~pending
    /\ pending' = TRUE /\ signals' = signals + 1
    /\ SyncUnchanged
    /\ UNCHANGED <<pc, job, rpc, answer, interruptP, interrupt, handledBy, phase>>

\* waitForWorkInt() blocks all signals around its test.
Blocking_Mutant(t) == pc[t] = "test"
Blocking(t) == pc[t] \in {"test", "armed"}

\* A thread that does not block the signal runs its handler, which sets the
\* flag; a thread that waits is awake then.
HandleSignal(t) ==
    /\ pending /\ ~Blocking(t)
    /\ pending' = FALSE /\ interrupt' = TRUE /\ handledBy' = t
    /\ IF Asleep(t) THEN Goto(t, "work") ELSE UNCHANGED pc
    /\ rpc' = [r \in Rpc |-> [rpc[r] EXCEPT !.flagged = @ \/ rpc[r].state = "outstanding"]]
    /\ SyncUnchanged
    /\ UNCHANGED <<job, answer, interruptP, signals, phase>>

DeadlinePasses(t) ==
    /\ job[t].limit = "ahead"
    /\ job' = [job EXCEPT ![t].limit = "passed"]
    /\ InterruptUnchanged /\ SyncUnchanged /\ UNCHANGED <<pc, rpc, answer, phase>>

\* The server answers, or the connection fails: what the caller is told of it
\* is all the same here.
NetworkAnswers(r) ==
    /\ rpc[r].state = "outstanding" /\ answer[r] = "none"
    /\ answer' = [answer EXCEPT ![r] = "answered"]
    /\ InterruptUnchanged /\ SyncUnchanged /\ UNCHANGED <<pc, job, rpc, phase>>

\* A program that keeps the rules of destroy(): when no thread is in the
\* transport it starts nothing more, calls finish_asynch without a time limit,
\* which may be the second one, and destroys the transport when it returns.
StopCalling ==
    /\ phase = "calls" /\ \A t \in Thread : pc[t] = "idle"
    /\ phase' = "finishes"
    /\ InterruptUnchanged /\ SyncUnchanged /\ UNCHANGED <<pc, job, rpc, answer>>

Destroy ==
    /\ phase = "finished" /\ \A t \in Thread : pc[t] = "idle"
    /\ phase' = "destroyed"
    /\ InterruptUnchanged /\ SyncUnchanged /\ UNCHANGED <<pc, job, rpc, answer>>

TransportStep(t) ==
    \/ StartCall(t) \/ TestFlag(t) \/ Pselect(t) \/ Wake(t)
    \/ NoteInterrupt(t) \/ Perform(t) \/ ProcessMessage(t) \/ CompletionReturns(t)
    \/ EndOfMessages(t) \/ FinishAsynchReturns(t) \/ CallReturns(t)

Next ==
    \/ \E t \in Thread :
          \/ SendRequest(t) \/ FinishAsynch(t) \/ Call(t) \/ TransportStep(t)
          \/ HandleSignal(t) \/ DeadlinePasses(t)
    \/ SetInterruptP \/ ClearInterrupt \/ Signal \/ StopCalling \/ Destroy
    \/ \E r \in Rpc : NetworkAnswers(r)

\* Threads run, completion routines return, and time passes; no server has to
\* answer.
Fairness ==
    \A t \in Thread : WF_vars(TransportStep(t)) /\ WF_vars(DeadlinePasses(t))

Spec == Init /\ [][Next]_vars /\ Fairness
-----------------------------------------------------------------------------
(* Properties. *)

\* What a completion routine or a synchronous caller is told of an RPC is its
\* own result: what the network made of it, or an abortion, if the flag was set
\* in its lifetime and it was begun with the flag registered.  No synchronous
\* caller reads the result of another or one that was never set.
ResultsTrue ==
    LET True(r) ==
            \/ rpc[r].result = "aborted" /\ rpc[r].flagged /\ rpc[r].canAbort
            \/ rpc[r].result = "answered" /\ answer[r] = "answered"
    IN  \A t \in Thread :
           /\ pc[t] = "callback" => True(job[t].current)
           /\ pc[t] = "return" /\ job[t].call # NoRpc => True(job[t].call)

\* However many threads finish RPCs, the completion routine of an RPC is
\* called by one of them and while the RPC still exists.
OneCompletion ==
    /\ \A t \in Thread : pc[t] = "callback" => rpc[job[t].current].state = "completing"
    /\ \A t, u \in Thread : t # u /\ pc[t] = "callback" => job[u].current # job[t].current

\* An RPC that libcurl works on has all it needs, and one that is over, or that
\* could not be started, holds nothing.
ResourcesReleased ==
    \A r \in Rpc :
        /\ rpc[r].state \in {"outstanding", "done"} => rpc[r].mem = ClientHas(r) \cup Resource
        /\ rpc[r].state \in {"refused", "complete"} => rpc[r].mem = {}

\* finish_asynch without a time limit does not return before every RPC that
\* was outstanding when it began is complete, or its completion routine runs
\* in another thread.
FinishSeesToAll ==
    \A t \in Thread : pc[t] = "return" /\ job[t].call = NoRpc /\ job[t].limit = "none" =>
        \A r \in job[t].entry :
            rpc[r].state = "complete" \/ \E u \in Thread \ {t} : job[u].current = r

\* A thread is not asleep in waitForWorkInt() with the flag set if the signal
\* was its own: the flag cannot be set between its test and its wait.
NoSignalMissed ==
    \A t \in Thread : pc[t] = "asleepInt" => ~(interrupt /\ handledBy = t)

\* The flag keeps a thread from waiting once for each signal: no busy loop.
NoBusyLoop == \A t \in Thread : job[t].skips <= signals

\* A program that follows the rules of destroy(), a finish_asynch without a
\* limit before it, meets none of its assertions (xmlrpc_curl_transport.c:1180),
\* but for RPCs that completion routines started: doCurlWork() counts what is
\* running before it calls them, so that finish_asynch may return without them.
DestroyFindsNoOther ==
    phase = "destroyed" => \A r \in Rpc :
        rpc[r].state \in {"outstanding", "done", "completing"} => rpc[r].byCallback

\* finish_asynch with a time limit returns, whatever the servers do.
TimeLimitKept == \A t \in Thread : (job[t].limit # "none") ~> pc[t] = "idle"

\* A synchronous call returns once the network has made something of it.
AnsweredCallsReturn ==
    \A r \in Synch : (rpc[r].state = "outstanding" /\ answer[r] # "none")
                        ~> rpc[r].state = "complete"

\* The flag, once registered, ends finish_asynch although no server answers, if
\* no RPC was begun before it was registered and nobody clears it.
InterruptEndsFinish ==
    \A t \in Thread :
        (/\ Finishing(t) /\ interruptP /\ interrupt
         /\ \A r \in Asynch : rpc[r].state = "outstanding" => rpc[r].canAbort)
            ~> (pc[t] = "idle" \/ ~interrupt)
=============================================================================
