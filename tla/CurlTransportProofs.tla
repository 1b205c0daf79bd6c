------------------------ MODULE CurlTransportProofs ------------------------
(* Proofs about CurlTransport for every set of threads, RPCs and bounds. *)
EXTENDS CurlTransport, TLAPS

Active == {"outstanding", "done", "completing"}
Calling(t) == job[t].call # NoRpc

\* What a thread is doing in the transport.
Stage(t) ==
    /\ pc[t] = "idle" => job[t] = NoJob
    /\ pc[t] = "lock" => Calling(t) /\ job[t].skips = 0
    /\ pc[t] = "callback" => ~Calling(t)
    /\ pc[t] = "callback" <=> job[t].current # NoRpc
    /\ pc[t] \in {"test", "armed", "asleepInt"} => job[t].interruptible /\ ~job[t].curlCalled
    /\ job[t].limit # "none" \/ Calling(t) => job[t].entry = {}
    /\ pc[t] \notin {"messages", "callback", "return"} => job[t].running

\* One thread at a time has the synchronous session, set up for its RPC.
SessionInv ==
    /\ \A t \in Thread : /\ Calling(t) => job[t].limit = "none"
                         /\ Calling(t) /\ pc[t] # "lock" <=> syncLock = t
    /\ syncLock # NoThread => syncSession = job[syncLock].call
    /\ \A t, u \in Thread : Calling(t) /\ job[t].call = job[u].call => t = u

\* Who is responsible for an RPC, and what it holds.
Life(r) ==
    /\ r \in Synch /\ rpc[r].state \in Active
          => \E t \in Thread : job[t].call = r /\ pc[t] # "lock"
    /\ r \in Asynch => (rpc[r].state = "completing" <=> \E t \in Thread : job[t].current = r)
    /\ \A t \in Thread : job[t].call = r =>
          /\ pc[t] = "lock" => rpc[r].state = "idle" /\ rpc[r].mem = ClientHas(r)
          /\ pc[t] # "lock" => rpc[r].state \in Active
          /\ pc[t] = "messages" /\ ~job[t].running => rpc[r].state # "outstanding"
          /\ pc[t] = "return" => rpc[r].state = "completing"
    /\ rpc[r].state = "idle" /\ (\A t \in Thread : job[t].call # r) => rpc[r].mem = {}
    /\ rpc[r].state = "completing" => rpc[r].mem = FinishRemoves(r, ClientHas(r) \cup Resource)
    /\ interrupt /\ rpc[r].state = "outstanding" => rpc[r].flagged
    /\ rpc[r].state \in {"done", "completing"} =>
          \/ rpc[r].result = "aborted" /\ rpc[r].flagged /\ rpc[r].canAbort
          \/ rpc[r].result = "answered" /\ answer[r] = "answered"

LifeInv == \A r \in Rpc : Life(r)

\* Each completion routine has its RPC for itself.
RoutineInv ==
    \A t, u \in Thread : job[t].current # NoRpc /\ job[t].current = job[u].current => t = u

\* What finish_asynch has to see to has begun, and is over when it ends.
EntryInv ==
    \A t \in Thread : \A r \in job[t].entry :
        /\ rpc[r].state \in Active \cup {"complete"}
        /\ pc[t] \in {"messages", "callback"} /\ ~job[t].running => rpc[r].state # "outstanding"
        /\ pc[t] = "return" => rpc[r].state \in {"completing", "complete"}

\* The signals whose handler has run; a thread may still be kept from waiting
\* by the last of them.
Handled == IF pending THEN signals - 1 ELSE signals
SignalInv ==
    /\ Handled \in Nat
    /\ interrupt => Handled > 0
    /\ \A t \in Thread :
          /\ pc[t] \in {"armed", "asleepInt"} => ~(interrupt /\ handledBy = t)
          /\ job[t].skips <= Handled
          /\ job[t].interruptible /\ ~job[t].curlCalled /\ pc[t] # "work" /\ interrupt
                => job[t].skips < Handled

\* A program that has stopped calling: what is still to be done, and by whom.
Left(r) == rpc[r].state \in {"outstanding", "done"} /\ ~rpc[r].byCallback
PhaseInv ==
    /\ phase # "calls" => \A t \in Thread : ~Calling(t) /\ job[t].limit = "none"
    /\ phase = "finishes" =>
          \A t \in Thread : pc[t] # "idle" => \A r \in Asynch : Left(r) => r \in job[t].entry
    /\ phase \in {"finished", "destroyed"} => \A r \in Asynch : ~Left(r)
    /\ phase = "destroyed" => \A t \in Thread : pc[t] = "idle"

IInv ==
    /\ TypeOK /\ (\A t \in Thread : Stage(t)) /\ SessionInv /\ LifeInv
    /\ RoutineInv /\ EntryInv /\ SignalInv /\ PhaseInv /\ ResourcesReleased

-----------------------------------------------------------------------------
(* Facts about the operators. *)

\* The records that the steps make are of their types.
LEMMA RecordTypes ==
  ASSUME TypeOK
  PROVE  /\ NoJob \in JobType /\ NewRpc \in RpcType
         /\ \A r \in Rpc : ClientHas(r) \subseteq CallInfo
         /\ \A t \in Thread, m \in SUBSET (Resource \cup CallInfo) : Started(t, m) \in RpcType
<1>1. NoJob \in JobType
  BY DEF NoJob, JobType
<1>2. NewRpc \in RpcType
  BY DEF NewRpc, RpcType, States
<1>3. \A r \in Rpc : ClientHas(r) \subseteq CallInfo
  BY DEF ClientHas, CallInfo
<1>4. ASSUME NEW t \in Thread, NEW m \in SUBSET (Resource \cup CallInfo)
      PROVE  Started(t, m) \in RpcType
  <2>1. (pc[t] = "callback") \in BOOLEAN
    OBVIOUS
  <2>2. PICK b \in BOOLEAN : b = (pc[t] = "callback")
    BY <2>1, Zenon
  <2>3. Started(t, m) = [state |-> "outstanding", result |-> "none", canAbort |-> interruptP,
                         mem |-> m, byCallback |-> b, flagged |-> interrupt]
    BY <2>2, Zenon DEF Started
  <2>. QED BY <2>3 DEF TypeOK, RpcType, States
<1>. QED BY <1>1, <1>2, <1>3, <1>4

\* A thread past the lock works on the asynchronous RPCs, or on the one of its
\* own synchronous call.
LEMMA OwnRpcs ==
  ASSUME IInv, NEW t \in Thread, pc[t] \notin {"idle", "lock"}
  PROVE  /\ ~Calling(t) => Mine(t) = Asynch
         /\ Calling(t) => Mine(t) = {job[t].call} /\ job[t].call \in Synch
         /\ Mine(t) \subseteq Rpc
  BY ThreadAssumption, RpcAssumption
     DEF IInv, TypeOK, SessionInv, Calling, Mine, Rpc, JobType

\* A thread that waits for the lock calls a synchronous RPC, of which the client
\* has made the XML.
LEMMA LockedCall ==
  ASSUME IInv, NEW t \in Thread, StartCall(t)
  PROVE  job[t].call \in Synch /\ rpc[job[t].call].mem = ClientHas(job[t].call)
<1>1. pc[t] = "lock" /\ job[t].call # NoRpc
  BY DEF StartCall, IInv, Stage, Calling
<1>2. job[t].call \in Synch /\ job[t].call \in Rpc
  BY <1>1 DEF IInv, TypeOK, JobType, Rpc
<1>3. Life(job[t].call)
  BY <1>2 DEF IInv, LifeInv
<1>. QED BY <1>1, <1>2, <1>3 DEF Life

-----------------------------------------------------------------------------
(* What the larger steps do, field by field. *)

OnlyThread(t) == \A u \in Thread \ {t} : pc'[u] = pc[u] /\ job'[u] = job[u]
OnlyRpc(r) == \A x \in Rpc \ {r} : rpc'[x] = rpc[x] /\ answer'[x] = answer[x]
SameRequest(t) ==
    /\ job'[t].call = job[t].call /\ job'[t].entry = job[t].entry
    /\ job'[t].interruptible = job[t].interruptible

LEMMA SendRequestDoes ==
  ASSUME TypeOK, NEW t \in Thread, SendRequest(t)
  PROVE  \E r \in Asynch :
            /\ New(r) /\ OnlyRpc(r)
            /\ \/ /\ rpc'[r].state = "outstanding" /\ rpc'[r].mem = ClientHas(r) \cup Resource
                  /\ rpc'[r].flagged = interrupt
                  /\ rpc'[r].byCallback = (pc[t] = "callback")
               \/ rpc'[r].state = "refused" /\ rpc'[r].mem = {}
<1>1. PICK r \in Asynch :
         /\ New(r)
         /\ \/ rpc' = [rpc EXCEPT ![r] = Started(t, ClientHas(r) \cup Resource)]
            \/ \E missing \in Resource :
                   rpc' = [rpc EXCEPT
                      ![r].state = "refused",
                      ![r].mem = StartRefused(((ClientHas(r) \cup Got(missing))
                                                  \ CreateRpcFrees(missing))
                                                  \ SendRequestFrees(missing))]
  BY DEF SendRequest
<1>2. ASSUME NEW missing \in Resource
      PROVE  StartRefused(((ClientHas(r) \cup Got(missing)) \ CreateRpcFrees(missing))
                             \ SendRequestFrees(missing)) = {}
  BY DEF StartRefused, CallInfoDestroyed, ClientHas, CallInfo, Got, CreateRpcFrees,
         SendRequestFrees, Resource
<1>3. r \in Rpc /\ rpc[r] \in RpcType
  BY DEF TypeOK, Rpc
<1>4. CASE rpc' = [rpc EXCEPT ![r] = Started(t, ClientHas(r) \cup Resource)]
  <2>1. rpc'[r] = Started(t, ClientHas(r) \cup Resource) /\ \A x \in Rpc \ {r} : rpc'[x] = rpc[x]
    BY <1>3, <1>4 DEF TypeOK
  <2>2. OnlyRpc(r)
    BY <2>1 DEF OnlyRpc, SendRequest
  <2>3. /\ rpc'[r].state = "outstanding" /\ rpc'[r].mem = ClientHas(r) \cup Resource
        /\ rpc'[r].flagged = interrupt
    BY <2>1 DEF Started
  <2>4. rpc'[r].byCallback = (pc[t] = "callback")
    <3>1. (pc[t] = "callback") \in BOOLEAN
      OBVIOUS
    <3>2. PICK b \in BOOLEAN : b = (pc[t] = "callback")
      BY <3>1, Zenon
    <3>3. rpc'[r] = [state |-> "outstanding", result |-> "none", canAbort |-> interruptP,
                     mem |-> ClientHas(r) \cup Resource, byCallback |-> b, flagged |-> interrupt]
      BY <2>1, <3>2, Zenon DEF Started
    <3>4. rpc'[r].byCallback = b
      BY <3>3
    <3>. QED BY <3>2, <3>4, Zenon
  <2>. QED BY <1>1, <2>2, <2>3, <2>4
<1>5. ASSUME NEW m, m = {}, rpc' = [rpc EXCEPT ![r].state = "refused", ![r].mem = m]
      PROVE  OnlyRpc(r) /\ rpc'[r].state = "refused" /\ rpc'[r].mem = {}
  BY <1>3, <1>5 DEF TypeOK, RpcType, OnlyRpc, SendRequest
<1>. QED BY <1>1, <1>2, <1>4, <1>5

LEMMA FinishAsynchDoes ==
  ASSUME TypeOK, NEW t \in Thread, FinishAsynch(t)
  PROVE  /\ OnlyThread(t) /\ pc'[t] \in {"test", "asleep"}
         /\ job'[t].call = NoRpc /\ job'[t].current = NoRpc
         /\ job'[t].limit \in {"none", "ahead"} /\ (phase = "calls" \/ job'[t].limit = "none")
         /\ job'[t].running /\ ~job'[t].curlCalled /\ job'[t].skips = 0
         /\ pc'[t] = "test" => job'[t].interruptible
         /\ job'[t].limit = "ahead" => job'[t].entry = {}
         /\ job'[t].limit = "none" =>
               job'[t].entry = {r \in Asynch : rpc[r].state \in {"outstanding", "done"}}
<1>1. PICK limit \in {"none", "ahead"} :
         /\ phase = "calls" \/ (phase = "finishes" /\ limit = "none")
         /\ job' = [job EXCEPT ![t] =
                [NoJob EXCEPT !.limit = limit, !.interruptible = interruptP,
                              !.entry = {r \in Asynch : /\ limit = "none"
                                                        /\ rpc[r].state \in {"outstanding", "done"}}]]
  BY DEF FinishAsynch
<1>2. job'[t] = [NoJob EXCEPT !.limit = limit, !.interruptible = interruptP,
                              !.entry = {r \in Asynch : /\ limit = "none"
                                                        /\ rpc[r].state \in {"outstanding", "done"}}]
  BY <1>1 DEF TypeOK
<1>3. job'[t] = [call |-> NoRpc, current |-> NoRpc, limit |-> limit, interruptible |-> interruptP,
                 running |-> TRUE, curlCalled |-> FALSE,
                 entry |-> {r \in Asynch : limit = "none" /\ rpc[r].state \in {"outstanding", "done"}},
                 skips |-> 0]
  BY <1>2 DEF NoJob
<1>4. OnlyThread(t) /\ pc'[t] = Wait(job'[t])
  BY <1>1 DEF FinishAsynch, Goto, TypeOK, OnlyThread
<1>5. /\ job'[t].call = NoRpc /\ job'[t].current = NoRpc /\ job'[t].limit = limit
      /\ job'[t].running /\ ~job'[t].curlCalled /\ job'[t].skips = 0
      /\ job'[t].interruptible = interruptP
      /\ job'[t].entry = {r \in Asynch : limit = "none" /\ rpc[r].state \in {"outstanding", "done"}}
  BY <1>3
<1>6. pc'[t] \in {"test", "asleep"} /\ (pc'[t] = "test" => job'[t].interruptible)
  BY <1>4 DEF Wait
<1>7. /\ limit = "ahead" => job'[t].entry = {}
      /\ limit = "none" => job'[t].entry = {r \in Asynch : rpc[r].state \in {"outstanding", "done"}}
  BY <1>5
<1>. QED BY <1>1, <1>4, <1>5, <1>6, <1>7

LEMMA CallDoes ==
  ASSUME TypeOK, NEW t \in Thread, Call(t)
  PROVE  \E r \in Synch :
            /\ New(r) /\ OnlyRpc(r)
            /\ \/ /\ OnlyThread(t) /\ pc'[t] = "lock"
                  /\ job'[t].call = r /\ job'[t].current = NoRpc /\ job'[t].limit = "none"
                  /\ job'[t].running /\ ~job'[t].curlCalled /\ job'[t].skips = 0
                  /\ job'[t].entry = {}
                  /\ rpc'[r] = [rpc[r] EXCEPT !.mem = ClientHas(r)]
               \/ UNCHANGED <<pc, job>> /\ rpc'[r] = [rpc[r] EXCEPT !.state = "refused", !.mem = {}]
<1>1. PICK r \in Synch :
          /\ New(r)
          /\ \/ /\ rpc' = [rpc EXCEPT ![r].mem = ClientHas(r)]
                /\ job' = [job EXCEPT ![t] = [NoJob EXCEPT !.call = r]]
                /\ Goto(t, "lock")
             \/ /\ rpc' = [rpc EXCEPT ![r].state = "refused", ![r].mem = {}]
                /\ UNCHANGED <<pc, job>>
  <2>1. \A r \in Synch : \A has \in {{}, ClientHas(r)} : Call2Frees(r, has) = {}
    BY DEF Call2Frees
  <2>. QED BY <2>1 DEF Call
<1>2. r \in Rpc /\ rpc[r] \in RpcType /\ UNCHANGED answer
  BY DEF Rpc, TypeOK, Call
<1>3. CASE /\ rpc' = [rpc EXCEPT ![r].mem = ClientHas(r)]
           /\ job' = [job EXCEPT ![t] = [NoJob EXCEPT !.call = r]]
           /\ Goto(t, "lock")
  <2>1. job'[t] = [NoJob EXCEPT !.call = r]
    BY <1>3 DEF TypeOK
  <2>2. /\ job'[t].call = r /\ job'[t].current = NoRpc /\ job'[t].limit = "none"
        /\ job'[t].running /\ ~job'[t].curlCalled /\ job'[t].skips = 0 /\ job'[t].entry = {}
    BY <2>1 DEF NoJob
  <2>3. OnlyThread(t) /\ pc'[t] = "lock"
    BY <1>3 DEF OnlyThread, Goto, TypeOK
  <2>4. OnlyRpc(r) /\ rpc'[r] = [rpc[r] EXCEPT !.mem = ClientHas(r)]
    BY <1>2, <1>3 DEF OnlyRpc, TypeOK
  <2>. QED BY <1>1, <2>2, <2>3, <2>4
<1>4. CASE rpc' = [rpc EXCEPT ![r].state = "refused", ![r].mem = {}] /\ UNCHANGED <<pc, job>>
  BY <1>1, <1>2, <1>4 DEF OnlyRpc, TypeOK
<1>. QED BY <1>1, <1>3, <1>4

\* Of Call(t), what the lock and the session depend on.
LEMMA CallLocks ==
  ASSUME TypeOK, NEW t \in Thread, Call(t)
  PROVE  \/ UNCHANGED <<pc, job>>
         \/ \E r \in Synch : /\ OnlyThread(t) /\ pc'[t] = "lock" /\ job'[t].call = r
                             /\ job'[t].current = NoRpc /\ job'[t].limit = "none" /\ job'[t].running
                             /\ job'[t].entry = {} /\ job'[t].skips = 0
                             /\ New(r)
<1>1. PICK r \in Synch :
          /\ New(r) /\ OnlyRpc(r)
          /\ \/ /\ OnlyThread(t) /\ pc'[t] = "lock"
                /\ job'[t].call = r /\ job'[t].current = NoRpc /\ job'[t].limit = "none"
                /\ job'[t].running /\ ~job'[t].curlCalled /\ job'[t].skips = 0
                /\ job'[t].entry = {}
                /\ rpc'[r] = [rpc[r] EXCEPT !.mem = ClientHas(r)]
             \/ UNCHANGED <<pc, job>> /\ rpc'[r] = [rpc[r] EXCEPT !.state = "refused", !.mem = {}]
  BY CallDoes
<1>2. CASE OnlyThread(t) /\ pc'[t] = "lock"
  BY <1>1, <1>2
<1>3. CASE UNCHANGED <<pc, job>>
  BY <1>3
<1>. QED BY <1>1, <1>2, <1>3

LEMMA StartCallDoes ==
  ASSUME TypeOK, NEW t \in Thread, StartCall(t), job[t].call \in Synch,
         rpc[job[t].call].mem = ClientHas(job[t].call)
  PROVE  /\ OnlyThread(t) /\ OnlyRpc(job[t].call)
         /\ \/ /\ syncLock' = t /\ syncSession' = job[t].call
               /\ pc'[t] \in {"test", "asleep"}
               /\ pc'[t] = "test" => job'[t].interruptible /\ ~job'[t].curlCalled
               /\ job'[t] = [job[t] EXCEPT !.interruptible = interruptP]
               /\ rpc'[job[t].call] = Started(t, ClientHas(job[t].call) \cup Resource)
            \/ /\ UNCHANGED <<syncLock, syncSession>>
               /\ pc'[t] = "idle" /\ job'[t] = NoJob
               /\ rpc'[job[t].call] = [rpc[job[t].call] EXCEPT !.state = "refused", !.mem = {}]
<1>. DEFINE r == job[t].call
<1>1. r \in Rpc /\ rpc[r] \in RpcType /\ rpc[r].mem = ClientHas(r) /\ UNCHANGED answer
  BY DEF Rpc, TypeOK, StartCall
<1>2. ASSUME NEW missing \in {"rpc", "transaction", "handle"}
      PROVE  Call2Frees(r, ((ClientHas(r) \cup Got(missing)) \ CreateRpcFrees(missing))
                              \ CallFrees(missing)) = {}
  BY DEF Call2Frees, Got, CreateRpcFrees, CallFrees
<1>3. \/ /\ syncLock' = t /\ syncSession' = r
         /\ rpc' = [rpc EXCEPT ![r] = Started(t, @.mem \cup Resource)]
         /\ job' = [job EXCEPT ![t].interruptible = interruptP]
         /\ Goto(t, Wait(job'[t]))
      \/ /\ SyncUnchanged
         /\ \E missing \in {"rpc", "transaction", "handle"} :
               rpc' = [rpc EXCEPT
                  ![r].state = "refused",
                  ![r].mem = Call2Frees(r, ((@ \cup Got(missing)) \ CreateRpcFrees(missing))
                                              \ CallFrees(missing))]
         /\ Goto(t, "idle")
         /\ job' = [job EXCEPT ![t] = NoJob]
  BY DEF StartCall
<1>. HIDE DEF r
<1>4. CASE /\ syncLock' = t /\ syncSession' = r
           /\ rpc' = [rpc EXCEPT ![r] = Started(t, @.mem \cup Resource)]
           /\ job' = [job EXCEPT ![t].interruptible = interruptP]
           /\ Goto(t, Wait(job'[t]))
  <2>1. OnlyThread(t) /\ pc'[t] = Wait(job'[t]) /\ job'[t] = [job[t] EXCEPT !.interruptible = interruptP]
    BY <1>4 DEF TypeOK, OnlyThread, Goto
  <2>2. pc'[t] \in {"test", "asleep"} /\ (pc'[t] = "test" => job'[t].interruptible /\ ~job'[t].curlCalled)
    BY <2>1 DEF Wait
  <2>3. OnlyRpc(r) /\ rpc'[r] = Started(t, ClientHas(r) \cup Resource)
    BY <1>1, <1>4 DEF TypeOK, OnlyRpc
  <2>. QED BY <1>4, <2>1, <2>2, <2>3 DEF r
<1>5. ASSUME SyncUnchanged, Goto(t, "idle"), job' = [job EXCEPT ![t] = NoJob],
             NEW missing \in {"rpc", "transaction", "handle"},
             rpc' = [rpc EXCEPT
                  ![r].state = "refused",
                  ![r].mem = Call2Frees(r, ((@ \cup Got(missing)) \ CreateRpcFrees(missing))
                                              \ CallFrees(missing))]
      PROVE  /\ OnlyThread(t) /\ OnlyRpc(r)
             /\ UNCHANGED <<syncLock, syncSession>> /\ pc'[t] = "idle" /\ job'[t] = NoJob
             /\ rpc'[r] = [rpc[r] EXCEPT !.state = "refused", !.mem = {}]
  <2>1. OnlyThread(t) /\ pc'[t] = "idle" /\ job'[t] = NoJob /\ UNCHANGED <<syncLock, syncSession>>
    BY <1>5 DEF TypeOK, OnlyThread, Goto, SyncUnchanged
  <2>2. OnlyRpc(r) /\ rpc'[r] = [rpc[r] EXCEPT !.state = "refused",
           !.mem = Call2Frees(r, ((@ \cup Got(missing)) \ CreateRpcFrees(missing))
                                              \ CallFrees(missing))]
    BY <1>1, <1>5 DEF TypeOK, OnlyRpc
  <2>3. rpc'[r] = [rpc[r] EXCEPT !.state = "refused", !.mem = {}]
    BY <1>1, <1>2, <2>2
  <2>. QED BY <2>1, <2>2, <2>3
<1>. QED BY <1>3, <1>4, <1>5 DEF r

LEMMA PerformDoes ==
  ASSUME TypeOK, NEW t \in Thread, Perform(t)
  PROVE  /\ OnlyThread(t) /\ pc'[t] = "messages" /\ SameRequest(t)
         /\ job'[t].current = job[t].current /\ job'[t].limit = job[t].limit
         /\ job'[t].curlCalled = job[t].curlCalled /\ job'[t].skips = job[t].skips
         /\ job'[t].running \in BOOLEAN
         /\ ~job'[t].running => \A r \in Mine(t) \cap Rpc : rpc'[r].state # "outstanding"
         /\ \A r \in Rpc :
               \/ rpc'[r] = rpc[r]
               \/ /\ r \in Mine(t) /\ rpc[r].state = "outstanding"
                  /\ \E o \in MayEnd(r) : rpc'[r] = [rpc[r] EXCEPT !.state = "done", !.result = o]
<1>. DEFINE transactions == {r \in Mine(t) : rpc[r].state = "outstanding"}
            ends == {r \in transactions : MayEnd(r) # {}}
<1>1. PICK result \in [ends -> Outcome] :
         /\ \A r \in ends : result[r] \in MayEnd(r)
         /\ rpc' = [r \in Rpc |->
               IF r \in ends
               THEN [rpc[r] EXCEPT !.state = "done", !.result = result[r]]
               ELSE rpc[r]]
  BY DEF Perform
<1>2. job' = [job EXCEPT ![t].running = Counted(transactions, ends)]
  BY DEF Perform
<1>3. pc' = [pc EXCEPT ![t] = "messages"]
  BY DEF Perform, Goto
<1>4. \A r \in Rpc :
         \/ rpc'[r] = rpc[r]
         \/ /\ r \in Mine(t) /\ rpc[r].state = "outstanding"
            /\ \E o \in MayEnd(r) : rpc'[r] = [rpc[r] EXCEPT !.state = "done", !.result = o]
  <2>1. ASSUME NEW r \in Rpc, r \in ends
        PROVE  rpc'[r] = [rpc[r] EXCEPT !.state = "done", !.result = result[r]]
    BY <1>1, <2>1, Zenon
  <2>2. ASSUME NEW r \in Rpc, r \notin ends PROVE rpc'[r] = rpc[r]
    BY <1>1, <2>2, Zenon
  <2>3. \A r \in ends : r \in Mine(t) /\ rpc[r].state = "outstanding" /\ result[r] \in MayEnd(r)
    BY <1>1
  <2>. QED BY <2>1, <2>2, <2>3, Zenon
<1>5. ASSUME transactions = ends, NEW r \in Mine(t), r \in Rpc PROVE rpc'[r].state # "outstanding"
  <2>1. CASE r \in ends
    <3>1. rpc'[r] = [rpc[r] EXCEPT !.state = "done", !.result = result[r]]
      BY <1>1, <2>1, <1>5, Zenon
    <3>2. rpc[r] \in RpcType
      BY <1>5 DEF TypeOK
    <3>. QED BY <3>1, <3>2 DEF RpcType
  <2>2. CASE r \notin ends
    <3>1. rpc'[r] = rpc[r]
      BY <1>1, <2>2, <1>5, Zenon
    <3>2. r \notin transactions
      BY <1>5, <2>2
    <3>. QED BY <1>5, <3>1, <3>2
  <2>. QED BY <2>1, <2>2
<1>. HIDE DEF transactions, ends
<1>6. PICK b \in BOOLEAN : b = Counted(transactions, ends)
  <2>1. Counted(transactions, ends) \in BOOLEAN
    BY DEF Counted
  <2>. QED BY <2>1, Zenon
<1>7. job' = [job EXCEPT ![t].running = b] /\ (~b => transactions = ends)
  <2>1. job' = [job EXCEPT ![t].running = b]
    BY <1>2, <1>6, Zenon
  <2>2. ~b => transactions = ends
    BY <1>6, Zenon DEF Counted
  <2>. QED BY <2>1, <2>2
<1>8. /\ OnlyThread(t) /\ pc'[t] = "messages" /\ SameRequest(t)
      /\ job'[t].current = job[t].current /\ job'[t].limit = job[t].limit
      /\ job'[t].curlCalled = job[t].curlCalled /\ job'[t].skips = job[t].skips
      /\ job'[t].running = b
  BY <1>3, <1>7 DEF TypeOK, OnlyThread, SameRequest, JobType
<1>9. ~job'[t].running => \A r \in Mine(t) \cap Rpc : rpc'[r].state # "outstanding"
  BY <1>5, <1>7, <1>8
<1>. QED BY <1>4, <1>8, <1>9

LEMMA ProcessMessageDoes ==
  ASSUME TypeOK, NEW t \in Thread, Mine(t) \subseteq Rpc, ProcessMessage(t)
  PROVE  \E r \in Mine(t) :
            /\ rpc[r].state = "done" /\ OnlyRpc(r)
            /\ rpc'[r] = [rpc[r] EXCEPT !.state = "completing", !.mem = FinishRemoves(r, @)]
            /\ \/ /\ r \in Asynch /\ OnlyThread(t) /\ pc'[t] = "callback"
                  /\ job'[t] = [job[t] EXCEPT !.current = r]
               \/ r \notin Asynch /\ UNCHANGED <<pc, job>>
<1>1. PICK r \in Done(t) :
          /\ rpc' = [rpc EXCEPT ![r].state = "completing", ![r].mem = FinishRemoves(r, @)]
          /\ IF r \in Asynch
             THEN Goto(t, "callback") /\ job' = [job EXCEPT ![t].current = r]
             ELSE UNCHANGED <<pc, job>>
  BY DEF ProcessMessage
<1>2. r \in Rpc /\ r \in Mine(t) /\ rpc[r].state = "done" /\ rpc[r] \in RpcType
  BY <1>1 DEF Done, TypeOK
<1>3. rpc'[r] = [rpc[r] EXCEPT !.state = "completing", !.mem = FinishRemoves(r, @)]
  BY <1>1, <1>2 DEF TypeOK, RpcType
<1>4. OnlyRpc(r)
  BY <1>1, <1>2 DEF TypeOK, OnlyRpc, ProcessMessage
<1>5. r \in Asynch => OnlyThread(t) /\ pc'[t] = "callback" /\ job'[t] = [job[t] EXCEPT !.current = r]
  BY <1>1 DEF TypeOK, OnlyThread, Goto
<1>. QED BY <1>1, <1>2, <1>3, <1>4, <1>5

\* What an RPC that is over looks like.
LEMMA OverDoes ==
  ASSUME TypeOK, NEW r \in Rpc, NEW mem \in SUBSET (Resource \cup CallInfo), Over(r, mem)
  PROVE  /\ OnlyRpc(r) /\ rpc'[r].state = "complete" /\ answer'[r] = "none"
         /\ rpc'[r].mem = mem \ (Resource \ {"handle"})
  BY DEF TypeOK, OnlyRpc, Over, NewRpc

LEMMA EndOfMessagesDoes ==
  ASSUME TypeOK, NEW t \in Thread, EndOfMessages(t)
  PROVE  /\ OnlyThread(t) /\ SameRequest(t)
         /\ job'[t].current = job[t].current /\ job'[t].limit = job[t].limit
         /\ job'[t].curlCalled = job[t].curlCalled /\ job'[t].skips = job[t].skips
         /\ job'[t].running <=> job[t].running /\ job[t].limit # "passed"
         /\ job'[t].running => pc'[t] = Wait(job[t])
         /\ ~job'[t].running => pc'[t] = "return"
<1>1. (job[t].running /\ job[t].limit # "passed") \in BOOLEAN
  OBVIOUS
<1>2. PICK b \in BOOLEAN : /\ b = (job[t].running /\ job[t].limit # "passed")
                           /\ job' = [job EXCEPT ![t].running = b]
                           /\ pc' = [pc EXCEPT ![t] = IF b THEN Wait(job[t]) ELSE "return"]
  BY <1>1, Zenon DEF EndOfMessages, EndIteration, Goto
<1>3. b <=> job[t].running /\ job[t].limit # "passed"
  BY <1>2, Zenon
<1>4. /\ job' = [job EXCEPT ![t].running = b]
      /\ pc' = [pc EXCEPT ![t] = IF b THEN Wait(job[t]) ELSE "return"]
  BY <1>2, Zenon
<1>. QED BY <1>3, <1>4 DEF TypeOK, JobType, OnlyThread, SameRequest

LEMMA HandleSignalDoes ==
  ASSUME TypeOK, NEW t \in Thread, HandleSignal(t)
  PROVE  \A r \in Rpc :
            /\ rpc'[r].state = rpc[r].state /\ rpc'[r].mem = rpc[r].mem
            /\ rpc'[r].result = rpc[r].result /\ rpc'[r].canAbort = rpc[r].canAbort
            /\ rpc'[r].byCallback = rpc[r].byCallback
            /\ rpc'[r].flagged <=> rpc[r].flagged \/ rpc[r].state = "outstanding"
<1>. SUFFICES ASSUME NEW r \in Rpc
              PROVE  /\ rpc'[r].state = rpc[r].state /\ rpc'[r].mem = rpc[r].mem
                     /\ rpc'[r].result = rpc[r].result /\ rpc'[r].canAbort = rpc[r].canAbort
                     /\ rpc'[r].byCallback = rpc[r].byCallback
                     /\ rpc'[r].flagged <=> rpc[r].flagged \/ rpc[r].state = "outstanding"
  OBVIOUS
<1>1. (rpc[r].flagged \/ rpc[r].state = "outstanding") \in BOOLEAN
  OBVIOUS
<1>2. PICK b \in BOOLEAN : b = (rpc[r].flagged \/ rpc[r].state = "outstanding")
  BY <1>1, Zenon
<1>3. rpc'[r] = [rpc[r] EXCEPT !.flagged = b]
  BY <1>2, Zenon DEF HandleSignal
<1>4. b <=> rpc[r].flagged \/ rpc[r].state = "outstanding"
  BY <1>2, Zenon
<1>5. rpc[r] \in RpcType
  BY DEF TypeOK
<1>. QED BY <1>3, <1>4, <1>5 DEF RpcType

-----------------------------------------------------------------------------
(* One lemma per part of the invariant, one step per action. *)

\* Every variable keeps its type.
\* Changes of single fields keep the types of the records.
LEMMA FieldUpdates ==
  /\ \A j \in JobType, r \in Asynch : [j EXCEPT !.current = r] \in JobType
  /\ \A j \in JobType : [j EXCEPT !.limit = "passed"] \in JobType
  /\ \A p \in RpcType, o \in Outcome : [p EXCEPT !.state = "done", !.result = o] \in RpcType
<1>1. ASSUME NEW j \in JobType, NEW r \in Asynch PROVE [j EXCEPT !.current = r] \in JobType
  BY DEF JobType
<1>2. ASSUME NEW j \in JobType PROVE [j EXCEPT !.limit = "passed"] \in JobType
  BY DEF JobType
<1>3. ASSUME NEW p \in RpcType, NEW o \in Outcome
      PROVE  [p EXCEPT !.state = "done", !.result = o] \in RpcType
  BY DEF RpcType, States
<1>. QED BY <1>1, <1>2, <1>3

LEMMA TypePreserved == ASSUME IInv, [Next]_vars PROVE TypeOK'
<1>. USE RecordTypes DEF IInv, TypeOK, vars, Goto, InterruptUnchanged, SyncUnchanged
<1>1. ASSUME NEW t \in Thread, SendRequest(t) PROVE TypeOK'
  <2>1. rpc' \in [Rpc -> RpcType]
    <3>1. PICK r \in Asynch :
            \/ rpc' = [rpc EXCEPT ![r] = Started(t, ClientHas(r) \cup Resource)]
            \/ \E m \in SUBSET (Resource \cup CallInfo) :
                  rpc' = [rpc EXCEPT ![r].state = "refused", ![r].mem = m]
      BY <1>1 DEF SendRequest, StartRefused, CallInfoDestroyed, ClientHas, Got, Resource, CallInfo
    <3>2. rpc[r] \in RpcType /\ ClientHas(r) \cup Resource \subseteq Resource \cup CallInfo
      BY DEF Rpc
    <3>3. CASE rpc' = [rpc EXCEPT ![r] = Started(t, ClientHas(r) \cup Resource)]
      BY <3>2, <3>3
    <3>4. ASSUME NEW m \in SUBSET (Resource \cup CallInfo),
                 rpc' = [rpc EXCEPT ![r].state = "refused", ![r].mem = m]
          PROVE  rpc' \in [Rpc -> RpcType]
      BY <3>2, <3>4 DEF RpcType, States
    <3>. QED BY <3>1, <3>3, <3>4
  <2>. QED BY <1>1, <2>1 DEF SendRequest
<1>2. ASSUME NEW t \in Thread, FinishAsynch(t) PROVE TypeOK'
  <2>1. PICK limit \in {"none", "ahead"}, entry \in SUBSET Asynch :
          job' = [job EXCEPT ![t] = [NoJob EXCEPT !.limit = limit, !.interruptible = interruptP,
                                                  !.entry = entry]]
    BY <1>2, Zenon DEF FinishAsynch
  <2>2. [NoJob EXCEPT !.limit = limit, !.interruptible = interruptP, !.entry = entry] \in JobType
    BY DEF JobType
  <2>3. job' \in [Thread -> JobType]
    BY <2>1, <2>2
  <2>. QED BY <1>2, <2>3 DEF FinishAsynch, Wait, Places
<1>3. ASSUME NEW t \in Thread, Call(t) PROVE TypeOK'
  <2>1. job' \in [Thread -> JobType]
    <3>1. \A r \in Synch : [NoJob EXCEPT !.call = r] \in JobType
      BY DEF JobType
    <3>. QED BY <1>3, <3>1 DEF Call
  <2>2. rpc' \in [Rpc -> RpcType]
    <3>1. PICK r \in Synch, m \in SUBSET (Resource \cup CallInfo) :
             \/ rpc' = [rpc EXCEPT ![r].mem = m]
             \/ rpc' = [rpc EXCEPT ![r].state = "refused", ![r].mem = m]
      BY <1>3 DEF Call, Call2Frees, ClientHas, CallInfo
    <3>. QED BY <3>1 DEF RpcType, States, Rpc
  <2>. QED BY <1>3, <2>1, <2>2 DEF Call, Places
<1>4. ASSUME NEW t \in Thread, StartCall(t) PROVE TypeOK'
  <2>1. job[t].call \in Synch /\ job[t].call \in Rpc
    BY <1>4, RpcAssumption DEF StartCall, Stage, Calling, JobType, Rpc
  <2>2. rpc[job[t].call] \in RpcType
    BY <2>1
  <2>3. rpc' \in [Rpc -> RpcType]
    <3>1. CASE rpc' = [rpc EXCEPT ![job[t].call] = Started(t, @.mem \cup Resource)]
      <4>1. Started(t, rpc[job[t].call].mem \cup Resource) \in RpcType
        BY <2>2 DEF RpcType
      <4>. QED BY <2>1, <3>1, <4>1
    <3>2. ASSUME NEW m \in SUBSET (Resource \cup CallInfo),
                 rpc' = [rpc EXCEPT ![job[t].call].state = "refused", ![job[t].call].mem = m]
          PROVE  rpc' \in [Rpc -> RpcType]
      BY <2>1, <2>2, <3>2 DEF RpcType, States
    <3>3. ASSUME NEW missing \in {"rpc", "transaction", "handle"}
          PROVE  Call2Frees(job[t].call,
                     ((rpc[job[t].call].mem \cup Got(missing)) \ CreateRpcFrees(missing))
                        \ CallFrees(missing)) \in SUBSET (Resource \cup CallInfo)
      BY <2>2 DEF Call2Frees, Got, RpcType, Resource
    <3>4. \/ rpc' = [rpc EXCEPT ![job[t].call] = Started(t, @.mem \cup Resource)]
          \/ \E m \in SUBSET (Resource \cup CallInfo) :
                rpc' = [rpc EXCEPT ![job[t].call].state = "refused", ![job[t].call].mem = m]
      BY <1>4, <2>1, <3>3 DEF StartCall
    <3>. QED BY <3>1, <3>2, <3>4
  <2>4. job' \in [Thread -> JobType]
    <3>1. [job[t] EXCEPT !.interruptible = interruptP] \in JobType
      BY DEF JobType
    <3>2. \/ job' = [job EXCEPT ![t] = [job[t] EXCEPT !.interruptible = interruptP]]
          \/ job' = [job EXCEPT ![t] = NoJob]
      BY <1>4 DEF StartCall
    <3>. QED BY <3>1, <3>2
  <2>. QED BY <1>4, <2>1, <2>3, <2>4 DEF StartCall, Places, Wait
<1>5. ASSUME NEW t \in Thread, TestFlag(t) PROVE TypeOK'
  <2>1. job' \in [Thread -> JobType]
    <3>1. CASE interrupt
      BY <1>5, <3>1 DEF TestFlag, JobType
    <3>2. CASE ~interrupt
      BY <1>5, <3>2 DEF TestFlag, JobType
    <3>. QED BY <3>1, <3>2
  <2>. QED BY <1>5, <2>1 DEF TestFlag, Places
<1>6. ASSUME NEW t \in Thread, Pselect(t) PROVE TypeOK'
  BY <1>6 DEF Pselect, Places
<1>7. ASSUME NEW t \in Thread, Wake(t) PROVE TypeOK'
  BY <1>7 DEF Wake, Places
<1>8. ASSUME NEW t \in Thread, NoteInterrupt(t) PROVE TypeOK'
  <2>1. (job[t].curlCalled \/ (job[t].interruptible /\ interrupt)) \in BOOLEAN
    OBVIOUS
  <2>2. PICK b \in BOOLEAN : job' = [job EXCEPT ![t].curlCalled = b]
    BY <1>8, <2>1, Zenon DEF NoteInterrupt
  <2>3. job' \in [Thread -> JobType]
    BY <2>2 DEF JobType
  <2>. QED BY <1>8, <2>3 DEF NoteInterrupt, Places
<1>9. ASSUME NEW t \in Thread, Perform(t) PROVE TypeOK'
  <2>1. PICK b \in BOOLEAN : job' = [job EXCEPT ![t].running = b]
    <3>1. ASSUME NEW x, NEW y PROVE Counted(x, y) \in BOOLEAN
      BY DEF Counted
    <3>. QED BY <1>9, <3>1, Zenon DEF Perform
  <2>2. job' \in [Thread -> JobType]
    BY <2>1 DEF JobType
  <2>3. PICK ends \in SUBSET Rpc : \E result \in [ends -> Outcome] :
          rpc' = [r \in Rpc |-> IF r \in ends
                                THEN [rpc[r] EXCEPT !.state = "done", !.result = result[r]]
                                ELSE rpc[r]]
    <3>1. PICK ends : \E result \in [ends -> Outcome] :
            rpc' = [r \in Rpc |-> IF r \in ends
                                  THEN [rpc[r] EXCEPT !.state = "done", !.result = result[r]]
                                  ELSE rpc[r]]
      BY ONLY <1>9, Zenon DEF Perform
    <3>2. PICK result \in [ends -> Outcome] :
            rpc' = [r \in Rpc |-> IF r \in ends
                                  THEN [rpc[r] EXCEPT !.state = "done", !.result = result[r]]
                                  ELSE rpc[r]]
      BY <3>1
    <3>. DEFINE some == ends \cap Rpc
                kept == [r \in some |-> result[r]]
    <3>3. kept \in [some -> Outcome] /\ some \in SUBSET Rpc
      OBVIOUS
    <3>4. \A r \in Rpc : r \in ends <=> r \in some
      OBVIOUS
    <3>5. \A r \in some : kept[r] = result[r]
      OBVIOUS
    <3>6. rpc' = [r \in Rpc |-> IF r \in some
                                THEN [rpc[r] EXCEPT !.state = "done", !.result = kept[r]]
                                ELSE rpc[r]]
      BY <3>2, <3>4, <3>5
    <3>. QED BY <3>3, <3>6
  <2>4. rpc' \in [Rpc -> RpcType]
    <3>. DEFINE done(r, o) == [rpc[r] EXCEPT !.state = "done", !.result = o]
    <3>1. \A r \in Rpc, o \in Outcome : done(r, o) \in RpcType
      <4>1. \A r \in Rpc : rpc[r] \in RpcType
        OBVIOUS
      <4>. QED BY ONLY <4>1, FieldUpdates
    <3>2. PICK result \in [ends -> Outcome] :
            rpc' = [r \in Rpc |-> IF r \in ends THEN done(r, result[r]) ELSE rpc[r]]
      BY <2>3
    <3>. HIDE DEF done
    <3>. QED BY <3>1, <3>2
  <2>. QED BY <1>9, <2>2, <2>4 DEF Perform, Places
<1>10. ASSUME NEW t \in Thread, ProcessMessage(t) PROVE TypeOK'
  <2>1. rpc' \in [Rpc -> RpcType]
    <3>1. PICK r \in Rpc :
            rpc' = [rpc EXCEPT ![r].state = "completing", ![r].mem = FinishRemoves(r, @)]
      BY <1>10, OwnRpcs DEF ProcessMessage, Done
    <3>2. rpc[r] \in RpcType /\ FinishRemoves(r, rpc[r].mem) \subseteq Resource \cup CallInfo
      BY DEF RpcType, FinishRemoves, HandleRemoved
    <3>. QED BY <3>1, <3>2 DEF RpcType, States
  <2>2. job' \in [Thread -> JobType]
    <3>1. job' = job \/ \E r \in Asynch : job' = [job EXCEPT ![t].current = r]
      BY <1>10, Zenon DEF ProcessMessage
    <3>2. job \in [Thread -> JobType]
      OBVIOUS
    <3>3. CASE job' = job
      BY ONLY <3>2, <3>3
    <3>4. ASSUME NEW r \in Asynch, job' = [job EXCEPT ![t].current = r]
          PROVE  job' \in [Thread -> JobType]
      <4>. DEFINE new == [job[t] EXCEPT !.current = r]
      <4>1. job' = [job EXCEPT ![t] = new]
        BY ONLY <3>4
      <4>2. new \in JobType
        BY ONLY <3>2, FieldUpdates, t \in Thread, r \in Asynch
      <4>. HIDE DEF new
      <4>. QED BY ONLY <3>2, <4>1, <4>2
    <3>. QED BY ONLY <3>1, <3>3, <3>4
  <2>. QED BY <1>10, <2>1, <2>2 DEF ProcessMessage, Places
<1>11. ASSUME NEW t \in Thread, CompletionReturns(t) PROVE TypeOK'
  <2>1. job' \in [Thread -> JobType]
    BY <1>11 DEF CompletionReturns, JobType
  <2>2. job[t].current \in Asynch
    BY <1>11 DEF CompletionReturns, Stage, JobType
  <2>3. rpc' \in [Rpc -> RpcType] /\ answer' \in [Rpc -> {"none", "answered"}]
    BY <1>11, <2>2 DEF CompletionReturns, Over, RpcType, States, Rpc, AsynchCompleted, CallInfoDestroyed
  <2>. QED BY <1>11, <2>1, <2>3 DEF CompletionReturns, Places
<1>12. ASSUME NEW t \in Thread, EndOfMessages(t) PROVE TypeOK'
  <2>1. (job[t].running /\ job[t].limit # "passed") \in BOOLEAN
    OBVIOUS
  <2>2. PICK b \in BOOLEAN : job' = [job EXCEPT ![t].running = b]
    BY <1>12, <2>1, Zenon DEF EndOfMessages, EndIteration
  <2>3. job' \in [Thread -> JobType]
    BY <2>2 DEF JobType
  <2>4. pc' \in [Thread -> Places]
    BY <1>12 DEF EndOfMessages, EndIteration, Wait, Places
  <2>. QED BY <1>12, <2>3, <2>4 DEF EndOfMessages, EndIteration
<1>13. ASSUME NEW t \in Thread, FinishAsynchReturns(t) PROVE TypeOK'
  BY <1>13 DEF FinishAsynchReturns, Places
<1>14. ASSUME NEW t \in Thread, CallReturns(t) PROVE TypeOK'
  <2>1. job[t].call \in Synch /\ job[t].call \in Rpc
    BY <1>14, RpcAssumption DEF CallReturns, JobType, Rpc
  <2>2. rpc' \in [Rpc -> RpcType] /\ answer' \in [Rpc -> {"none", "answered"}]
    BY <1>14, <2>1 DEF CallReturns, Over, RpcType, States, Call2Frees, HandleRemoved
  <2>. QED BY <1>14, <2>2 DEF CallReturns, Places
<1>15. ASSUME NEW t \in Thread, HandleSignal(t) PROVE TypeOK'
  <2>1. \A r \in Rpc : (rpc[r].flagged \/ rpc[r].state = "outstanding") \in BOOLEAN
    OBVIOUS
  <2>2. \A r \in Rpc : \E b \in BOOLEAN : rpc'[r] = [rpc[r] EXCEPT !.flagged = b]
    BY <1>15, <2>1 DEF HandleSignal
  <2>3. rpc' \in [Rpc -> RpcType]
    <3>. DEFINE flagged(r, b) == [rpc[r] EXCEPT !.flagged = b]
    <3>1. rpc' = [r \in Rpc |-> rpc'[r]]
      BY <1>15 DEF HandleSignal
    <3>2. \A r \in Rpc, b \in BOOLEAN : flagged(r, b) \in RpcType
      BY DEF RpcType
    <3>3. \A r \in Rpc : rpc'[r] \in RpcType
      <4>1. \A r \in Rpc : \E b \in BOOLEAN : rpc'[r] = flagged(r, b)
        BY <2>2
      <4>. HIDE DEF flagged
      <4>. QED BY <3>2, <4>1
    <3>. QED BY <3>1, <3>3
  <2>. QED BY <1>15, <2>3 DEF HandleSignal, Places, Asleep
<1>16. ASSUME NEW t \in Thread, DeadlinePasses(t) PROVE TypeOK'
  <2>1. job' \in [Thread -> JobType]
    <3>1. job' = [job EXCEPT ![t].limit = "passed"] /\ job \in [Thread -> JobType]
      BY <1>16 DEF DeadlinePasses
    <3>. QED BY ONLY <3>1, FieldUpdates
  <2>. QED BY <1>16, <2>1 DEF DeadlinePasses
<1>17. CASE SetInterruptP
  BY <1>17 DEF SetInterruptP
<1>18. CASE ClearInterrupt
  BY <1>18 DEF ClearInterrupt
<1>19. CASE Signal
  BY <1>19, BoundAssumption DEF Signal
<1>20. CASE StopCalling
  BY <1>20 DEF StopCalling
<1>21. CASE Destroy
  BY <1>21 DEF Destroy
<1>22. ASSUME NEW r \in Rpc, NetworkAnswers(r) PROVE TypeOK'
  BY <1>22 DEF NetworkAnswers
<1>23. CASE UNCHANGED vars
  BY <1>23
<1>. QED
  BY <1>1, <1>2, <1>3, <1>4, <1>5, <1>6, <1>7, <1>8, <1>9, <1>10, <1>11, <1>12, <1>13,
     <1>14, <1>15, <1>16, <1>17, <1>18, <1>19, <1>20, <1>21, <1>22, <1>23
     DEF Next, TransportStep

\* Every thread is at a place that fits what it is doing.
LEMMA StagePreserved == ASSUME IInv, [Next]_vars, TypeOK' PROVE (\A u \in Thread : Stage(u))'
<1>. USE DEF IInv, TypeOK, Stage, Calling, vars, Goto, InterruptUnchanged, SyncUnchanged, JobType,
            NoJob, Wait
<1>1. ASSUME NEW t \in Thread, SendRequest(t) PROVE (\A u \in Thread : Stage(u))'
  BY <1>1 DEF SendRequest
<1>2. ASSUME NEW t \in Thread, FinishAsynch(t) PROVE (\A u \in Thread : Stage(u))'
  BY <1>2, FinishAsynchDoes DEF OnlyThread
<1>3. ASSUME NEW t \in Thread, Call(t) PROVE (\A u \in Thread : Stage(u))'
  <2>1. ASSUME NEW r \in Synch, OnlyThread(t), pc'[t] = "lock", job'[t].call = r,
               job'[t].current = NoRpc, job'[t].limit = "none", job'[t].running,
               job'[t].entry = {}, job'[t].skips = 0
        PROVE  \A u \in Thread : Stage(u)'
    <3>1. ASSUME NEW u \in Thread \ {t} PROVE Stage(u)'
      BY <2>1, <3>1 DEF OnlyThread
    <3>2. r # NoRpc
      BY <2>1, RpcAssumption
    <3>3. Stage(t)'
      BY <2>1, <3>2
    <3>. QED BY <3>1, <3>3
  <2>2. CASE UNCHANGED <<pc, job>>
    BY <2>2
  <2>3. \/ UNCHANGED <<pc, job>>
        \/ \E r \in Synch : /\ OnlyThread(t) /\ pc'[t] = "lock" /\ job'[t].call = r
                            /\ job'[t].current = NoRpc /\ job'[t].limit = "none" /\ job'[t].running
                            /\ job'[t].entry = {} /\ job'[t].skips = 0
    BY <1>3, CallLocks, Zenon
  <2>. QED BY <2>1, <2>2, <2>3, Zenon
<1>4. ASSUME NEW t \in Thread, StartCall(t) PROVE (\A u \in Thread : Stage(u))'
  <2>1. /\ OnlyThread(t)
        /\ \/ /\ pc'[t] \in {"test", "asleep"}
              /\ pc'[t] = "test" => job'[t].interruptible /\ ~job'[t].curlCalled
              /\ job'[t] = [job[t] EXCEPT !.interruptible = interruptP]
           \/ pc'[t] = "idle" /\ job'[t] = NoJob
    BY <1>4, LockedCall, StartCallDoes, Zenon
  <2>2. pc[t] = "lock"
    BY <1>4 DEF StartCall
  <2>3. ASSUME NEW u \in Thread \ {t} PROVE Stage(u)'
    <3>1. pc'[u] = pc[u] /\ job'[u] = job[u]
      BY <2>1 DEF OnlyThread
    <3>. QED BY <3>1
  <2>4. CASE pc'[t] = "idle" /\ job'[t] = NoJob
    <3>1. Stage(t)'
      BY <2>4
    <3>. QED BY <2>3, <3>1
  <2>5. CASE /\ pc'[t] \in {"test", "asleep"}
             /\ pc'[t] = "test" => job'[t].interruptible /\ ~job'[t].curlCalled
             /\ job'[t] = [job[t] EXCEPT !.interruptible = interruptP]
    <3>1. job[t] \in JobType
      OBVIOUS
    <3>2. /\ job'[t].call = job[t].call /\ job'[t].current = job[t].current
          /\ job'[t].limit = job[t].limit /\ job'[t].entry = job[t].entry
          /\ job'[t].running = job[t].running
      BY ONLY <2>5, <3>1 DEF JobType
    <3>3. Stage(t)'
      BY <2>2, <2>5, <3>2
    <3>. QED BY <2>3, <3>3
  <2>. QED BY ONLY <2>1, <2>4, <2>5
<1>5. ASSUME NEW t \in Thread, TestFlag(t) PROVE (\A u \in Thread : Stage(u))'
  BY <1>5 DEF TestFlag
<1>6. ASSUME NEW t \in Thread, Pselect(t) PROVE (\A u \in Thread : Stage(u))'
  BY <1>6 DEF Pselect
<1>7. ASSUME NEW t \in Thread, Wake(t) PROVE (\A u \in Thread : Stage(u))'
  BY <1>7 DEF Wake, Asleep
<1>8. ASSUME NEW t \in Thread, NoteInterrupt(t) PROVE (\A u \in Thread : Stage(u))'
  BY <1>8 DEF NoteInterrupt
<1>9. ASSUME NEW t \in Thread, Perform(t) PROVE (\A u \in Thread : Stage(u))'
  <2>1. /\ OnlyThread(t) /\ pc'[t] = "messages" /\ SameRequest(t)
        /\ job'[t].current = job[t].current /\ job'[t].limit = job[t].limit
    BY <1>9, PerformDoes
  <2>2. pc[t] = "perform"
    BY <1>9 DEF Perform
  <2>3. ASSUME NEW u \in Thread \ {t} PROVE Stage(u)'
    BY <2>1, <2>3 DEF OnlyThread
  <2>4. Stage(t)'
    BY <2>1, <2>2 DEF SameRequest
  <2>. QED BY <2>3, <2>4
<1>10. ASSUME NEW t \in Thread, ProcessMessage(t) PROVE (\A u \in Thread : Stage(u))'
  <2>1. pc[t] = "messages" /\ Mine(t) \subseteq Rpc
    BY <1>10, OwnRpcs DEF ProcessMessage
  <2>2. ASSUME NEW u \in Thread \ {t} PROVE Stage(u)'
    <3>1. pc'[u] = pc[u] /\ job'[u] = job[u]
      BY <1>10, <2>1, ProcessMessageDoes DEF OnlyThread
    <3>. QED BY <3>1
  <2>3. CASE UNCHANGED <<pc, job>>
    BY <2>3
  <2>4. ASSUME NEW r \in Mine(t), r \in Asynch, pc'[t] = "callback",
               job'[t] = [job[t] EXCEPT !.current = r]
        PROVE  Stage(t)'
    <3>1. ~Calling(t)
      BY <2>1, <2>4, OwnRpcs, RpcAssumption
    <3>2. r # NoRpc
      BY <2>4, RpcAssumption
    <3>. QED BY <2>1, <2>4, <3>1, <3>2
  <2>5. \/ UNCHANGED <<pc, job>>
        \/ \E r \in Mine(t) : r \in Asynch /\ pc'[t] = "callback"
                               /\ job'[t] = [job[t] EXCEPT !.current = r]
    BY <1>10, <2>1, ProcessMessageDoes, Zenon
  <2>6. CASE \E r \in Mine(t) : r \in Asynch /\ pc'[t] = "callback"
                                 /\ job'[t] = [job[t] EXCEPT !.current = r]
    <3>1. Stage(t)'
      BY ONLY <2>4, <2>6
    <3>. QED BY ONLY <2>2, <3>1
  <2>. QED BY ONLY <2>3, <2>5, <2>6
<1>11. ASSUME NEW t \in Thread, CompletionReturns(t) PROVE (\A u \in Thread : Stage(u))'
  BY <1>11 DEF CompletionReturns, Over
<1>12. ASSUME NEW t \in Thread, EndOfMessages(t) PROVE (\A u \in Thread : Stage(u))'
  BY <1>12 DEF EndOfMessages, EndIteration
<1>13. ASSUME NEW t \in Thread, FinishAsynchReturns(t) PROVE (\A u \in Thread : Stage(u))'
  BY <1>13 DEF FinishAsynchReturns
<1>14. ASSUME NEW t \in Thread, CallReturns(t) PROVE (\A u \in Thread : Stage(u))'
  BY <1>14 DEF CallReturns, Over
<1>15. ASSUME NEW t \in Thread, HandleSignal(t) PROVE (\A u \in Thread : Stage(u))'
  BY <1>15 DEF HandleSignal, Asleep
<1>16. ASSUME NEW t \in Thread, DeadlinePasses(t) PROVE (\A u \in Thread : Stage(u))'
  <2>1. job[t].limit = "ahead" /\ pc' = pc /\ job' = [job EXCEPT ![t].limit = "passed"]
    BY <1>16 DEF DeadlinePasses
  <2>2. pc[t] # "idle" /\ job[t].entry = {}
    BY <2>1
  <2>3. ASSUME NEW u \in Thread \ {t} PROVE Stage(u)'
    BY <2>1, <2>3
  <2>4. job'[t] = [job[t] EXCEPT !.limit = "passed"]
    BY <2>1
  <2>5. Stage(t)'
    BY <2>1, <2>2, <2>4
  <2>. QED BY <2>3, <2>5
<1>17. CASE SetInterruptP
  BY <1>17 DEF SetInterruptP
<1>18. CASE ClearInterrupt
  BY <1>18 DEF ClearInterrupt
<1>19. CASE Signal
  BY <1>19 DEF Signal
<1>20. CASE StopCalling
  BY <1>20 DEF StopCalling
<1>21. CASE Destroy
  BY <1>21 DEF Destroy
<1>22. ASSUME NEW r \in Rpc, NetworkAnswers(r) PROVE (\A u \in Thread : Stage(u))'
  BY <1>22 DEF NetworkAnswers
<1>23. CASE UNCHANGED vars
  BY <1>23
<1>. QED
  BY <1>1, <1>2, <1>3, <1>4, <1>5, <1>6, <1>7, <1>8, <1>9, <1>10, <1>11, <1>12,
     <1>13, <1>14, <1>15, <1>16, <1>17, <1>18, <1>19, <1>20, <1>21, <1>22, <1>23
     DEF Next, TransportStep

\* The synchronous session has one thread at a time.
KeepsSession ==
    /\ UNCHANGED <<syncLock, syncSession>>
    /\ \A t \in Thread : /\ job'[t].call = job[t].call /\ (pc'[t] = "lock" <=> pc[t] = "lock")
                         /\ Calling(t) => job'[t].limit = job[t].limit

LEMMA SessionKept == ASSUME IInv, TypeOK', KeepsSession PROVE SessionInv'
<1>1. \A t \in Thread : Calling(t)' <=> Calling(t)
  BY DEF KeepsSession, Calling
<1>2. syncLock # NoThread => syncLock \in Thread
  BY DEF IInv, TypeOK
<1>. QED BY <1>1, <1>2 DEF IInv, KeepsSession, SessionInv, Calling

LEMMA SessionPreserved == ASSUME IInv, [Next]_vars, TypeOK' PROVE SessionInv'
<1>. USE DEF IInv, TypeOK, Stage, vars, Goto, InterruptUnchanged, SyncUnchanged, JobType, NoJob,
            Wait
<1>1. ASSUME NEW t \in Thread, SendRequest(t) PROVE SessionInv'
  BY <1>1, SessionKept DEF KeepsSession, SendRequest
<1>2. ASSUME NEW t \in Thread, FinishAsynch(t) PROVE SessionInv'
  <2>1. OnlyThread(t) /\ pc'[t] # "lock" /\ job'[t].call = NoRpc
    BY <1>2, FinishAsynchDoes, Zenon
  <2>2. pc[t] = "idle" /\ UNCHANGED <<syncLock, syncSession>>
    BY <1>2, Zenon DEF FinishAsynch
  <2>3. job[t].call = NoRpc /\ ~Calling(t)
    BY <2>2 DEF Calling
  <2>. QED BY <2>1, <2>2, <2>3, SessionKept DEF OnlyThread, KeepsSession
<1>3. ASSUME NEW t \in Thread, Call(t) PROVE SessionInv'
  <2>1. \/ UNCHANGED <<pc, job>>
        \/ \E r \in Synch : /\ OnlyThread(t) /\ pc'[t] = "lock" /\ job'[t].call = r
                            /\ job'[t].current = NoRpc /\ job'[t].limit = "none" /\ job'[t].running
                            /\ job'[t].entry = {} /\ job'[t].skips = 0
                            /\ New(r)
    BY <1>3, CallLocks, Zenon
  <2>2. pc[t] = "idle" /\ UNCHANGED <<syncLock, syncSession>> /\ ~Calling(t)
    BY <1>3 DEF Call, Calling
  <2>3. CASE UNCHANGED <<pc, job>>
    BY <2>2, <2>3, SessionKept DEF KeepsSession
  <2>4. ASSUME NEW r \in Synch, New(r), OnlyThread(t), pc'[t] = "lock", job'[t].call = r,
               job'[t].limit = "none"
        PROVE  SessionInv'
    <3>1. syncLock # t
      BY <2>2 DEF SessionInv
    <3>2. \A u \in Thread \ {t} : job[u].call # r
      BY <2>4 DEF New
    <3>3. r # NoRpc
      BY RpcAssumption
    <3>4. /\ job'[t].limit = "none" /\ syncLock' # t /\ pc'[t] = "lock"
          /\ \A u \in Thread \ {t} : pc'[u] = pc[u] /\ job'[u] = job[u]
      BY <2>2, <2>4, <3>1 DEF OnlyThread
    <3>5. (\A u \in Thread : /\ Calling(u) => job[u].limit = "none"
                             /\ Calling(u) /\ pc[u] # "lock" <=> syncLock = u)'
      BY <2>2, <3>4 DEF SessionInv, Calling
    <3>6. (syncLock # NoThread => syncSession = job[syncLock].call)'
      BY <2>2, <3>1, <3>4 DEF SessionInv
    <3>7. (\A u, v \in Thread : Calling(u) /\ job[u].call = job[v].call => u = v)'
      BY <2>4, <3>2, <3>4 DEF SessionInv, Calling
    <3>. QED BY <3>5, <3>6, <3>7 DEF SessionInv, Calling
  <2>. QED BY <2>1, <2>3, <2>4, Zenon
<1>4. ASSUME NEW t \in Thread, StartCall(t) PROVE SessionInv'
  <2>1. pc[t] = "lock" /\ syncLock = NoThread /\ Calling(t)
    BY <1>4 DEF StartCall, LockFree
  <2>2. CASE /\ syncLock' = t /\ syncSession' = job[t].call /\ pc'[t] \in {"test", "asleep"}
             /\ job'[t] = [job[t] EXCEPT !.interruptible = interruptP] /\ OnlyThread(t)
    <3>1. pc'[t] # "lock" /\ \A u \in Thread \ {t} : pc'[u] = pc[u] /\ job'[u] = job[u]
      BY <2>2 DEF OnlyThread
    <3>2. \A u \in Thread \ {t} : ~(Calling(u) /\ pc[u] # "lock")
      BY <2>1, ThreadAssumption DEF SessionInv
    <3>3. \A u \in Thread : job'[u].call = job[u].call /\ job'[u].limit = job[u].limit
      <4>1. job[t] \in JobType
        OBVIOUS
      <4>2. job'[t].call = job[t].call /\ job'[t].limit = job[t].limit
        BY ONLY <2>2, <4>1 DEF JobType
      <4>. QED BY <3>1, <4>2
    <3>4. (\A u \in Thread : /\ Calling(u) => job[u].limit = "none"
                             /\ Calling(u) /\ pc[u] # "lock" <=> syncLock = u)'
      BY <2>1, <2>2, <3>1, <3>2, <3>3, SMTT(30) DEF SessionInv, Calling
    <3>5. (syncLock # NoThread => syncSession = job[syncLock].call)'
      BY <2>2, <3>3
    <3>6. (\A u, v \in Thread : Calling(u) /\ job[u].call = job[v].call => u = v)'
      BY <3>3, SMTT(30) DEF SessionInv, Calling
    <3>. QED BY <3>4, <3>5, <3>6 DEF SessionInv, Calling
  <2>3. CASE SyncUnchanged /\ pc'[t] = "idle" /\ job'[t] = NoJob /\ OnlyThread(t)
    <3>1. /\ pc'[t] = "idle" /\ job'[t].call = NoRpc /\ job'[t].limit = "none"
          /\ \A u \in Thread \ {t} : pc'[u] = pc[u] /\ job'[u] = job[u]
      BY <2>3 DEF OnlyThread
    <3>2. (\A u \in Thread : /\ Calling(u) => job[u].limit = "none"
                             /\ Calling(u) /\ pc[u] # "lock" <=> syncLock = u)'
      BY <2>1, <2>3, <3>1, ThreadAssumption, SMTT(30) DEF SessionInv, Calling
    <3>3. (syncLock # NoThread => syncSession = job[syncLock].call)'
      BY <2>1, <2>3
    <3>4. (\A u, v \in Thread : Calling(u) /\ job[u].call = job[v].call => u = v)'
      BY <3>1, SMTT(30) DEF SessionInv, Calling
    <3>. QED BY <3>2, <3>3, <3>4 DEF SessionInv, Calling
  <2>. QED BY <1>4, <2>2, <2>3, LockedCall, StartCallDoes, Zenon
<1>5. ASSUME NEW t \in Thread, TestFlag(t) PROVE SessionInv'
  BY <1>5, SessionKept DEF KeepsSession, TestFlag
<1>6. ASSUME NEW t \in Thread, Pselect(t) PROVE SessionInv'
  BY <1>6, SessionKept DEF KeepsSession, Pselect
<1>7. ASSUME NEW t \in Thread, Wake(t) PROVE SessionInv'
  BY <1>7, SessionKept DEF KeepsSession, Wake, Asleep
<1>8. ASSUME NEW t \in Thread, NoteInterrupt(t) PROVE SessionInv'
  BY <1>8, SessionKept DEF KeepsSession, NoteInterrupt
<1>9. ASSUME NEW t \in Thread, Perform(t) PROVE SessionInv'
  <2>1. /\ OnlyThread(t) /\ pc'[t] = "messages" /\ SameRequest(t) /\ job'[t].limit = job[t].limit
    BY <1>9, PerformDoes, Zenon
  <2>2. pc[t] = "perform" /\ UNCHANGED <<syncLock, syncSession>>
    BY <1>9 DEF Perform
  <2>. QED BY <2>1, <2>2, SessionKept DEF OnlyThread, SameRequest, KeepsSession
<1>10. ASSUME NEW t \in Thread, ProcessMessage(t) PROVE SessionInv'
  <2>1. pc[t] = "messages" /\ Mine(t) \subseteq Rpc /\ UNCHANGED <<syncLock, syncSession>>
    BY <1>10, OwnRpcs DEF ProcessMessage
  <2>2. CASE UNCHANGED <<pc, job>>
    BY <2>1, <2>2, SessionKept DEF KeepsSession
  <2>3. ASSUME NEW r \in Asynch, pc' = [pc EXCEPT ![t] = "callback"],
               job' = [job EXCEPT ![t].current = r]
        PROVE  SessionInv'
    BY <2>1, <2>3, SessionKept DEF KeepsSession
  <2>. QED BY <1>10, <2>2, <2>3 DEF ProcessMessage
<1>11. ASSUME NEW t \in Thread, CompletionReturns(t) PROVE SessionInv'
  BY <1>11, SessionKept DEF KeepsSession, CompletionReturns, Over
<1>12. ASSUME NEW t \in Thread, EndOfMessages(t) PROVE SessionInv'
  <2>1. /\ OnlyThread(t) /\ SameRequest(t) /\ job'[t].limit = job[t].limit /\ pc'[t] # "lock"
    BY <1>12, EndOfMessagesDoes DEF Wait
  <2>2. pc[t] = "messages" /\ UNCHANGED <<syncLock, syncSession>>
    BY <1>12 DEF EndOfMessages, EndIteration
  <2>. QED BY <2>1, <2>2, SessionKept DEF OnlyThread, SameRequest, KeepsSession
<1>13. ASSUME NEW t \in Thread, FinishAsynchReturns(t) PROVE SessionInv'
  BY <1>13, SessionKept DEF KeepsSession, FinishAsynchReturns, Calling
<1>14. ASSUME NEW t \in Thread, CallReturns(t) PROVE SessionInv'
  <2>1. /\ pc'[t] = "idle" /\ job'[t].call = NoRpc /\ job'[t].limit = "none"
        /\ \A u \in Thread \ {t} : pc'[u] = pc[u] /\ job'[u] = job[u]
        /\ syncLock' = NoThread
    BY <1>14 DEF CallReturns
  <2>2. syncLock = t
    BY <1>14 DEF CallReturns, SessionInv, Calling
  <2>3. (\A u \in Thread : /\ Calling(u) => job[u].limit = "none"
                           /\ Calling(u) /\ pc[u] # "lock" <=> syncLock = u)'
    BY <2>1, <2>2, ThreadAssumption DEF SessionInv, Calling
  <2>4. (\A u, v \in Thread : Calling(u) /\ job[u].call = job[v].call => u = v)'
    BY <2>1 DEF SessionInv, Calling
  <2>5. (syncLock # NoThread => syncSession = job[syncLock].call)'
    BY <2>1
  <2>. QED BY <2>3, <2>4, <2>5 DEF SessionInv, Calling
<1>15. ASSUME NEW t \in Thread, HandleSignal(t) PROVE SessionInv'
  BY <1>15, SessionKept DEF KeepsSession, HandleSignal, Asleep
<1>16. ASSUME NEW t \in Thread, DeadlinePasses(t) PROVE SessionInv'
  <2>1. job[t].limit = "ahead" /\ ~Calling(t)
    BY <1>16 DEF DeadlinePasses, SessionInv
  <2>. QED BY <1>16, <2>1, SessionKept DEF DeadlinePasses, KeepsSession
<1>17. CASE SetInterruptP
  BY <1>17, SessionKept DEF KeepsSession, SetInterruptP
<1>18. CASE ClearInterrupt
  BY <1>18, SessionKept DEF KeepsSession, ClearInterrupt
<1>19. CASE Signal
  BY <1>19, SessionKept DEF KeepsSession, Signal
<1>20. CASE StopCalling
  BY <1>20, SessionKept DEF KeepsSession, StopCalling
<1>21. CASE Destroy
  BY <1>21, SessionKept DEF KeepsSession, Destroy
<1>22. ASSUME NEW r \in Rpc, NetworkAnswers(r) PROVE SessionInv'
  BY <1>22, SessionKept DEF KeepsSession, NetworkAnswers
<1>23. CASE UNCHANGED vars
  BY <1>23, SessionKept DEF KeepsSession
<1>. QED
  BY <1>1, <1>2, <1>3, <1>4, <1>5, <1>6, <1>7, <1>8, <1>9, <1>10, <1>11, <1>12,
     <1>13, <1>14, <1>15, <1>16, <1>17, <1>18, <1>19, <1>20, <1>21, <1>22, <1>23
     DEF Next, TransportStep

\* An RPC whose record and whose threads' responsibilities stay.
KeepsLife(r) ==
    /\ rpc'[r] = rpc[r] /\ (answer[r] = "answered" => answer'[r] = "answered")
    /\ interrupt' => interrupt
    /\ \A t \in Thread :
          /\ job'[t].call = r <=> job[t].call = r
          /\ job'[t].current = r <=> job[t].current = r
          /\ job[t].call = r =>
                /\ pc'[t] = "lock" <=> pc[t] = "lock"
                /\ pc'[t] = "messages" => job'[t].running \/ (pc[t] = "messages" /\ ~job[t].running)
                /\ pc'[t] = "return" => pc[t] = "return"

LEMMA LifeKept == ASSUME IInv, NEW r \in Rpc, KeepsLife(r) PROVE Life(r)'
  BY DEF IInv, LifeInv, Life, KeepsLife

\* The calls and the routines that a thread is in, by its place.
LEMMA WhoseRpc ==
  ASSUME IInv, NEW t \in Thread
  PROVE  /\ job[t].call \in Synch \cup {NoRpc} /\ job[t].current \in Asynch \cup {NoRpc}
         /\ pc[t] = "idle" => job[t].call = NoRpc /\ job[t].current = NoRpc
         /\ pc[t] # "callback" => job[t].current = NoRpc
         /\ pc[t] = "callback" => job[t].current \in Asynch /\ job[t].call = NoRpc
         /\ \A u \in Thread : job[t].call # NoRpc /\ job[u].call = job[t].call => u = t
         /\ \A u \in Thread : job[t].current # NoRpc /\ job[u].current = job[t].current => u = t
  BY DEF IInv, TypeOK, JobType, Stage, NoJob, SessionInv, RoutineInv, Calling

LEMMA LifePreserved == ASSUME IInv, [Next]_vars PROVE LifeInv'
<1>. USE DEF vars, Goto, InterruptUnchanged, SyncUnchanged
<1>a. TypeOK
  BY DEF IInv
<1>b. \A r \in Rpc : r # NoRpc /\ ~(r \in Asynch /\ r \in Synch)
  BY RpcAssumption DEF Rpc
<1>c. SUFFICES ASSUME NEW r \in Rpc PROVE Life(r)'
  BY DEF LifeInv
<1>d. Life(r) /\ rpc[r] \in RpcType
  BY DEF IInv, LifeInv, TypeOK
<1>1. ASSUME NEW t \in Thread, SendRequest(t) PROVE Life(r)'
  <2>1. UNCHANGED <<pc, job, interrupt, answer>>
    BY <1>1, Zenon DEF SendRequest
  <2>2. PICK x \in Asynch :
            /\ New(x) /\ OnlyRpc(x)
            /\ \/ rpc'[x].state = "outstanding" /\ rpc'[x].flagged = interrupt
               \/ rpc'[x].state = "refused"
    BY <1>1, <1>a, SendRequestDoes
  <2>3. CASE r # x
    BY <2>1, <2>2, <2>3, LifeKept DEF KeepsLife, OnlyRpc
  <2>4. CASE r = x
    <3>1. \A u \in Thread : job[u].call # r /\ job[u].current # r
      BY <1>b, <1>d, <2>2, <2>4, WhoseRpc DEF Life, New
    <3>. QED BY <1>b, <2>1, <2>2, <2>4, <3>1 DEF Life
  <2>. QED BY <2>3, <2>4
<1>2. ASSUME NEW t \in Thread, FinishAsynch(t) PROVE Life(r)'
  <2>1. /\ OnlyThread(t) /\ job'[t].call = NoRpc /\ job'[t].current = NoRpc
        /\ pc'[t] \in {"test", "asleep"}
    BY <1>2, <1>a, FinishAsynchDoes, Zenon
  <2>2. pc[t] = "idle" /\ UNCHANGED <<rpc, answer, interrupt>>
    BY <1>2, Zenon DEF FinishAsynch
  <2>. QED BY <1>b, <2>1, <2>2, WhoseRpc, LifeKept DEF KeepsLife, OnlyThread
<1>3. ASSUME NEW t \in Thread, Call(t) PROVE Life(r)'
  <2>1. pc[t] = "idle" /\ UNCHANGED <<interrupt, answer>>
    BY <1>3, Zenon DEF Call
  <2>2. PICK x \in Synch :
            /\ New(x) /\ OnlyRpc(x)
            /\ \/ /\ OnlyThread(t) /\ pc'[t] = "lock"
                  /\ job'[t].call = x /\ job'[t].current = NoRpc
                  /\ rpc'[x] = [rpc[x] EXCEPT !.mem = ClientHas(x)]
               \/ UNCHANGED <<pc, job>> /\ rpc'[x] = [rpc[x] EXCEPT !.state = "refused", !.mem = {}]
    BY <1>3, <1>a, CallDoes, Zenon
  <2>3. CASE r # x
    BY <1>b, <2>1, <2>2, <2>3, WhoseRpc, LifeKept DEF KeepsLife, OnlyThread, OnlyRpc
  <2>4. CASE r = x
    <3>1. \A u \in Thread : job[u].call # r /\ job[u].current # r
      BY <1>b, <2>2, <2>4, WhoseRpc DEF New
    <3>2. rpc[r].state = "idle"
      BY <2>2, <2>4 DEF New
    <3>3. CASE /\ OnlyThread(t) /\ pc'[t] = "lock"
               /\ job'[t].call = r /\ job'[t].current = NoRpc
               /\ rpc'[r] = [rpc[r] EXCEPT !.mem = ClientHas(r)]
      <4>1. rpc'[r].state = "idle" /\ rpc'[r].mem = ClientHas(r)
        BY <1>d, <3>2, <3>3 DEF RpcType
      <4>2. \A u \in Thread : job'[u].call = r => u = t
        BY <3>1, <3>3 DEF OnlyThread
      <4>. QED BY <1>b, <2>2, <2>4, <3>3, <4>1, <4>2 DEF Life, Active
    <3>4. CASE UNCHANGED <<pc, job>> /\ rpc'[r] = [rpc[r] EXCEPT !.state = "refused", !.mem = {}]
      <4>1. rpc'[r].state = "refused"
        BY <1>d, <3>4 DEF RpcType
      <4>. QED BY <1>b, <2>2, <2>4, <3>1, <3>4, <4>1 DEF Life, Active
    <3>. QED BY <2>2, <2>4, <3>3, <3>4
  <2>. QED BY <2>3, <2>4
<1>4. ASSUME NEW t \in Thread, StartCall(t) PROVE Life(r)'
  <2>1. pc[t] = "lock" /\ UNCHANGED <<interrupt, answer>>
    BY <1>4 DEF StartCall
  <2>2. job[t].call \in Synch /\ job[t].call \in Rpc /\ rpc[job[t].call] \in RpcType
    BY <2>1, <1>a, WhoseRpc DEF IInv, Stage, Calling, Rpc, TypeOK
  <2>3. CASE /\ rpc'[job[t].call] = Started(t, ClientHas(job[t].call) \cup Resource)
             /\ pc'[t] \in {"test", "asleep"} /\ OnlyThread(t) /\ OnlyRpc(job[t].call)
             /\ job'[t] = [job[t] EXCEPT !.interruptible = interruptP]
    <3>1. /\ pc'[t] \in {"test", "asleep"} /\ \A u \in Thread \ {t} : pc'[u] = pc[u]
          /\ \A u \in Thread : /\ job'[u].call = job[u].call /\ job'[u].current = job[u].current
                               /\ job'[u].running = job[u].running
      BY <1>a, <2>3 DEF TypeOK, OnlyThread, JobType
    <3>2. CASE r # job[t].call
      BY <2>1, <2>3, <3>1, <3>2, <1>a, LifeKept DEF KeepsLife, OnlyRpc
    <3>3. CASE r = job[t].call
      <4>1. rpc'[r].state = "outstanding" /\ rpc'[r].flagged = interrupt
        BY <2>3, <3>3 DEF Started
      <4>2. \A u \in Thread : job[u].call = r => u = t
        BY <1>b, <3>3, WhoseRpc
      <4>. QED BY <1>b, <2>1, <2>2, <2>3, <3>1, <3>3, <4>1, <4>2 DEF Life, Active
    <3>. QED BY <3>2, <3>3
  <2>4. CASE /\ rpc'[job[t].call] = [rpc[job[t].call] EXCEPT !.state = "refused", !.mem = {}]
             /\ pc'[t] = "idle" /\ job'[t] = NoJob /\ OnlyThread(t) /\ OnlyRpc(job[t].call)
    <3>1. /\ pc'[t] = "idle" /\ job'[t].call = NoRpc /\ job'[t].current = NoRpc
          /\ OnlyThread(t)
      BY <2>4 DEF NoJob
    <3>2. CASE r # job[t].call
      BY <1>b, <2>1, <2>4, <3>1, <3>2, WhoseRpc, LifeKept DEF KeepsLife, OnlyThread, OnlyRpc
    <3>3. CASE r = job[t].call
      <4>1. rpc'[r].state = "refused"
        BY <1>d, <2>4, <3>3 DEF RpcType
      <4>2. \A u \in Thread : job'[u].call # r
        BY <1>b, <3>1, <3>3, WhoseRpc DEF OnlyThread
      <4>. QED BY <1>b, <2>2, <3>3, <4>1, <4>2 DEF Life, Active
    <3>. QED BY <3>2, <3>3
  <2>. QED BY <1>4, <1>a, <2>3, <2>4, LockedCall, StartCallDoes, Zenon
<1>5. ASSUME NEW t \in Thread, TestFlag(t) PROVE Life(r)'
  BY <1>5, <1>a, LifeKept DEF KeepsLife, TestFlag, TypeOK, JobType
<1>6. ASSUME NEW t \in Thread, Pselect(t) PROVE Life(r)'
  BY <1>6, <1>a, LifeKept DEF KeepsLife, Pselect, TypeOK
<1>7. ASSUME NEW t \in Thread, Wake(t) PROVE Life(r)'
  BY <1>7, <1>a, LifeKept DEF KeepsLife, Wake, Asleep, TypeOK
<1>8. ASSUME NEW t \in Thread, NoteInterrupt(t) PROVE Life(r)'
  BY <1>8, <1>a, LifeKept DEF KeepsLife, NoteInterrupt, TypeOK, JobType
<1>9. ASSUME NEW t \in Thread, Perform(t) PROVE Life(r)'
  <2>1. /\ OnlyThread(t) /\ pc'[t] = "messages" /\ SameRequest(t)
        /\ job'[t].current = job[t].current
        /\ ~job'[t].running => \A x \in Mine(t) \cap Rpc : rpc'[x].state # "outstanding"
    BY <1>9, <1>a, PerformDoes, Zenon
  <2>2. pc[t] = "perform" /\ UNCHANGED <<interrupt, answer, interruptP>>
    BY <1>9, Zenon DEF Perform
  <2>3. job[t].call = r => Mine(t) = {r}
    BY <1>b, <2>2, OwnRpcs DEF Calling
  <2>4. /\ \A u \in Thread : /\ job'[u].call = job[u].call /\ job'[u].current = job[u].current
                             /\ pc'[u] = "lock" <=> pc[u] = "lock"
                             /\ pc'[u] = "return" <=> pc[u] = "return"
                             /\ u # t => pc'[u] = pc[u] /\ job'[u].running = job[u].running
    BY <2>1, <2>2 DEF OnlyThread, SameRequest
  <2>5. job[t].call = r /\ ~job'[t].running => rpc'[r].state # "outstanding"
    BY <2>1, <2>3
  <2>6. CASE rpc'[r] = rpc[r]
    BY <1>d, <2>1, <2>2, <2>4, <2>5, <2>6 DEF Life
  <2>7. CASE /\ rpc[r].state = "outstanding"
             /\ \E o \in MayEnd(r) : rpc'[r] = [rpc[r] EXCEPT !.state = "done", !.result = o]
    <3>1. PICK o \in MayEnd(r) : rpc'[r] = [rpc[r] EXCEPT !.state = "done", !.result = o]
      BY <2>7
    <3>2. /\ rpc'[r].state = "done" /\ rpc'[r].result = o /\ rpc'[r].flagged = rpc[r].flagged
          /\ rpc'[r].canAbort = rpc[r].canAbort
      BY <1>d, <3>1 DEF RpcType
    <3>3. \/ o = "aborted" /\ rpc[r].canAbort /\ interrupt
          \/ o = "answered" /\ answer[r] = "answered"
      BY <3>1 DEF MayEnd, AbortP
    <3>4. \/ rpc'[r].result = "aborted" /\ rpc'[r].flagged /\ rpc'[r].canAbort
          \/ rpc'[r].result = "answered" /\ answer'[r] = "answered"
      BY <1>d, <2>2, <2>7, <3>2, <3>3 DEF Life
    <3>5. ~ \E u \in Thread : job[u].current = r
      BY <1>b, <1>d, <2>7, WhoseRpc DEF Life
    <3>. QED BY <1>d, <2>2, <2>4, <2>7, <3>2, <3>4, <3>5 DEF Life, Active
  <2>. QED BY <1>9, <1>a, <2>6, <2>7, PerformDoes
<1>10. ASSUME NEW t \in Thread, ProcessMessage(t) PROVE Life(r)'
  <2>1. pc[t] = "messages" /\ UNCHANGED <<interrupt, answer>>
    BY <1>10, Zenon DEF ProcessMessage
  <2>2. Mine(t) \subseteq Rpc /\ job[t].current = NoRpc
    BY <2>1, OwnRpcs, WhoseRpc
  <2>3. PICK x \in Mine(t) :
            /\ rpc[x].state = "done" /\ OnlyRpc(x)
            /\ rpc'[x] = [rpc[x] EXCEPT !.state = "completing", !.mem = FinishRemoves(x, @)]
            /\ \/ /\ x \in Asynch /\ OnlyThread(t) /\ pc'[t] = "callback"
                  /\ job'[t] = [job[t] EXCEPT !.current = x]
               \/ x \notin Asynch /\ UNCHANGED <<pc, job>>
    BY <1>10, <1>a, <2>2, ProcessMessageDoes
  <2>4. /\ \A u \in Thread : /\ job'[u].call = job[u].call
                             /\ pc'[u] = "lock" <=> pc[u] = "lock"
                             /\ pc'[u] \in {"messages", "return"} =>
                                   pc'[u] = pc[u] /\ job'[u].running = job[u].running
                             /\ u # t => job'[u].current = job[u].current
        /\ x \in Asynch => job'[t].current = x
        /\ x \notin Asynch => job' = job
    BY <1>a, <2>1, <2>3 DEF TypeOK, JobType, OnlyThread
  <2>5. CASE r # x
    BY <1>b, <2>1, <2>2, <2>3, <2>4, <2>5, LifeKept DEF KeepsLife, OnlyRpc
  <2>6. CASE r = x
    <3>1. /\ rpc'[r].state = "completing" /\ rpc'[r].mem = FinishRemoves(r, rpc[r].mem)
          /\ rpc'[r].result = rpc[r].result /\ rpc'[r].flagged = rpc[r].flagged
          /\ rpc'[r].canAbort = rpc[r].canAbort
      BY <1>d, <2>3, <2>6 DEF RpcType
    <3>2. rpc[r].mem = ClientHas(r) \cup Resource
      BY <2>3, <2>6 DEF IInv, ResourcesReleased
    <3>. QED BY <1>b, <1>d, <2>1, <2>3, <2>4, <2>6, <3>1, <3>2 DEF Life, Active, Rpc
  <2>. QED BY <2>5, <2>6
<1>11. ASSUME NEW t \in Thread, CompletionReturns(t) PROVE Life(r)'
  <2>1. pc[t] = "callback" /\ UNCHANGED interrupt
    BY <1>11 DEF CompletionReturns
  <2>2. PICK x \in Asynch : job[t].current = x /\ x \in Rpc /\ rpc[x] \in RpcType
    BY <1>a, <2>1, WhoseRpc DEF TypeOK, Rpc
  <2>3. OnlyRpc(x) /\ rpc'[x].state = "complete"
    <3>1. Over(x, AsynchCompleted(rpc[x].mem))
      BY <1>11, <2>2 DEF CompletionReturns
    <3>. QED BY <1>a, <2>2, <3>1, OverDoes DEF AsynchCompleted, CallInfoDestroyed, RpcType
  <2>4. /\ OnlyThread(t) /\ pc'[t] = "messages" /\ job'[t].current = NoRpc
        /\ job'[t].call = job[t].call
    BY <1>11, <1>a DEF CompletionReturns, TypeOK, JobType, OnlyThread
  <2>5. \A u \in Thread : job'[u].current # x
    BY <1>b, <2>2, <2>4, WhoseRpc DEF OnlyThread
  <2>6. CASE r # x
    BY <1>b, <2>1, <2>2, <2>3, <2>4, <2>6, WhoseRpc, LifeKept DEF KeepsLife, OnlyRpc, OnlyThread
  <2>7. CASE r = x
    <3>1. \A u \in Thread : job'[u].call # r
      BY <1>b, <2>2, <2>4, <2>7, WhoseRpc DEF OnlyThread
    <3>. QED BY <1>b, <2>3, <2>5, <2>7, <3>1 DEF Life
  <2>. QED BY <2>6, <2>7
<1>12. ASSUME NEW t \in Thread, EndOfMessages(t) PROVE Life(r)'
  <2>1. pc[t] = "messages" /\ UNCHANGED <<interrupt, answer, rpc>> /\ Done(t) = {}
    BY <1>12 DEF EndOfMessages, EndIteration
  <2>2. /\ OnlyThread(t) /\ SameRequest(t) /\ job'[t].current = job[t].current
        /\ job'[t].running <=> job[t].running /\ job[t].limit # "passed"
        /\ job'[t].running => pc'[t] \in {"test", "asleep"}
        /\ ~job'[t].running => pc'[t] = "return"
    BY <1>12, <1>a, EndOfMessagesDoes DEF Wait
  <2>3. CASE job[t].call # r
    BY <2>1, <2>2, <2>3, LifeKept DEF KeepsLife, OnlyThread, SameRequest
  <2>4. CASE job[t].call = r
    <3>1. Mine(t) = {r} /\ job[t].limit = "none"
      BY <1>b, <2>1, <2>4, OwnRpcs DEF Calling, IInv, SessionInv
    <3>2. rpc[r].state # "done" /\ rpc[r].state \in Active
      BY <1>d, <2>1, <2>4, <3>1 DEF Done, Life
    <3>3. ~job[t].running => rpc[r].state = "completing"
      BY <1>d, <2>1, <2>4, <3>2 DEF Life, Active
    <3>4. \A u \in Thread : job[u].call = r => u = t
      BY <1>b, <2>4, WhoseRpc
    <3>5. /\ \A u \in Thread : job'[u].call = job[u].call /\ job'[u].current = job[u].current
          /\ pc'[t] \in {"test", "asleep", "return"}
          /\ pc'[t] = "return" => rpc[r].state = "completing"
      BY <2>2, <3>1, <3>3 DEF OnlyThread, SameRequest
    <3>. QED BY <1>d, <2>1, <2>4, <3>2, <3>4, <3>5 DEF Life
  <2>. QED BY <2>3, <2>4
<1>13. ASSUME NEW t \in Thread, FinishAsynchReturns(t) PROVE Life(r)'
  <2>1. /\ OnlyThread(t) /\ job'[t].call = NoRpc /\ job'[t].current = NoRpc
        /\ pc[t] = "return" /\ job[t].call = NoRpc /\ UNCHANGED <<interrupt, answer, rpc>>
    BY <1>13, <1>a DEF FinishAsynchReturns, TypeOK, NoJob, OnlyThread
  <2>. QED BY <1>b, <2>1, WhoseRpc, LifeKept DEF KeepsLife, OnlyThread
<1>14. ASSUME NEW t \in Thread, CallReturns(t) PROVE Life(r)'
  <2>1. pc[t] = "return" /\ UNCHANGED interrupt
    BY <1>14 DEF CallReturns
  <2>2. PICK x \in Synch : job[t].call = x /\ x \in Rpc /\ rpc[x] \in RpcType
    BY <1>14, <1>a, WhoseRpc DEF TypeOK, Rpc, CallReturns
  <2>3. OnlyRpc(x) /\ rpc'[x].state = "complete"
    <3>1. Over(x, Call2Frees(x, HandleRemoved(rpc[x].mem)))
      BY <1>14, <2>2 DEF CallReturns
    <3>. QED BY <1>a, <2>2, <3>1, OverDoes DEF Call2Frees, HandleRemoved, RpcType
  <2>4. OnlyThread(t) /\ pc'[t] = "idle" /\ job'[t].current = NoRpc /\ job'[t].call = NoRpc
    BY <1>14, <1>a DEF CallReturns, TypeOK, OnlyThread, NoJob
  <2>5. CASE r # x
    BY <1>b, <2>1, <2>2, <2>3, <2>4, <2>5, WhoseRpc, LifeKept DEF KeepsLife, OnlyRpc, OnlyThread
  <2>6. CASE r = x
    <3>1. \A u \in Thread : job'[u].call # r
      BY <1>b, <2>2, <2>4, <2>6, WhoseRpc DEF OnlyThread
    <3>. QED BY <1>b, <2>2, <2>3, <2>6, <3>1 DEF Life, Active
  <2>. QED BY <2>5, <2>6
<1>15. ASSUME NEW t \in Thread, HandleSignal(t) PROVE Life(r)'
  <2>1. /\ UNCHANGED <<job, answer>>
        /\ \A u \in Thread : pc'[u] = pc[u] \/ (pc[u] \in {"asleep", "asleepInt"} /\ pc'[u] = "work")
    BY <1>15, <1>a DEF HandleSignal, Asleep, TypeOK
  <2>2. /\ rpc'[r].state = rpc[r].state /\ rpc'[r].mem = rpc[r].mem
        /\ rpc'[r].result = rpc[r].result /\ rpc'[r].canAbort = rpc[r].canAbort
        /\ rpc'[r].flagged <=> rpc[r].flagged \/ rpc[r].state = "outstanding"
    BY <1>15, <1>a, HandleSignalDoes
  <2>. QED BY <1>d, <2>1, <2>2 DEF Life
<1>16. ASSUME NEW t \in Thread, DeadlinePasses(t) PROVE Life(r)'
  BY <1>16, <1>a, LifeKept DEF KeepsLife, DeadlinePasses, TypeOK, JobType
<1>17. CASE SetInterruptP
  BY <1>17, LifeKept DEF KeepsLife, SetInterruptP
<1>18. CASE ClearInterrupt
  BY <1>18, LifeKept DEF KeepsLife, ClearInterrupt
<1>19. CASE Signal
  BY <1>19, LifeKept DEF KeepsLife, Signal
<1>20. CASE StopCalling
  BY <1>20, LifeKept DEF KeepsLife, StopCalling
<1>21. CASE Destroy
  BY <1>21, LifeKept DEF KeepsLife, Destroy
<1>22. ASSUME NEW x \in Rpc, NetworkAnswers(x) PROVE Life(r)'
  BY <1>22, <1>a, LifeKept DEF KeepsLife, NetworkAnswers, TypeOK
<1>23. CASE UNCHANGED vars
  BY <1>23, LifeKept DEF KeepsLife
<1>. QED
  BY <1>1, <1>2, <1>3, <1>4, <1>5, <1>6, <1>7, <1>8, <1>9, <1>10, <1>11, <1>12, <1>13,
     <1>14, <1>15, <1>16, <1>17, <1>18, <1>19, <1>20, <1>21, <1>22, <1>23
     DEF Next, TransportStep

\* No two threads complete the same RPC.
KeepsRoutine == \A t \in Thread : job'[t].current \in {job[t].current, NoRpc}
LEMMA RoutineKept == ASSUME IInv, KeepsRoutine PROVE RoutineInv'
  BY DEF IInv, RoutineInv, KeepsRoutine

LEMMA RoutinePreserved == ASSUME IInv, [Next]_vars PROVE RoutineInv'
<1>. USE DEF vars, Goto, InterruptUnchanged, SyncUnchanged
<1>a. TypeOK
  BY DEF IInv
<1>1. ASSUME NEW t \in Thread, SendRequest(t) PROVE RoutineInv'
  <2>1. UNCHANGED job
    BY <1>1, Zenon DEF SendRequest
  <2>. QED BY <2>1, RoutineKept DEF KeepsRoutine
<1>2. ASSUME NEW t \in Thread, FinishAsynch(t) PROVE RoutineInv'
  <2>1. OnlyThread(t) /\ job'[t].current = NoRpc
    BY <1>2, <1>a, FinishAsynchDoes, Zenon
  <2>. QED BY <2>1, RoutineKept DEF KeepsRoutine, OnlyThread
<1>3. ASSUME NEW t \in Thread, Call(t) PROVE RoutineInv'
  <2>1. UNCHANGED job \/ (OnlyThread(t) /\ job'[t].current = NoRpc)
    BY <1>3, <1>a, CallDoes, Zenon
  <2>. QED BY <2>1, RoutineKept DEF KeepsRoutine, OnlyThread
<1>4. ASSUME NEW t \in Thread, StartCall(t) PROVE RoutineInv'
  <2>1. job' = [job EXCEPT ![t].interruptible = interruptP] \/ job' = [job EXCEPT ![t] = NoJob]
    BY <1>4, Zenon DEF StartCall
  <2>. QED BY <1>a, <2>1, RoutineKept DEF KeepsRoutine, TypeOK, JobType, NoJob
<1>5. ASSUME NEW t \in Thread, TestFlag(t) PROVE RoutineInv'
  BY <1>5, <1>a, RoutineKept DEF KeepsRoutine, TestFlag, TypeOK, JobType
<1>6. ASSUME NEW t \in Thread, Pselect(t) PROVE RoutineInv'
  BY <1>6, RoutineKept DEF KeepsRoutine, Pselect
<1>7. ASSUME NEW t \in Thread, Wake(t) PROVE RoutineInv'
  BY <1>7, RoutineKept DEF KeepsRoutine, Wake
<1>8. ASSUME NEW t \in Thread, NoteInterrupt(t) PROVE RoutineInv'
  BY <1>8, <1>a, RoutineKept DEF KeepsRoutine, NoteInterrupt, TypeOK, JobType
<1>9. ASSUME NEW t \in Thread, Perform(t) PROVE RoutineInv'
  <2>1. OnlyThread(t) /\ job'[t].current = job[t].current
    BY <1>9, <1>a, PerformDoes, Zenon
  <2>. QED BY <2>1, RoutineKept DEF KeepsRoutine, OnlyThread
<1>10. ASSUME NEW t \in Thread, ProcessMessage(t) PROVE RoutineInv'
  <2>1. Mine(t) \subseteq Rpc
    BY <1>10, OwnRpcs DEF ProcessMessage
  <2>2. PICK r \in Mine(t) :
            /\ rpc[r].state = "done"
            /\ \/ r \in Asynch /\ OnlyThread(t) /\ job'[t] = [job[t] EXCEPT !.current = r]
               \/ UNCHANGED job
    BY <1>10, <1>a, <2>1, ProcessMessageDoes, Zenon
  <2>3. r \in Asynch => \A u \in Thread : job[u].current # r
    <3>1. Life(r)
      BY <2>1, <2>2 DEF IInv, LifeInv
    <3>. QED BY <2>2, <3>1 DEF Life
  <2>4. CASE UNCHANGED job
    BY <2>4, RoutineKept DEF KeepsRoutine
  <2>5. CASE r \in Asynch /\ OnlyThread(t) /\ job'[t] = [job[t] EXCEPT !.current = r]
    BY <1>a, <2>3, <2>5 DEF IInv, RoutineInv, OnlyThread, TypeOK, JobType
  <2>. QED BY <2>2, <2>4, <2>5
<1>11. ASSUME NEW t \in Thread, CompletionReturns(t) PROVE RoutineInv'
  BY <1>11, <1>a, RoutineKept DEF KeepsRoutine, CompletionReturns, TypeOK, JobType
<1>12. ASSUME NEW t \in Thread, EndOfMessages(t) PROVE RoutineInv'
  <2>1. OnlyThread(t) /\ job'[t].current = job[t].current
    BY <1>12, <1>a, EndOfMessagesDoes, Zenon
  <2>. QED BY <2>1, RoutineKept DEF KeepsRoutine, OnlyThread
<1>13. ASSUME NEW t \in Thread, FinishAsynchReturns(t) PROVE RoutineInv'
  BY <1>13, <1>a, RoutineKept DEF KeepsRoutine, FinishAsynchReturns, TypeOK, NoJob
<1>14. ASSUME NEW t \in Thread, CallReturns(t) PROVE RoutineInv'
  BY <1>14, <1>a, RoutineKept DEF KeepsRoutine, CallReturns, TypeOK, NoJob
<1>15. ASSUME NEW t \in Thread, HandleSignal(t) PROVE RoutineInv'
  BY <1>15, RoutineKept DEF KeepsRoutine, HandleSignal
<1>16. ASSUME NEW t \in Thread, DeadlinePasses(t) PROVE RoutineInv'
  BY <1>16, <1>a, RoutineKept DEF KeepsRoutine, DeadlinePasses, TypeOK, JobType
<1>17. CASE \/ SetInterruptP \/ ClearInterrupt \/ Signal \/ StopCalling \/ Destroy
            \/ (\E r \in Rpc : NetworkAnswers(r)) \/ UNCHANGED vars
  BY <1>17, RoutineKept DEF KeepsRoutine, SetInterruptP, ClearInterrupt, Signal, StopCalling,
     Destroy, NetworkAnswers
<1>. QED
  BY <1>1, <1>2, <1>3, <1>4, <1>5, <1>6, <1>7, <1>8, <1>9, <1>10, <1>11, <1>12, <1>13,
     <1>14, <1>15, <1>16, <1>17 DEF Next, TransportStep

\* What a step does to an RPC: it only moves on, it holds what its state says,
\* and once the program has stopped calling, only completion routines begin one.
Held(r) ==
    /\ rpc[r].state \in {"outstanding", "done"} => rpc[r].mem = ClientHas(r) \cup Resource
    /\ rpc[r].state \in {"refused", "complete"} => rpc[r].mem = {}
Advances(r) ==
    /\ rpc[r].state \in Active \cup {"complete"} => rpc'[r].state \in Active \cup {"complete"}
    /\ rpc[r].state \in {"done", "completing", "complete"}
          => rpc'[r].state \in {"done", "completing", "complete"}
    /\ rpc[r].state \in {"completing", "complete"} => rpc'[r].state \in {"completing", "complete"}
    /\ r \in Asynch /\ phase # "calls" /\ Left(r)' => Left(r)
    /\ Held(r)'

LEMMA RpcAdvances == ASSUME IInv, [Next]_vars, NEW r \in Rpc PROVE Advances(r)
<1>. USE DEF vars, Goto, InterruptUnchanged, SyncUnchanged
<1>a. TypeOK
  BY DEF IInv
<1>b. \A x \in Rpc : x # NoRpc /\ ~(x \in Asynch /\ x \in Synch)
  BY RpcAssumption DEF Rpc
<1>c. Life(r) /\ rpc[r] \in RpcType /\ Held(r)
  BY DEF IInv, LifeInv, TypeOK, ResourcesReleased, Held
<1>d. rpc'[r] = rpc[r] => Advances(r)
  BY <1>c DEF Advances, Left, Held
<1>1. ASSUME NEW t \in Thread, SendRequest(t) PROVE Advances(r)
  <2>1. PICK x \in Asynch :
            /\ New(x) /\ OnlyRpc(x)
            /\ \/ /\ rpc'[x].state = "outstanding" /\ rpc'[x].mem = ClientHas(x) \cup Resource
                  /\ rpc'[x].byCallback = (pc[t] = "callback")
               \/ rpc'[x].state = "refused" /\ rpc'[x].mem = {}
    BY <1>1, <1>a, SendRequestDoes
  <2>2. phase # "calls" => pc[t] = "callback"
    BY <1>1, Zenon DEF SendRequest
  <2>3. CASE r = x
    BY <2>1, <2>2, <2>3 DEF New, Advances, Held, Left, Active
  <2>. QED BY <1>d, <2>1, <2>3 DEF OnlyRpc
<1>2. ASSUME NEW t \in Thread, FinishAsynch(t) PROVE Advances(r)
  BY <1>2, <1>d, Zenon DEF FinishAsynch
<1>3. ASSUME NEW t \in Thread, Call(t) PROVE Advances(r)
  <2>1. PICK x \in Synch :
            /\ New(x) /\ OnlyRpc(x)
            /\ \/ rpc'[x] = [rpc[x] EXCEPT !.mem = ClientHas(x)]
               \/ rpc'[x] = [rpc[x] EXCEPT !.state = "refused", !.mem = {}]
    BY <1>3, <1>a, CallDoes, Zenon
  <2>2. CASE r = x
    <3>1. rpc[r].state = "idle" /\ rpc[r].mem = {} /\ r \notin Asynch
      <4>1. rpc[r].state = "idle" /\ r \notin Asynch /\ \A u \in Thread : job[u].call # r
        BY <1>b, <2>1, <2>2 DEF New
      <4>. QED BY <1>c, <4>1 DEF Life
    <3>2. \/ rpc'[r].state = "idle"
          \/ rpc'[r].state = "refused" /\ rpc'[r].mem = {}
      BY <1>c, <2>1, <2>2, <3>1 DEF RpcType
    <3>. QED BY <3>1, <3>2 DEF Advances, Held, Active
  <2>. QED BY <1>d, <2>1, <2>2 DEF OnlyRpc
<1>4. ASSUME NEW t \in Thread, StartCall(t) PROVE Advances(r)
  <2>1. pc[t] = "lock" /\ job[t].call \in Synch
    BY <1>4, WhoseRpc DEF StartCall, IInv, Stage, Calling
  <2>2. CASE r = job[t].call
    <3>1. rpc[r].state = "idle" /\ rpc[r].mem = ClientHas(r) /\ r \notin Asynch
      BY <1>b, <1>c, <2>1, <2>2 DEF Life
    <3>2. CASE rpc'[job[t].call] = Started(t, ClientHas(job[t].call) \cup Resource)
      <4>1. rpc'[r].state = "outstanding" /\ rpc'[r].mem = ClientHas(r) \cup Resource
        BY <2>2, <3>2 DEF Started
      <4>. QED BY <3>1, <4>1 DEF Advances, Held, Active
    <3>3. CASE rpc'[job[t].call] = [rpc[job[t].call] EXCEPT !.state = "refused", !.mem = {}]
      <4>1. rpc'[r].state = "refused" /\ rpc'[r].mem = {}
        BY <1>c, <2>2, <3>3 DEF RpcType
      <4>. QED BY <3>1, <4>1 DEF Advances, Held, Active
    <3>. QED BY <1>4, <1>a, <3>2, <3>3, LockedCall, StartCallDoes, Zenon
  <2>3. CASE r # job[t].call
    <3>1. OnlyRpc(job[t].call)
      BY <1>4, <1>a, LockedCall, StartCallDoes, Zenon
    <3>. QED BY <1>d, <2>3, <3>1 DEF OnlyRpc
  <2>. QED BY <2>2, <2>3
<1>5. ASSUME NEW t \in Thread, TestFlag(t) PROVE Advances(r)
  BY <1>5, <1>d DEF TestFlag
<1>6. ASSUME NEW t \in Thread, Pselect(t) PROVE Advances(r)
  BY <1>6, <1>d DEF Pselect
<1>7. ASSUME NEW t \in Thread, Wake(t) PROVE Advances(r)
  BY <1>7, <1>d DEF Wake
<1>8. ASSUME NEW t \in Thread, NoteInterrupt(t) PROVE Advances(r)
  BY <1>8, <1>d DEF NoteInterrupt
<1>9. ASSUME NEW t \in Thread, Perform(t) PROVE Advances(r)
  <2>1. \/ rpc'[r] = rpc[r]
        \/ /\ rpc[r].state = "outstanding"
           /\ \E o \in MayEnd(r) : rpc'[r] = [rpc[r] EXCEPT !.state = "done", !.result = o]
    BY <1>9, <1>a, PerformDoes, Zenon
  <2>2. ASSUME rpc[r].state = "outstanding", NEW o \in MayEnd(r),
               rpc'[r] = [rpc[r] EXCEPT !.state = "done", !.result = o]
        PROVE  Advances(r)
    <3>1. /\ rpc'[r].state = "done" /\ rpc'[r].mem = rpc[r].mem
          /\ rpc'[r].byCallback = rpc[r].byCallback
      BY <1>c, <2>2 DEF RpcType
    <3>. QED BY <1>c, <2>2, <3>1 DEF Advances, Held, Active, Left
  <2>. QED BY <1>d, <2>1, <2>2
<1>10. ASSUME NEW t \in Thread, ProcessMessage(t) PROVE Advances(r)
  <2>1. Mine(t) \subseteq Rpc
    BY <1>10, OwnRpcs DEF ProcessMessage
  <2>2. PICK x \in Mine(t) :
            /\ rpc[x].state = "done" /\ OnlyRpc(x)
            /\ rpc'[x] = [rpc[x] EXCEPT !.state = "completing", !.mem = FinishRemoves(x, @)]
    BY <1>10, <1>a, <2>1, ProcessMessageDoes, Zenon
  <2>3. CASE r = x
    <3>1. rpc'[r].state = "completing"
      BY <1>c, <2>2, <2>3 DEF RpcType
    <3>. QED BY <3>1 DEF Advances, Held, Active, Left
  <2>. QED BY <1>d, <2>2, <2>3 DEF OnlyRpc
<1>11. ASSUME NEW t \in Thread, CompletionReturns(t) PROVE Advances(r)
  <2>1. PICK x \in Asynch : job[t].current = x /\ x \in Rpc /\ rpc[x] \in RpcType
    BY <1>11, <1>a, WhoseRpc DEF CompletionReturns, TypeOK, Rpc
  <2>2. Over(x, AsynchCompleted(rpc[x].mem)) /\ AsynchCompleted(rpc[x].mem) \subseteq Resource \cup CallInfo
    BY <1>11, <2>1 DEF CompletionReturns, AsynchCompleted, CallInfoDestroyed, RpcType
  <2>3. /\ OnlyRpc(x) /\ rpc'[x].state = "complete"
        /\ rpc'[x].mem = AsynchCompleted(rpc[x].mem) \ (Resource \ {"handle"})
    BY <1>a, <2>1, <2>2, OverDoes
  <2>4. CASE r = x
    <3>1. rpc[r].state = "completing"
      BY <1>c, <2>1, <2>4 DEF Life
    <3>2. rpc[r].mem = (ClientHas(r) \cup Resource) \ {"handle"}
      BY <1>c, <2>1, <2>4, <3>1 DEF Life, FinishRemoves, HandleRemoved
    <3>3. rpc'[r].mem = {}
      BY <2>3, <2>4, <3>2 DEF AsynchCompleted, CallInfoDestroyed, ClientHas, CallInfo
    <3>. QED BY <2>3, <2>4, <3>1, <3>3 DEF Advances, Held, Active, Left
  <2>. QED BY <1>d, <2>3, <2>4 DEF OnlyRpc
<1>12. ASSUME NEW t \in Thread, EndOfMessages(t) PROVE Advances(r)
  BY <1>12, <1>d DEF EndOfMessages, EndIteration
<1>13. ASSUME NEW t \in Thread, FinishAsynchReturns(t) PROVE Advances(r)
  BY <1>13, <1>d DEF FinishAsynchReturns
<1>14. ASSUME NEW t \in Thread, CallReturns(t) PROVE Advances(r)
  <2>1. PICK x \in Synch : job[t].call = x /\ x \in Rpc /\ rpc[x] \in RpcType
    BY <1>14, <1>a, WhoseRpc DEF CallReturns, TypeOK, Rpc
  <2>. DEFINE has == HandleRemoved(rpc[x].mem)
  <2>2. Over(x, Call2Frees(x, has)) /\ Call2Frees(x, has) \subseteq Resource \cup CallInfo
    BY <1>14, <2>1 DEF CallReturns, Call2Frees, HandleRemoved, RpcType
  <2>3. /\ OnlyRpc(x) /\ rpc'[x].state = "complete"
        /\ rpc'[x].mem = Call2Frees(x, has) \ (Resource \ {"handle"})
    BY <1>a, <2>1, <2>2, OverDoes
  <2>4. CASE r = x
    <3>1. rpc[r].state = "completing"
      BY <1>14, <1>c, <2>1, <2>4 DEF Life, CallReturns
    <3>2. rpc[r].mem = ClientHas(r) \cup Resource
      BY <1>b, <1>c, <2>1, <2>4, <3>1 DEF Life, FinishRemoves
    <3>3. rpc'[r].mem = {}
      BY <2>3, <2>4, <3>2 DEF Call2Frees, HandleRemoved, ClientHas, CallInfo
    <3>. QED BY <2>3, <2>4, <3>1, <3>3 DEF Advances, Held, Active, Left
  <2>. QED BY <1>d, <2>3, <2>4 DEF OnlyRpc
<1>15. ASSUME NEW t \in Thread, HandleSignal(t) PROVE Advances(r)
  <2>1. /\ rpc'[r].state = rpc[r].state /\ rpc'[r].mem = rpc[r].mem
        /\ rpc'[r].byCallback = rpc[r].byCallback
    BY <1>15, <1>a, HandleSignalDoes
  <2>. QED BY <1>c, <2>1 DEF Advances, Held, Left
<1>16. CASE \/ \E t \in Thread : DeadlinePasses(t)
            \/ SetInterruptP \/ ClearInterrupt \/ Signal \/ StopCalling \/ Destroy
            \/ (\E x \in Rpc : NetworkAnswers(x)) \/ UNCHANGED vars
  BY <1>16, <1>d DEF DeadlinePasses, SetInterruptP, ClearInterrupt, Signal, StopCalling, Destroy,
     NetworkAnswers
<1>. QED
  BY <1>1, <1>2, <1>3, <1>4, <1>5, <1>6, <1>7, <1>8, <1>9, <1>10, <1>11, <1>12, <1>13,
     <1>14, <1>15, <1>16 DEF Next, TransportStep

\* An RPC that is complete, or could not be started, has nothing left.
LEMMA ResourcesPreserved == ASSUME IInv, [Next]_vars PROVE ResourcesReleased'
  BY RpcAdvances DEF Advances, Held, ResourcesReleased

\* What a thread that goes on finishing has still to see to.
Entry(t) ==
    \A r \in job[t].entry :
        /\ rpc[r].state \in Active \cup {"complete"}
        /\ pc[t] \in {"messages", "callback"} /\ ~job[t].running => rpc[r].state # "outstanding"
        /\ pc[t] = "return" => rpc[r].state \in {"completing", "complete"}
KeepsEntry(t) ==
    \/ job'[t].entry = {}
    \/ /\ job'[t].entry = job[t].entry
       /\ pc'[t] \in {"messages", "callback"} /\ ~job'[t].running
             => pc[t] \in {"messages", "callback"} /\ ~job[t].running
       /\ pc'[t] = "return" => pc[t] = "return"

LEMMA EntryKept ==
  ASSUME IInv, [Next]_vars, NEW t \in Thread, KeepsEntry(t) PROVE Entry(t)'
<1>1. \A r \in job[t].entry : r \in Rpc /\ Advances(r)
  BY RpcAdvances DEF IInv, TypeOK, JobType, Rpc
<1>2. Entry(t)
  BY DEF IInv, EntryInv, Entry
<1>. QED BY <1>1, <1>2 DEF KeepsEntry, Entry, Advances, Active

LEMMA EntryPreserved == ASSUME IInv, [Next]_vars PROVE EntryInv'
<1>. USE DEF vars, Goto, InterruptUnchanged, SyncUnchanged
<1>a. TypeOK
  BY DEF IInv
<1>b. SUFFICES ASSUME NEW u \in Thread PROVE Entry(u)'
  BY DEF EntryInv, Entry
<1>c. Entry(u) /\ (job[u].entry # {} => job[u].limit = "none" /\ job[u].call = NoRpc)
  BY DEF IInv, EntryInv, Entry, Stage, Calling
<1>d. \A r \in job[u].entry : r \in Asynch /\ r \in Rpc /\ Advances(r)
  BY RpcAdvances DEF IInv, TypeOK, JobType, Rpc
<1>e. ASSUME pc'[u] = pc[u], job'[u] = job[u] PROVE Entry(u)'
  BY <1>e, EntryKept DEF KeepsEntry
<1>1. ASSUME NEW t \in Thread, SendRequest(t) PROVE Entry(u)'
  <2>1. UNCHANGED <<pc, job>>
    BY <1>1, Zenon DEF SendRequest
  <2>. QED BY <1>e, <2>1
<1>2. ASSUME NEW t \in Thread, FinishAsynch(t) PROVE Entry(u)'
  <2>1. /\ OnlyThread(t) /\ pc'[t] \in {"test", "asleep"}
        /\ job'[t].limit \in {"none", "ahead"}
        /\ job'[t].limit = "ahead" => job'[t].entry = {}
        /\ job'[t].limit = "none" =>
               job'[t].entry = {r \in Asynch : rpc[r].state \in {"outstanding", "done"}}
    BY <1>2, <1>a, FinishAsynchDoes, Zenon
  <2>2. UNCHANGED rpc
    BY <1>2, Zenon DEF FinishAsynch
  <2>3. CASE u = t
    BY <2>1, <2>2, <2>3 DEF Entry, Active
  <2>. QED BY <1>e, <2>1, <2>3 DEF OnlyThread
<1>3. ASSUME NEW t \in Thread, Call(t) PROVE Entry(u)'
  <2>1. UNCHANGED <<pc, job>> \/ (OnlyThread(t) /\ job'[t].entry = {})
    BY <1>3, <1>a, CallDoes, Zenon
  <2>. QED BY <1>e, <2>1, EntryKept DEF OnlyThread, KeepsEntry
<1>4. ASSUME NEW t \in Thread, StartCall(t) PROVE Entry(u)'
  <2>1. /\ \A v \in Thread \ {t} : pc'[v] = pc[v] /\ job'[v] = job[v]
        /\ pc'[t] \in {"test", "asleep", "idle"}
        /\ job'[t].entry = job[t].entry \/ job'[t].entry = {}
    BY <1>4, <1>a DEF StartCall, TypeOK, JobType, NoJob, Wait
  <2>. QED BY <1>e, <2>1, EntryKept DEF KeepsEntry
<1>5. ASSUME NEW t \in Thread, TestFlag(t) PROVE Entry(u)'
  BY <1>5, <1>a, EntryKept DEF KeepsEntry, TestFlag, TypeOK, JobType
<1>6. ASSUME NEW t \in Thread, Pselect(t) PROVE Entry(u)'
  BY <1>6, <1>a, EntryKept DEF KeepsEntry, Pselect, TypeOK
<1>7. ASSUME NEW t \in Thread, Wake(t) PROVE Entry(u)'
  BY <1>7, <1>a, EntryKept DEF KeepsEntry, Wake, TypeOK
<1>8. ASSUME NEW t \in Thread, NoteInterrupt(t) PROVE Entry(u)'
  BY <1>8, <1>a, EntryKept DEF KeepsEntry, NoteInterrupt, TypeOK, JobType
<1>9. ASSUME NEW t \in Thread, Perform(t) PROVE Entry(u)'
  <2>1. /\ OnlyThread(t) /\ pc'[t] = "messages" /\ SameRequest(t)
        /\ ~job'[t].running => \A x \in Mine(t) \cap Rpc : rpc'[x].state # "outstanding"
    BY <1>9, <1>a, PerformDoes, Zenon
  <2>2. CASE u = t
    <3>1. job[t].entry # {} => Mine(t) = Asynch
      BY <1>c, <2>2 DEF Mine
    <3>. QED BY <1>c, <1>d, <2>1, <2>2, <3>1 DEF Entry, Advances, SameRequest
  <2>. QED BY <1>e, <2>1, <2>2 DEF OnlyThread
<1>10. ASSUME NEW t \in Thread, ProcessMessage(t) PROVE Entry(u)'
  <2>1. pc[t] = "messages"
    BY <1>10 DEF ProcessMessage
  <2>2. UNCHANGED <<pc, job>> \/ \E r \in Asynch : Goto(t, "callback") /\ job' = [job EXCEPT ![t].current = r]
    BY <1>10, Zenon DEF ProcessMessage
  <2>. QED BY <1>a, <2>1, <2>2, EntryKept DEF KeepsEntry, TypeOK, JobType
<1>11. ASSUME NEW t \in Thread, CompletionReturns(t) PROVE Entry(u)'
  BY <1>11, <1>a, EntryKept DEF KeepsEntry, CompletionReturns, TypeOK, JobType
<1>12. ASSUME NEW t \in Thread, EndOfMessages(t) PROVE Entry(u)'
  <2>1. pc[t] = "messages" /\ UNCHANGED rpc /\ Done(t) = {}
    BY <1>12 DEF EndOfMessages, EndIteration
  <2>2. /\ OnlyThread(t) /\ SameRequest(t)
        /\ job'[t].running <=> job[t].running /\ job[t].limit # "passed"
        /\ job'[t].running => pc'[t] \in {"test", "asleep"}
        /\ ~job'[t].running => pc'[t] = "return"
    BY <1>12, <1>a, EndOfMessagesDoes DEF Wait
  <2>3. CASE u = t
    <3>1. job[t].entry # {} => Mine(t) = Asynch
      BY <1>c, <2>3 DEF Mine
    <3>2. \A r \in job[t].entry : rpc[r].state # "done"
      BY <1>d, <2>1, <2>3, <3>1 DEF Done
    <3>. QED BY <1>c, <1>d, <2>1, <2>2, <2>3, <3>2 DEF Entry, SameRequest, Active
  <2>. QED BY <1>e, <2>2, <2>3 DEF OnlyThread
<1>13. ASSUME NEW t \in Thread, FinishAsynchReturns(t) PROVE Entry(u)'
  BY <1>13, <1>a, EntryKept DEF KeepsEntry, FinishAsynchReturns, TypeOK, NoJob
<1>14. ASSUME NEW t \in Thread, CallReturns(t) PROVE Entry(u)'
  BY <1>14, <1>a, EntryKept DEF KeepsEntry, CallReturns, TypeOK, NoJob
<1>15. ASSUME NEW t \in Thread, HandleSignal(t) PROVE Entry(u)'
  BY <1>15, <1>a, EntryKept DEF KeepsEntry, HandleSignal, Asleep, TypeOK
<1>16. ASSUME NEW t \in Thread, DeadlinePasses(t) PROVE Entry(u)'
  BY <1>16, <1>a, EntryKept DEF KeepsEntry, DeadlinePasses, TypeOK, JobType
<1>17. CASE \/ SetInterruptP \/ ClearInterrupt \/ Signal \/ StopCalling \/ Destroy
            \/ (\E r \in Rpc : NetworkAnswers(r)) \/ UNCHANGED vars
  BY <1>17, <1>e DEF SetInterruptP, ClearInterrupt, Signal, StopCalling, Destroy, NetworkAnswers
<1>. QED
  BY <1>1, <1>2, <1>3, <1>4, <1>5, <1>6, <1>7, <1>8, <1>9, <1>10, <1>11, <1>12, <1>13,
     <1>14, <1>15, <1>16, <1>17 DEF Next, TransportStep

\* What a thread knows of the interrupt flag, while the flag stays as it is.
Alert(t) ==
    /\ pc[t] \in {"armed", "asleepInt"} => ~(interrupt /\ handledBy = t)
    /\ job[t].skips <= Handled
    /\ job[t].interruptible /\ ~job[t].curlCalled /\ pc[t] # "work" /\ interrupt
          => job[t].skips < Handled
KeepsAlert(t) ==
    /\ pc'[t] \in {"armed", "asleepInt"} => pc[t] \in {"armed", "asleepInt"} \/ ~interrupt
    /\ \/ job'[t].skips = job[t].skips
       \/ job'[t].skips = 0
    /\ job'[t].interruptible /\ ~job'[t].curlCalled /\ pc'[t] # "work" =>
          \/ job'[t].skips = 0
          \/ job[t].interruptible /\ ~job[t].curlCalled /\ pc[t] # "work"

LEMMA SignalKept ==
  ASSUME IInv, InterruptUnchanged, \A t \in Thread : KeepsAlert(t)
  PROVE  SignalInv'
<1>1. Handled' = Handled
  BY DEF InterruptUnchanged, Handled
<1>2. \A t \in Thread : job[t].skips \in Nat /\ Alert(t)
  BY DEF IInv, TypeOK, JobType, SignalInv, Alert
<1>3. Handled \in Nat /\ (interrupt => Handled > 0)
  BY DEF IInv, SignalInv
<1>. QED BY <1>1, <1>2, <1>3 DEF SignalInv, Alert, KeepsAlert, InterruptUnchanged

LEMMA SignalPreserved == ASSUME IInv, [Next]_vars PROVE SignalInv'
<1>. USE DEF vars, Goto, SyncUnchanged
<1>a. TypeOK
  BY DEF IInv
<1>b. \A u \in Thread : job[u].skips \in Nat /\ Alert(u) /\ Stage(u)
  BY DEF IInv, TypeOK, JobType, SignalInv, Alert
<1>c. signals \in Nat /\ Handled \in Nat /\ (interrupt => Handled > 0)
  BY BoundAssumption DEF IInv, SignalInv, TypeOK
<1>1. ASSUME NEW t \in Thread, SendRequest(t) PROVE SignalInv'
  <2>1. UNCHANGED <<pc, job>> /\ InterruptUnchanged
    BY <1>1, Zenon DEF SendRequest
  <2>. QED BY <2>1, SignalKept DEF KeepsAlert
<1>2. ASSUME NEW t \in Thread, FinishAsynch(t) PROVE SignalInv'
  <2>1. OnlyThread(t) /\ pc'[t] \in {"test", "asleep"} /\ job'[t].skips = 0
    BY <1>2, <1>a, FinishAsynchDoes, Zenon
  <2>2. InterruptUnchanged
    BY <1>2, Zenon DEF FinishAsynch
  <2>. QED BY <2>1, <2>2, SignalKept DEF KeepsAlert, OnlyThread
<1>3. ASSUME NEW t \in Thread, Call(t) PROVE SignalInv'
  <2>1. UNCHANGED <<pc, job>> \/ (OnlyThread(t) /\ pc'[t] = "lock" /\ job'[t].skips = 0)
    BY <1>3, <1>a, CallDoes, Zenon
  <2>2. InterruptUnchanged
    BY <1>3, Zenon DEF Call
  <2>. QED BY <2>1, <2>2, SignalKept DEF KeepsAlert, OnlyThread
<1>4. ASSUME NEW t \in Thread, StartCall(t) PROVE SignalInv'
  <2>1. /\ \A v \in Thread \ {t} : pc'[v] = pc[v] /\ job'[v] = job[v]
        /\ pc'[t] \in {"test", "asleep", "idle"}
        /\ job'[t].skips = job[t].skips \/ job'[t].skips = 0
        /\ pc[t] = "lock"
    BY <1>4, <1>a DEF StartCall, TypeOK, JobType, NoJob, Wait
  <2>2. InterruptUnchanged
    BY <1>4 DEF StartCall
  <2>3. job'[t].skips = 0
    BY <1>b, <2>1 DEF Stage
  <2>. QED BY <2>1, <2>2, <2>3, SignalKept DEF KeepsAlert
<1>5. ASSUME NEW t \in Thread, TestFlag(t) PROVE SignalInv'
  <2>1. pc[t] = "test" /\ job[t].interruptible /\ ~job[t].curlCalled
    BY <1>5, <1>b DEF TestFlag, Stage
  <2>2. CASE interrupt
    <3>1. /\ pc'[t] = "work" /\ job'[t].skips = job[t].skips + 1
          /\ \A u \in Thread \ {t} : pc'[u] = pc[u] /\ job'[u] = job[u]
      BY <1>5, <1>a, <2>2 DEF TestFlag, TypeOK, JobType
    <3>2. job[t].skips < Handled
      BY <1>b, <2>1, <2>2 DEF Alert
    <3>3. Handled' = Handled /\ InterruptUnchanged
      BY <1>5 DEF TestFlag, InterruptUnchanged, Handled
    <3>. QED BY <1>b, <1>c, <3>1, <3>2, <3>3 DEF SignalInv, Alert, InterruptUnchanged
  <2>3. CASE ~interrupt
    <3>1. /\ pc'[t] = "armed" /\ job' = job /\ InterruptUnchanged
          /\ \A u \in Thread \ {t} : pc'[u] = pc[u]
      BY <1>5, <1>a, <2>3 DEF TestFlag, TypeOK, JobType
    <3>. QED BY <2>1, <2>3, <3>1, SignalKept DEF KeepsAlert
  <2>. QED BY <2>2, <2>3
<1>6. ASSUME NEW t \in Thread, Pselect(t) PROVE SignalInv'
  BY <1>6, <1>a, SignalKept DEF KeepsAlert, Pselect, TypeOK
<1>7. ASSUME NEW t \in Thread, Wake(t) PROVE SignalInv'
  BY <1>7, <1>a, SignalKept DEF KeepsAlert, Wake, Asleep, TypeOK
<1>8. ASSUME NEW t \in Thread, NoteInterrupt(t) PROVE SignalInv'
  <2>1. /\ pc[t] = "work" /\ pc'[t] = "perform" /\ job'[t].skips = job[t].skips
        /\ job'[t].interruptible = job[t].interruptible
        /\ job[t].interruptible /\ interrupt => job'[t].curlCalled
        /\ \A u \in Thread \ {t} : pc'[u] = pc[u] /\ job'[u] = job[u]
    BY <1>8, <1>a DEF NoteInterrupt, TypeOK, JobType
  <2>2. Handled' = Handled /\ InterruptUnchanged
    BY <1>8 DEF NoteInterrupt, InterruptUnchanged, Handled
  <2>. QED BY <1>b, <1>c, <2>1, <2>2 DEF SignalInv, Alert, InterruptUnchanged
<1>9. ASSUME NEW t \in Thread, Perform(t) PROVE SignalInv'
  <2>1. /\ OnlyThread(t) /\ pc'[t] = "messages" /\ SameRequest(t)
        /\ job'[t].curlCalled = job[t].curlCalled /\ job'[t].skips = job[t].skips
    BY <1>9, <1>a, PerformDoes, Zenon
  <2>2. pc[t] = "perform" /\ InterruptUnchanged
    BY <1>9, Zenon DEF Perform
  <2>. QED BY <2>1, <2>2, SignalKept DEF KeepsAlert, OnlyThread, SameRequest
<1>10. ASSUME NEW t \in Thread, ProcessMessage(t) PROVE SignalInv'
  <2>1. pc[t] = "messages" /\ InterruptUnchanged
    BY <1>10 DEF ProcessMessage
  <2>2. UNCHANGED <<pc, job>> \/ \E r \in Asynch : Goto(t, "callback") /\ job' = [job EXCEPT ![t].current = r]
    BY <1>10, Zenon DEF ProcessMessage
  <2>. QED BY <1>a, <2>1, <2>2, SignalKept DEF KeepsAlert, TypeOK, JobType
<1>11. ASSUME NEW t \in Thread, CompletionReturns(t) PROVE SignalInv'
  BY <1>11, <1>a, SignalKept DEF KeepsAlert, CompletionReturns, TypeOK, JobType
<1>12. ASSUME NEW t \in Thread, EndOfMessages(t) PROVE SignalInv'
  <2>1. /\ OnlyThread(t) /\ SameRequest(t) /\ pc'[t] \in {"test", "asleep", "return"}
        /\ job'[t].curlCalled = job[t].curlCalled /\ job'[t].skips = job[t].skips
    BY <1>12, <1>a, EndOfMessagesDoes DEF Wait
  <2>2. pc[t] = "messages" /\ InterruptUnchanged
    BY <1>12 DEF EndOfMessages, EndIteration
  <2>. QED BY <2>1, <2>2, SignalKept DEF KeepsAlert, OnlyThread, SameRequest
<1>13. ASSUME NEW t \in Thread, FinishAsynchReturns(t) PROVE SignalInv'
  BY <1>13, <1>a, SignalKept DEF KeepsAlert, FinishAsynchReturns, TypeOK, NoJob
<1>14. ASSUME NEW t \in Thread, CallReturns(t) PROVE SignalInv'
  BY <1>14, <1>a, SignalKept DEF KeepsAlert, CallReturns, TypeOK, NoJob
<1>15. ASSUME NEW t \in Thread, HandleSignal(t) PROVE SignalInv'
  <2>1. /\ pending /\ ~pending' /\ interrupt' /\ handledBy' = t /\ UNCHANGED <<job, signals>>
        /\ pc[t] \notin {"test", "armed"}
        /\ pc'[t] \notin {"armed", "asleepInt"}
        /\ \A u \in Thread \ {t} : pc'[u] = pc[u]
    BY <1>15, <1>a DEF HandleSignal, Blocking, Asleep, TypeOK
  <2>2. Handled' = Handled + 1
    BY <1>c, <2>1 DEF Handled
  <2>. QED BY <1>b, <1>c, <2>1, <2>2 DEF SignalInv, Alert
<1>16. ASSUME NEW t \in Thread, DeadlinePasses(t) PROVE SignalInv'
  BY <1>16, <1>a, SignalKept DEF KeepsAlert, DeadlinePasses, TypeOK, JobType
<1>17. CASE SetInterruptP \/ ClearInterrupt
  <2>1. Handled' = Handled /\ UNCHANGED <<pc, job>> /\ (interrupt' => interrupt /\ handledBy' = handledBy)
    BY <1>17 DEF SetInterruptP, ClearInterrupt, Handled
  <2>. QED BY <1>b, <1>c, <2>1 DEF SignalInv, Alert
<1>18. CASE Signal
  <2>1. Handled' = Handled /\ UNCHANGED <<pc, job, interrupt, handledBy>>
    BY <1>18, <1>c DEF Signal, Handled
  <2>. QED BY <1>b, <1>c, <2>1 DEF SignalInv, Alert
<1>19. CASE StopCalling \/ Destroy \/ (\E r \in Rpc : NetworkAnswers(r)) \/ UNCHANGED vars
  <2>1. UNCHANGED <<pc, job>> /\ InterruptUnchanged
    BY <1>19 DEF StopCalling, Destroy, NetworkAnswers, InterruptUnchanged
  <2>. QED BY <2>1, SignalKept DEF KeepsAlert
<1>. QED
  BY <1>1, <1>2, <1>3, <1>4, <1>5, <1>6, <1>7, <1>8, <1>9, <1>10, <1>11, <1>12, <1>13,
     <1>14, <1>15, <1>16, <1>17, <1>18, <1>19 DEF Next, TransportStep

\* What the rules of destroy() leave to be done.
PhaseUsers ==
    /\ phase # "calls" => \A t \in Thread : job[t].call = NoRpc /\ job[t].limit = "none"
    /\ phase = "destroyed" => \A t \in Thread : pc[t] = "idle"
PhaseWork ==
    /\ phase = "finishes" =>
          \A t \in Thread : pc[t] # "idle" => \A r \in Asynch : Left(r) => r \in job[t].entry
    /\ phase \in {"finished", "destroyed"} => \A r \in Asynch : ~Left(r)
KeepsPhase ==
    /\ UNCHANGED phase
    /\ \A t \in Thread : /\ job'[t].call \in {job[t].call, NoRpc}
                         /\ job'[t].limit = "none" \/ (job'[t].limit = "ahead" /\ phase = "calls")
                               \/ job[t].limit # "none"
                         /\ pc[t] = "idle" => pc'[t] = "idle" \/ phase \in {"calls", "finishes"}
                         /\ pc'[t] # "idle" /\ phase = "finishes" =>
                               \/ pc[t] # "idle" /\ job'[t].entry = job[t].entry
                               \/ \A r \in Asynch : Left(r) => r \in job'[t].entry

LEMMA PhaseKept == ASSUME IInv, [Next]_vars, KeepsPhase PROVE PhaseInv'
<1>1. phase # "calls" => \A r \in Asynch : Left(r)' => Left(r)
  BY RpcAdvances DEF Advances, Rpc
<1>2. PhaseUsers /\ PhaseWork
  BY DEF IInv, PhaseInv, PhaseUsers, PhaseWork, Calling
<1>3. PhaseUsers'
  BY <1>2 DEF KeepsPhase, PhaseUsers
<1>4. PhaseWork'
  BY <1>1, <1>2 DEF KeepsPhase, PhaseWork
<1>. QED BY <1>3, <1>4 DEF PhaseInv, PhaseUsers, PhaseWork, Calling

LEMMA PhasePreserved == ASSUME IInv, [Next]_vars PROVE PhaseInv'
<1>. USE DEF vars, Goto, InterruptUnchanged, SyncUnchanged
<1>a. TypeOK /\ PhaseUsers /\ PhaseWork
  BY DEF IInv, PhaseInv, PhaseUsers, PhaseWork, Calling
<1>b. phase # "calls" => \A r \in Asynch : Left(r)' => Left(r)
  BY RpcAdvances DEF Advances, Rpc
<1>1. ASSUME NEW t \in Thread, SendRequest(t) PROVE PhaseInv'
  <2>1. UNCHANGED <<pc, job, phase>>
    BY <1>1, Zenon DEF SendRequest
  <2>. QED BY <2>1, PhaseKept DEF KeepsPhase
<1>2. ASSUME NEW t \in Thread, FinishAsynch(t) PROVE PhaseInv'
  <2>1. /\ OnlyThread(t) /\ job'[t].call = NoRpc
        /\ job'[t].limit \in {"none", "ahead"} /\ (phase = "calls" \/ job'[t].limit = "none")
        /\ job'[t].limit = "none" =>
               job'[t].entry = {r \in Asynch : rpc[r].state \in {"outstanding", "done"}}
    BY <1>2, <1>a, FinishAsynchDoes, Zenon
  <2>2. phase \in {"calls", "finishes"} /\ UNCHANGED phase
    BY <1>2, Zenon DEF FinishAsynch
  <2>3. \A r \in Asynch : Left(r) => rpc[r].state \in {"outstanding", "done"}
    BY DEF Left
  <2>4. phase = "finishes" => \A r \in Asynch : Left(r) => r \in job'[t].entry
    BY <2>1, <2>3
  <2>. QED BY <2>1, <2>2, <2>4, PhaseKept DEF KeepsPhase, OnlyThread
<1>3. ASSUME NEW t \in Thread, Call(t) PROVE PhaseInv'
  <2>1. phase = "calls" /\ UNCHANGED phase
    BY <1>3, Zenon DEF Call
  <2>. QED BY <2>1 DEF PhaseInv
<1>4. ASSUME NEW t \in Thread, StartCall(t) PROVE PhaseInv'
  <2>1. phase = "calls"
    BY <1>4, <1>a DEF StartCall, PhaseUsers, IInv, Stage, Calling
  <2>2. UNCHANGED phase
    BY <1>4 DEF StartCall
  <2>. QED BY <2>1, <2>2 DEF PhaseInv
<1>5. ASSUME NEW t \in Thread, TestFlag(t) PROVE PhaseInv'
  BY <1>5, <1>a, PhaseKept DEF KeepsPhase, TestFlag, TypeOK, JobType
<1>6. ASSUME NEW t \in Thread, Pselect(t) PROVE PhaseInv'
  BY <1>6, <1>a, PhaseKept DEF KeepsPhase, Pselect, TypeOK
<1>7. ASSUME NEW t \in Thread, Wake(t) PROVE PhaseInv'
  BY <1>7, <1>a, PhaseKept DEF KeepsPhase, Wake, Asleep, TypeOK
<1>8. ASSUME NEW t \in Thread, NoteInterrupt(t) PROVE PhaseInv'
  BY <1>8, <1>a, PhaseKept DEF KeepsPhase, NoteInterrupt, TypeOK, JobType
<1>9. ASSUME NEW t \in Thread, Perform(t) PROVE PhaseInv'
  <2>1. OnlyThread(t) /\ SameRequest(t) /\ job'[t].limit = job[t].limit
    BY <1>9, <1>a, PerformDoes, Zenon
  <2>2. pc[t] = "perform" /\ UNCHANGED phase
    BY <1>9, Zenon DEF Perform
  <2>. QED BY <2>1, <2>2, PhaseKept DEF KeepsPhase, OnlyThread, SameRequest
<1>10. ASSUME NEW t \in Thread, ProcessMessage(t) PROVE PhaseInv'
  <2>1. pc[t] = "messages" /\ UNCHANGED phase
    BY <1>10 DEF ProcessMessage
  <2>2. UNCHANGED <<pc, job>> \/ \E r \in Asynch : Goto(t, "callback") /\ job' = [job EXCEPT ![t].current = r]
    BY <1>10, Zenon DEF ProcessMessage
  <2>. QED BY <1>a, <2>1, <2>2, PhaseKept DEF KeepsPhase, TypeOK, JobType
<1>11. ASSUME NEW t \in Thread, CompletionReturns(t) PROVE PhaseInv'
  BY <1>11, <1>a, PhaseKept DEF KeepsPhase, CompletionReturns, TypeOK, JobType
<1>12. ASSUME NEW t \in Thread, EndOfMessages(t) PROVE PhaseInv'
  <2>1. OnlyThread(t) /\ SameRequest(t) /\ job'[t].limit = job[t].limit
    BY <1>12, <1>a, EndOfMessagesDoes
  <2>2. pc[t] = "messages" /\ UNCHANGED phase
    BY <1>12 DEF EndOfMessages, EndIteration
  <2>. QED BY <2>1, <2>2, PhaseKept DEF KeepsPhase, OnlyThread, SameRequest
<1>13. ASSUME NEW t \in Thread, FinishAsynchReturns(t) PROVE PhaseInv'
  <2>1. /\ OnlyThread(t) /\ pc[t] = "return" /\ pc'[t] = "idle"
        /\ job'[t].call = NoRpc /\ job'[t].limit = "none"
        /\ phase' = IF phase = "finishes" THEN "finished" ELSE phase
        /\ UNCHANGED rpc
    BY <1>13, <1>a DEF FinishAsynchReturns, TypeOK, OnlyThread, NoJob
  <2>2. CASE phase # "finishes"
    BY <2>1, <2>2, PhaseKept DEF KeepsPhase, OnlyThread
  <2>3. CASE phase = "finishes"
    <3>1. \A r \in job[t].entry : ~Left(r)
      BY <2>1 DEF IInv, EntryInv, Left
    <3>2. \A r \in Asynch : ~Left(r)
      BY <1>a, <2>1, <2>3, <3>1 DEF PhaseWork
    <3>3. PhaseUsers'
      BY <1>a, <2>1, <2>3 DEF PhaseUsers, OnlyThread
    <3>4. PhaseWork'
      BY <1>b, <2>1, <2>3, <3>2 DEF PhaseWork
    <3>. QED BY <3>3, <3>4 DEF PhaseInv, PhaseUsers, PhaseWork, Calling
  <2>. QED BY <2>2, <2>3
<1>14. ASSUME NEW t \in Thread, CallReturns(t) PROVE PhaseInv'
  <2>1. phase = "calls" /\ UNCHANGED phase
    BY <1>14, <1>a DEF CallReturns, PhaseUsers
  <2>. QED BY <2>1 DEF PhaseInv
<1>15. ASSUME NEW t \in Thread, HandleSignal(t) PROVE PhaseInv'
  BY <1>15, <1>a, PhaseKept DEF KeepsPhase, HandleSignal, Asleep, TypeOK
<1>16. ASSUME NEW t \in Thread, DeadlinePasses(t) PROVE PhaseInv'
  BY <1>16, <1>a, PhaseKept DEF KeepsPhase, DeadlinePasses, TypeOK, JobType
<1>17. CASE \/ SetInterruptP \/ ClearInterrupt \/ Signal
            \/ (\E r \in Rpc : NetworkAnswers(r)) \/ UNCHANGED vars
  BY <1>17, PhaseKept DEF KeepsPhase, SetInterruptP, ClearInterrupt, Signal, NetworkAnswers
<1>18. CASE StopCalling
  <2>1. \A t \in Thread : job[t] = NoJob
    BY <1>18 DEF StopCalling, IInv, Stage
  <2>2. PhaseUsers' /\ PhaseWork'
    BY <1>18, <2>1 DEF StopCalling, PhaseUsers, PhaseWork, NoJob
  <2>. QED BY <2>2 DEF PhaseInv, PhaseUsers, PhaseWork, Calling
<1>19. CASE Destroy
  <2>1. PhaseUsers'
    BY <1>19, <1>a DEF Destroy, PhaseUsers
  <2>2. PhaseWork'
    BY <1>19, <1>a, <1>b DEF Destroy, PhaseWork
  <2>. QED BY <2>1, <2>2 DEF PhaseInv, PhaseUsers, PhaseWork, Calling
<1>. QED
  BY <1>1, <1>2, <1>3, <1>4, <1>5, <1>6, <1>7, <1>8, <1>9, <1>10, <1>11, <1>12, <1>13,
     <1>14, <1>15, <1>16, <1>17, <1>18, <1>19 DEF Next, TransportStep

-----------------------------------------------------------------------------
(* The invariant, and what follows from it. *)

LEMMA InitInv == Init => IInv
<1>. SUFFICES ASSUME Init PROVE IInv
  OBVIOUS
<1>. USE DEF Init
<1>1. TypeOK
  <2>1. NoJob \in JobType
    BY DEF NoJob, JobType
  <2>2. NewRpc \in RpcType
    BY DEF NewRpc, RpcType, States
  <2>3. 0 \in 0 .. MaxSignals
    BY BoundAssumption
  <2>. QED BY <2>1, <2>2, <2>3 DEF TypeOK, Places
<1>2. \A t \in Thread : Stage(t)
  BY RpcAssumption DEF Stage, Calling, NoJob
<1>3. SessionInv
  BY ThreadAssumption DEF SessionInv, Calling, NoJob
<1>4. LifeInv
  BY RpcAssumption DEF LifeInv, Life, NoJob, NewRpc, Active, Rpc
<1>5. RoutineInv /\ EntryInv /\ PhaseInv
  BY DEF RoutineInv, EntryInv, PhaseInv, NoJob, Calling
<1>6. SignalInv
  BY DEF SignalInv, Handled, NoJob
<1>7. ResourcesReleased
  BY DEF ResourcesReleased, NewRpc
<1>. QED BY <1>1, <1>2, <1>3, <1>4, <1>5, <1>6, <1>7 DEF IInv

\* The inductive invariant holds in every reachable state.
THEOREM CurlInvariant == Spec => []IInv
<1>1. IInv /\ [Next]_vars => IInv'
  <2>. SUFFICES ASSUME IInv, [Next]_vars PROVE IInv'
    OBVIOUS
  <2>1. TypeOK'
    BY TypePreserved
  <2>2. (\A t \in Thread : Stage(t))' /\ SessionInv'
    BY <2>1, StagePreserved, SessionPreserved
  <2>3. LifeInv' /\ RoutineInv' /\ EntryInv'
    BY LifePreserved, RoutinePreserved, EntryPreserved
  <2>4. SignalInv' /\ PhaseInv' /\ ResourcesReleased'
    BY SignalPreserved, PhasePreserved, ResourcesPreserved
  <2>. QED BY <2>1, <2>2, <2>3, <2>4 DEF IInv
<1>. QED BY InitInv, <1>1, PTL DEF Spec

\* TypeOK: every variable of the transport has its type.
THEOREM TypeCorrect == Spec => []TypeOK
<1>1. IInv => TypeOK
  BY DEF IInv
<1>. QED BY CurlInvariant, <1>1, PTL

\* ResultsTrue: a completion routine and a synchronous caller are told the RPC's
\* own result (curlTransaction_finish() and performCurlTransaction()).
THEOREM TrueResults == Spec => []ResultsTrue
<1>1. IInv => ResultsTrue
  <2>. SUFFICES ASSUME IInv PROVE ResultsTrue
    OBVIOUS
  <2>1. \A r \in Rpc : rpc[r].state = "completing" =>
           \/ rpc[r].result = "aborted" /\ rpc[r].flagged /\ rpc[r].canAbort
           \/ rpc[r].result = "answered" /\ answer[r] = "answered"
    <3>. SUFFICES ASSUME NEW r \in Rpc, rpc[r].state = "completing"
                  PROVE  \/ rpc[r].result = "aborted" /\ rpc[r].flagged /\ rpc[r].canAbort
                         \/ rpc[r].result = "answered" /\ answer[r] = "answered"
      OBVIOUS
    <3>1. Life(r)
      BY DEF IInv, LifeInv
    <3>. QED BY <3>1 DEF Life
  <2>2. ASSUME NEW t \in Thread, pc[t] = "callback"
        PROVE  job[t].current \in Rpc /\ rpc[job[t].current].state = "completing"
    BY <2>2, WhoseRpc DEF IInv, LifeInv, Life, Rpc
  <2>3. ASSUME NEW t \in Thread, pc[t] = "return", job[t].call # NoRpc
        PROVE  job[t].call \in Rpc /\ rpc[job[t].call].state = "completing"
    <3>1. job[t].call \in Rpc
      BY <2>3, WhoseRpc DEF Rpc
    <3>2. Life(job[t].call)
      BY <3>1 DEF IInv, LifeInv
    <3>. QED BY <2>3, <3>1, <3>2 DEF Life
  <2>. QED BY <2>1, <2>2, <2>3 DEF ResultsTrue
<1>. QED BY CurlInvariant, <1>1, PTL

\* OneCompletion: one thread calls an RPC's completion routine, while the RPC
\* is being completed (processCurlMessages()).
THEOREM SingleCompletion == Spec => []OneCompletion
<1>1. IInv => OneCompletion
  <2>. SUFFICES ASSUME IInv PROVE OneCompletion
    OBVIOUS
  <2>1. ASSUME NEW t \in Thread, pc[t] = "callback"
        PROVE  rpc[job[t].current].state = "completing"
    BY <2>1, WhoseRpc DEF IInv, LifeInv, Life, Rpc
  <2>2. ASSUME NEW t \in Thread, NEW u \in Thread, t # u, pc[t] = "callback"
        PROVE  job[u].current # job[t].current
    BY <2>2, WhoseRpc, RpcAssumption
  <2>. QED BY <2>1, <2>2 DEF OneCompletion
<1>. QED BY CurlInvariant, <1>1, PTL

\* ResourcesReleased: an RPC in libcurl's hands has all it needs, and one that
\* is over or was refused has left nothing, on every path through createRpc(),
\* sendRequest(), call() and their callers.
THEOREM NothingLeft == Spec => []ResourcesReleased
<1>1. IInv => ResourcesReleased
  BY DEF IInv
<1>. QED BY CurlInvariant, <1>1, PTL

\* FinishSeesToAll: finish_asynch without a limit leaves no RPC that was
\* outstanding when it began, but one whose routine another thread runs.
THEOREM AllSeenTo == Spec => []FinishSeesToAll
<1>1. IInv => FinishSeesToAll
  <2>. SUFFICES ASSUME IInv, NEW t \in Thread, pc[t] = "return", NEW r \in job[t].entry,
                       rpc[r].state # "complete"
                PROVE  \E u \in Thread \ {t} : job[u].current = r
    BY DEF FinishSeesToAll
  <2>1. r \in Asynch /\ r \in Rpc /\ rpc[r].state = "completing"
    BY DEF IInv, TypeOK, JobType, EntryInv, Rpc
  <2>2. PICK u \in Thread : job[u].current = r
    BY <2>1 DEF IInv, LifeInv, Life
  <2>3. u # t
    BY <2>1, <2>2, WhoseRpc, RpcAssumption
  <2>. QED BY <2>2, <2>3
<1>. QED BY CurlInvariant, <1>1, PTL

\* NoSignalMissed: waitForWorkInt() does not put a thread to sleep with the flag
\* that the thread's own handler has set.
THEOREM SignalsNoticed == Spec => []NoSignalMissed
<1>1. IInv => NoSignalMissed
  BY DEF IInv, SignalInv, NoSignalMissed
<1>. QED BY CurlInvariant, <1>1, PTL

\* NoBusyLoop: finishCurlMulti() skips a wait at most once per signal.
THEOREM NoSpinning == Spec => []NoBusyLoop
<1>1. IInv => NoBusyLoop
  <2>. SUFFICES ASSUME IInv, NEW t \in Thread PROVE job[t].skips <= signals
    BY DEF NoBusyLoop
  <2>1. job[t].skips \in Nat /\ signals \in Nat
    BY BoundAssumption DEF IInv, TypeOK, JobType
  <2>2. job[t].skips <= Handled
    BY DEF IInv, SignalInv
  <2>. QED BY <2>1, <2>2 DEF Handled
<1>. QED BY CurlInvariant, <1>1, PTL

\* DestroyFindsNoOther: a program that keeps the rules of destroy() leaves it
\* only RPCs that completion routines began.
THEOREM DestroyIsSafe == Spec => []DestroyFindsNoOther
<1>1. IInv => DestroyFindsNoOther
  <2>. SUFFICES ASSUME IInv, phase = "destroyed", NEW r \in Rpc, rpc[r].state \in Active
                PROVE  rpc[r].byCallback
    BY DEF DestroyFindsNoOther, Active
  <2>1. \A t \in Thread : job[t].call = NoRpc /\ job[t].current = NoRpc
    BY WhoseRpc DEF IInv, PhaseInv
  <2>a. Life(r)
    BY DEF IInv, LifeInv
  <2>2. r \in Asynch /\ r # NoRpc
    BY <2>1, <2>a, RpcAssumption DEF Life, Rpc
  <2>3. rpc[r].state # "completing"
    BY <2>1, <2>2, <2>a DEF Life
  <2>4. ~Left(r)
    BY <2>2 DEF IInv, PhaseInv
  <2>. QED BY <2>3, <2>4 DEF Left, Active
<1>. QED BY CurlInvariant, <1>1, PTL
=============================================================================
