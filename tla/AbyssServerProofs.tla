------------------------- MODULE AbyssServerProofs -------------------------
(* Proofs about AbyssServer for every set of clients and every limit: its    *)
(* invariants, and that it implements ConnService.                          *)
EXTENDS AbyssServer, FiniteSetTheorems, TLAPS

\* A new channel is in the master's hands and has no connection yet.
HoldsNew ==
    \/ pc \in {"Capacity", "Create", "OnceCreate"}
    \/ pc \in {"FreeFinished", "Join"} /\ ret = "Capacity"

\* The listen queue holds each queued channel once, and only queued channels.
BacklogInv ==
    /\ \A i \in 1 .. Len(backlog) : chan[backlog[i]] = "queued"
    /\ \A i, j \in 1 .. Len(backlog) : backlog[i] = backlog[j] => i = j

\* The stages of one connection: descriptor, thread, finished flag and
\* channel move together.
Stage(c) ==
    /\ conn[c] \in {"none", "lost"} <=> thread[c] = "none"
    /\ chan[c] \in {"absent", "queued"} => conn[c] = "none"
    /\ conn[c] = "freed" => thread[c] = "exited"
    /\ conn[c] = "lost" => pc = "Failed"
    /\ finished[c] => thread[c] \in {"cleanup", "exited"}
    /\ thread[c] = "cleanup" => hasOwnThread[c]
    /\ c \in Running => chan[c] = "open"
    /\ chan[c] = "open" => \/ c \in Running
                           \/ c = cur /\ (HoldsNew \/ pc = "OnceRun")
                           \/ pc = "Exited"

StageInv == \A c \in Chan : Stage(c)

\* What the master holds at each point of its program.
MasterInv ==
    /\ {c \in Chan : conn[c] = "live"} = outstanding \cup InHand
    /\ HoldsNew => cur \in Chan /\ chan[cur] = "open" /\ conn[cur] = "none"
    /\ pc = "Capacity" => ret = "Capacity"
    /\ pc \in {"AddToList", "OnceRun"} => cur \in Chan \ outstanding
    /\ pc = "AddToList" => hasOwnThread[cur]
    /\ pc = "OnceRun" => ~hasOwnThread[cur]
    /\ pc = "Join" => at \in Chan \ outstanding /\ hasOwnThread[at]
    /\ pc = "InterruptChannel" => at \in outstanding
    /\ pc \in {"FreeFinished", "Join", "Interrupt", "InterruptChannel"}
         => todo \subseteq outstanding
    /\ \A c \in outstanding : hasOwnThread[c]
    /\ pc \in {"Idle", "OnceAccept", "OnceCreate", "OnceRun", "Exited"}
         => outstanding = {}

\* The redundant count, and the room there is for the connection in hand.
CountInv ==
    /\ count = Cardinality(outstanding)
    /\ count <= MaxConn
    /\ pc \in {"Create", "AddToList", "Join"} => count < MaxConn

IInv == TypeOK /\ BacklogInv /\ StageInv /\ MasterInv /\ CountInv

-----------------------------------------------------------------------------
\* The list is a finite set of clients.
LEMMA OutstandingFinite ==
  ASSUME TypeOK
  PROVE  IsFiniteSet(outstanding) /\ Cardinality(outstanding) \in Nat
  BY ChanAssumption, FS_Subset, FS_CardinalityType DEF TypeOK

(* One lemma per part of the invariant, one step per action of the server. *)

\* A step keeps every variable's type: what is taken from the list was in it,
\* so the count stays a natural number.
LEMMA TypePreserved == ASSUME IInv, [Next]_vars PROVE TypeOK'
<1>. USE DEF IInv, TypeOK, MasterPC, ThreadPC, vars, masterVars, listVars,
             termVars, netVars, connVars
<1>1. CASE LoopTest
  BY <1>1 DEF LoopTest, LoopContinues
<1>2. CASE AcceptChannel
  BY <1>2 DEF AcceptChannel
<1>3. CASE AcceptInterrupted
  BY <1>3 DEF AcceptInterrupted, AcceptReturnsNone
<1>4. CASE ConnWaitAndRelease
  BY <1>4 DEF ConnWaitAndRelease, Joined
<1>5. CASE FreeFinishedReturns
  BY <1>5 DEF FreeFinishedReturns
<1>6. CASE CapacityTest
  BY <1>6 DEF CapacityTest, AtCapacity
<1>7. CASE ConnCreate
  BY <1>7 DEF ConnCreate, NewConn, MasterInv, HoldsNew
<1>8. CASE AddToOutstandingConnList
  BY <1>8 DEF AddToOutstandingConnList, Enlist, MasterInv
<1>9. CASE InterruptChannel
  BY <1>9 DEF InterruptChannel
<1>10. CASE InterruptReturns
  BY <1>10 DEF InterruptReturns
<1>11. CASE DrainTest
  BY <1>11 DEF DrainTest, NoConnections
<1>12. CASE OnceCreate
  BY <1>12 DEF OnceCreate, NewConn, MasterInv, HoldsNew
<1>13. CASE OnceReturns
  BY <1>13 DEF OnceReturns
<1>14. CASE AcceptSignalled
  BY <1>14 DEF AcceptSignalled, AcceptReturnsNone
<1>15. CASE AcceptFails
  <2>1. CASE UNCHANGED netVars
    BY <1>15, <2>1 DEF AcceptFails
  <2>2. CASE /\ backlog # <<>> /\ backlog' = Tail(backlog)
             /\ chan' = [chan EXCEPT ![Head(backlog)] = "destroyed"]
    BY <1>15, <2>2 DEF AcceptFails
  <2>. QED BY <1>15, <2>1, <2>2 DEF AcceptFails
<1>16. CASE ConnCreateFails
  <2>1. cur \in Chan
    BY <1>16 DEF ConnCreateFails, MasterInv, HoldsNew
  <2>2. PICK d \in {"none", "lost"} : conn' = [conn EXCEPT ![cur] = d]
    BY <1>16 DEF ConnCreateFails
  <2>. QED BY <1>16, <2>1, <2>2 DEF ConnCreateFails
<1>17. CASE OnceCreateFails
  BY <1>17 DEF OnceCreateFails
<1>18. CASE ServerRun
  BY <1>18 DEF ServerRun
<1>19. CASE ServerRunOnce
  BY <1>19 DEF ServerRunOnce
<1>20. CASE ServerResetTerminate
  BY <1>20 DEF ServerResetTerminate
<1>21. CASE ServerTerminate
  BY <1>21 DEF ServerTerminate
<1>22. CASE ChanSwitchInterrupt
  BY <1>22 DEF ChanSwitchInterrupt
<1>23. CASE Ended
  BY <1>23 DEF Ended
<1>24. ASSUME NEW c \in Chan, FreeFinishedConn(c) PROVE TypeOK'
  <2>1. c \in outstanding
    BY <1>24 DEF FreeFinishedConn, Unlist, MasterInv
  <2>2. count > 0
    BY <2>1, OutstandingFinite, FS_EmptySet, FS_CardinalityType DEF CountInv
  <2>. QED BY <1>24, <2>2 DEF FreeFinishedConn, Unlist
<1>25. ASSUME NEW c \in Chan, InterruptTest(c) PROVE TypeOK'
  BY <1>25 DEF InterruptTest, NeedsInterrupt
<1>26. ASSUME NEW c \in Chan, ReadInterrupted(c) PROVE TypeOK'
  BY <1>26 DEF ReadInterrupted, Goto, ThreadOnly
<1>27. ASSUME NEW c \in Chan, CheckRead(c) PROVE TypeOK'
  BY <1>27 DEF CheckRead, Goto, ThreadOnly
<1>28. ASSUME NEW c \in Chan, ProcessRequest(c) PROVE TypeOK'
  BY <1>28 DEF ProcessRequest, Goto, ThreadOnly
<1>29. ASSUME NEW c \in Chan, SetFinished(c) PROVE TypeOK'
  BY <1>29 DEF SetFinished, Goto
<1>30. ASSUME NEW c \in Chan, ThreadDone(c) PROVE TypeOK'
  BY <1>30 DEF ThreadDone, Goto
<1>31. ASSUME NEW c \in Chan, Connect(c) PROVE TypeOK'
  BY <1>31 DEF Connect
<1>32. ASSUME NEW c \in Chan, ReadData(c) PROVE TypeOK'
  BY <1>32 DEF ReadData, Goto, ThreadOnly
<1>33. ASSUME NEW c \in Chan, ReadEnds(c) PROVE TypeOK'
  BY <1>33 DEF ReadEnds, Goto, ThreadOnly
<1>34. ASSUME NEW c \in Chan, WriteResponse(c) PROVE TypeOK'
  BY <1>34 DEF WriteResponse, Goto, ThreadOnly
<1>35. CASE UNCHANGED vars
  BY <1>35
<1>. QED
  BY <1>1, <1>2, <1>3, <1>4, <1>5, <1>6, <1>7, <1>8, <1>9, <1>10, <1>11,
     <1>12, <1>13, <1>14, <1>15, <1>16, <1>17, <1>18, <1>19, <1>20, <1>21,
     <1>22, <1>23, <1>24, <1>25, <1>26, <1>27, <1>28, <1>29, <1>30, <1>31,
     <1>32, <1>33, <1>34, <1>35
  DEF Next, MasterProgress, ThreadProgress

\* A step keeps the listen queue free of duplicates and of accepted channels.
LEMMA BacklogPreserved == ASSUME IInv, [Next]_vars PROVE BacklogInv'
<1>. USE DEF IInv, TypeOK, BacklogInv, StageInv, Stage, MasterInv, HoldsNew,
             Running, vars, masterVars, listVars, termVars, netVars, connVars
<1>1. CASE LoopTest
  BY <1>1 DEF LoopTest, LoopContinues
<1>2. CASE AcceptChannel
  BY <1>2 DEF AcceptChannel
<1>3. CASE AcceptInterrupted
  BY <1>3 DEF AcceptInterrupted, AcceptReturnsNone
<1>4. CASE ConnWaitAndRelease
  BY <1>4 DEF ConnWaitAndRelease, Joined
<1>5. CASE FreeFinishedReturns
  BY <1>5 DEF FreeFinishedReturns
<1>6. CASE CapacityTest
  BY <1>6 DEF CapacityTest, AtCapacity
<1>7. CASE ConnCreate
  BY <1>7 DEF ConnCreate, NewConn
<1>8. CASE AddToOutstandingConnList
  BY <1>8 DEF AddToOutstandingConnList, Enlist
<1>9. CASE InterruptChannel
  BY <1>9 DEF InterruptChannel
<1>10. CASE InterruptReturns
  BY <1>10 DEF InterruptReturns
<1>11. CASE DrainTest
  BY <1>11 DEF DrainTest, NoConnections
<1>12. CASE OnceCreate
  BY <1>12 DEF OnceCreate, NewConn
<1>13. CASE OnceReturns
  BY <1>13 DEF OnceReturns
<1>14. CASE AcceptSignalled
  BY <1>14 DEF AcceptSignalled, AcceptReturnsNone
<1>15. CASE AcceptFails
  <2>1. CASE UNCHANGED netVars
    BY <1>15, <2>1 DEF AcceptFails
  <2>2. CASE /\ backlog # <<>> /\ backlog' = Tail(backlog)
             /\ chan' = [chan EXCEPT ![Head(backlog)] = "destroyed"]
    BY <1>15, <2>2 DEF AcceptFails
  <2>. QED BY <1>15, <2>1, <2>2 DEF AcceptFails
<1>16. CASE ConnCreateFails
  BY <1>16 DEF ConnCreateFails
<1>17. CASE OnceCreateFails
  BY <1>17 DEF OnceCreateFails
<1>18. CASE ServerRun
  BY <1>18 DEF ServerRun
<1>19. CASE ServerRunOnce
  BY <1>19 DEF ServerRunOnce
<1>20. CASE ServerResetTerminate
  BY <1>20 DEF ServerResetTerminate
<1>21. CASE ServerTerminate
  BY <1>21 DEF ServerTerminate
<1>22. CASE ChanSwitchInterrupt
  BY <1>22 DEF ChanSwitchInterrupt
<1>23. CASE Ended
  BY <1>23 DEF Ended
<1>24. ASSUME NEW c \in Chan, FreeFinishedConn(c) PROVE BacklogInv'
  BY <1>24 DEF FreeFinishedConn, Unlist
<1>25. ASSUME NEW c \in Chan, InterruptTest(c) PROVE BacklogInv'
  BY <1>25 DEF InterruptTest, NeedsInterrupt
<1>26. ASSUME NEW c \in Chan, ReadInterrupted(c) PROVE BacklogInv'
  BY <1>26 DEF ReadInterrupted, Goto, ThreadOnly
<1>27. ASSUME NEW c \in Chan, CheckRead(c) PROVE BacklogInv'
  BY <1>27 DEF CheckRead, Goto, ThreadOnly
<1>28. ASSUME NEW c \in Chan, ProcessRequest(c) PROVE BacklogInv'
  BY <1>28 DEF ProcessRequest, Goto, ThreadOnly
<1>29. ASSUME NEW c \in Chan, SetFinished(c) PROVE BacklogInv'
  BY <1>29 DEF SetFinished, Goto
<1>30. ASSUME NEW c \in Chan, ThreadDone(c) PROVE BacklogInv'
  BY <1>30 DEF ThreadDone, Goto
<1>31. ASSUME NEW c \in Chan, Connect(c) PROVE BacklogInv'
  BY <1>31 DEF Connect
<1>32. ASSUME NEW c \in Chan, ReadData(c) PROVE BacklogInv'
  BY <1>32 DEF ReadData, Goto, ThreadOnly
<1>33. ASSUME NEW c \in Chan, ReadEnds(c) PROVE BacklogInv'
  BY <1>33 DEF ReadEnds, Goto, ThreadOnly
<1>34. ASSUME NEW c \in Chan, WriteResponse(c) PROVE BacklogInv'
  BY <1>34 DEF WriteResponse, Goto, ThreadOnly
<1>35. CASE UNCHANGED vars
  BY <1>35
<1>. QED
  BY <1>1, <1>2, <1>3, <1>4, <1>5, <1>6, <1>7, <1>8, <1>9, <1>10, <1>11,
     <1>12, <1>13, <1>14, <1>15, <1>16, <1>17, <1>18, <1>19, <1>20, <1>21,
     <1>22, <1>23, <1>24, <1>25, <1>26, <1>27, <1>28, <1>29, <1>30, <1>31,
     <1>32, <1>33, <1>34, <1>35
  DEF Next, MasterProgress, ThreadProgress

\* A step keeps each connection's descriptor, thread and channel in step.
LEMMA StagePreserved == ASSUME IInv, [Next]_vars PROVE StageInv'
<1>. USE DEF IInv, TypeOK, BacklogInv, StageInv, Stage, MasterInv, HoldsNew,
             InHand, Running, vars, masterVars, listVars, termVars, netVars,
             connVars
<1>1. CASE LoopTest
  BY <1>1 DEF LoopTest, LoopContinues
<1>2. CASE AcceptChannel
  BY <1>2 DEF AcceptChannel
<1>3. CASE AcceptInterrupted
  BY <1>3 DEF AcceptInterrupted, AcceptReturnsNone
<1>4. CASE ConnWaitAndRelease
  BY <1>4 DEF ConnWaitAndRelease, Joined
<1>5. CASE FreeFinishedReturns
  BY <1>5 DEF FreeFinishedReturns
<1>6. CASE CapacityTest
  <2>1. CASE AtCapacity
    BY <1>6, <2>1 DEF CapacityTest
  <2>2. CASE ~AtCapacity
    BY <1>6, <2>2 DEF CapacityTest
  <2>. QED BY <2>1, <2>2
<1>7. CASE ConnCreate
  BY <1>7 DEF ConnCreate, NewConn
<1>8. CASE AddToOutstandingConnList
  BY <1>8 DEF AddToOutstandingConnList, Enlist
<1>9. CASE InterruptChannel
  BY <1>9 DEF InterruptChannel
<1>10. CASE InterruptReturns
  BY <1>10 DEF InterruptReturns
<1>11. CASE DrainTest
  BY <1>11 DEF DrainTest, NoConnections
<1>12. CASE OnceCreate
  BY <1>12 DEF OnceCreate, NewConn
<1>13. CASE OnceReturns
  <2>1. cur \in Chan
    BY <1>13 DEF OnceReturns
  <2>. SUFFICES ASSUME NEW d \in Chan PROVE Stage(d)'
    OBVIOUS
  <2>2. CASE d = cur
    BY <1>13, <2>1, <2>2 DEF OnceReturns
  <2>3. CASE d # cur
    BY <1>13, <2>1, <2>3 DEF OnceReturns
  <2>. QED BY <2>2, <2>3
<1>14. CASE AcceptSignalled
  BY <1>14 DEF AcceptSignalled, AcceptReturnsNone
<1>15. CASE AcceptFails
  <2>1. CASE UNCHANGED netVars
    BY <1>15, <2>1 DEF AcceptFails
  <2>2. CASE /\ backlog # <<>> /\ backlog' = Tail(backlog)
             /\ chan' = [chan EXCEPT ![Head(backlog)] = "destroyed"]
    BY <1>15, <2>2 DEF AcceptFails
  <2>. QED BY <1>15, <2>1, <2>2 DEF AcceptFails
<1>16. CASE ConnCreateFails
  <2>1. cur \in Chan /\ chan[cur] = "open" /\ conn[cur] = "none"
    BY <1>16 DEF ConnCreateFails
  <2>2. PICK e \in {"none", "lost"} : conn' = [conn EXCEPT ![cur] = e]
    BY <1>16 DEF ConnCreateFails
  <2>. SUFFICES ASSUME NEW d \in Chan PROVE Stage(d)'
    OBVIOUS
  <2>3. CASE d = cur
    BY <1>16, <2>1, <2>2, <2>3 DEF ConnCreateFails
  <2>4. CASE d # cur
    BY <1>16, <2>1, <2>2, <2>4 DEF ConnCreateFails
  <2>. QED BY <2>3, <2>4
<1>17. CASE OnceCreateFails
  BY <1>17 DEF OnceCreateFails
<1>18. CASE ServerRun
  BY <1>18 DEF ServerRun
<1>19. CASE ServerRunOnce
  BY <1>19 DEF ServerRunOnce
<1>20. CASE ServerResetTerminate
  BY <1>20 DEF ServerResetTerminate
<1>21. CASE ServerTerminate
  BY <1>21 DEF ServerTerminate
<1>22. CASE ChanSwitchInterrupt
  BY <1>22 DEF ChanSwitchInterrupt
<1>23. CASE Ended
  BY <1>23 DEF Ended
<1>24. ASSUME NEW c \in Chan, FreeFinishedConn(c) PROVE StageInv'
  BY <1>24 DEF FreeFinishedConn, Unlist
<1>25. ASSUME NEW c \in Chan, InterruptTest(c) PROVE StageInv'
  BY <1>25 DEF InterruptTest, NeedsInterrupt
<1>26. ASSUME NEW c \in Chan, ReadInterrupted(c) PROVE StageInv'
  BY <1>26 DEF ReadInterrupted, Goto, ThreadOnly
<1>27. ASSUME NEW c \in Chan, CheckRead(c) PROVE StageInv'
  BY <1>27 DEF CheckRead, Goto, ThreadOnly
<1>28. ASSUME NEW c \in Chan, ProcessRequest(c) PROVE StageInv'
  BY <1>28 DEF ProcessRequest, Goto, ThreadOnly
<1>29. ASSUME NEW c \in Chan, SetFinished(c) PROVE StageInv'
  BY <1>29 DEF SetFinished, Goto
<1>30. ASSUME NEW c \in Chan, ThreadDone(c) PROVE StageInv'
  <2>1. conn[c] = "live" /\ chan[c] = "open" /\ hasOwnThread[c]
    BY <1>30 DEF ThreadDone, Goto
  <2>. SUFFICES ASSUME NEW d \in Chan PROVE Stage(d)'
    OBVIOUS
  <2>2. CASE d = c
    BY <1>30, <2>1, <2>2 DEF ThreadDone, Goto
  <2>3. CASE d # c
    BY <1>30, <2>1, <2>3 DEF ThreadDone, Goto
  <2>. QED BY <2>2, <2>3
<1>31. ASSUME NEW c \in Chan, Connect(c) PROVE StageInv'
  BY <1>31 DEF Connect
<1>32. ASSUME NEW c \in Chan, ReadData(c) PROVE StageInv'
  BY <1>32 DEF ReadData, Goto, ThreadOnly
<1>33. ASSUME NEW c \in Chan, ReadEnds(c) PROVE StageInv'
  BY <1>33 DEF ReadEnds, Goto, ThreadOnly
<1>34. ASSUME NEW c \in Chan, WriteResponse(c) PROVE StageInv'
  BY <1>34 DEF WriteResponse, Goto, ThreadOnly
<1>35. CASE UNCHANGED vars
  BY <1>35
<1>. QED
  BY <1>1, <1>2, <1>3, <1>4, <1>5, <1>6, <1>7, <1>8, <1>9, <1>10, <1>11,
     <1>12, <1>13, <1>14, <1>15, <1>16, <1>17, <1>18, <1>19, <1>20, <1>21,
     <1>22, <1>23, <1>24, <1>25, <1>26, <1>27, <1>28, <1>29, <1>30, <1>31,
     <1>32, <1>33, <1>34, <1>35
  DEF Next, MasterProgress, ThreadProgress

\* A step keeps track of every descriptor the master is responsible for.
LEMMA MasterPreserved == ASSUME IInv, [Next]_vars PROVE MasterInv'
<1>. USE DEF IInv, TypeOK, BacklogInv, StageInv, Stage, MasterInv, HoldsNew,
             InHand, Running, vars, masterVars, listVars, termVars, netVars,
             connVars
<1>1. CASE LoopTest
  BY <1>1 DEF LoopTest, LoopContinues
<1>2. CASE AcceptChannel
  BY <1>2 DEF AcceptChannel
<1>3. CASE AcceptInterrupted
  BY <1>3 DEF AcceptInterrupted, AcceptReturnsNone
<1>4. CASE ConnWaitAndRelease
  BY <1>4 DEF ConnWaitAndRelease, Joined
<1>5. CASE FreeFinishedReturns
  BY <1>5 DEF FreeFinishedReturns
<1>6. CASE CapacityTest
  BY <1>6 DEF CapacityTest, AtCapacity
<1>7. CASE ConnCreate
  BY <1>7 DEF ConnCreate, NewConn
<1>8. CASE AddToOutstandingConnList
  BY <1>8 DEF AddToOutstandingConnList, Enlist
<1>9. CASE InterruptChannel
  BY <1>9 DEF InterruptChannel
<1>10. CASE InterruptReturns
  BY <1>10 DEF InterruptReturns
<1>11. CASE DrainTest
  BY <1>11 DEF DrainTest, NoConnections
<1>12. CASE OnceCreate
  BY <1>12 DEF OnceCreate, NewConn
<1>13. CASE OnceReturns
  BY <1>13 DEF OnceReturns
<1>14. CASE AcceptSignalled
  BY <1>14 DEF AcceptSignalled, AcceptReturnsNone
<1>15. CASE AcceptFails
  BY <1>15 DEF AcceptFails
<1>16. CASE ConnCreateFails
  BY <1>16 DEF ConnCreateFails
<1>17. CASE OnceCreateFails
  BY <1>17 DEF OnceCreateFails
<1>18. CASE ServerRun
  BY <1>18 DEF ServerRun
<1>19. CASE ServerRunOnce
  BY <1>19 DEF ServerRunOnce
<1>20. CASE ServerResetTerminate
  BY <1>20 DEF ServerResetTerminate
<1>21. CASE ServerTerminate
  BY <1>21 DEF ServerTerminate
<1>22. CASE ChanSwitchInterrupt
  BY <1>22 DEF ChanSwitchInterrupt
<1>23. CASE Ended
  BY <1>23 DEF Ended
<1>24. ASSUME NEW c \in Chan, FreeFinishedConn(c) PROVE MasterInv'
  BY <1>24 DEF FreeFinishedConn, Unlist
<1>25. ASSUME NEW c \in Chan, InterruptTest(c) PROVE MasterInv'
  BY <1>25 DEF InterruptTest, NeedsInterrupt
<1>26. ASSUME NEW c \in Chan, ReadInterrupted(c) PROVE MasterInv'
  BY <1>26 DEF ReadInterrupted, Goto, ThreadOnly
<1>27. ASSUME NEW c \in Chan, CheckRead(c) PROVE MasterInv'
  BY <1>27 DEF CheckRead, Goto, ThreadOnly
<1>28. ASSUME NEW c \in Chan, ProcessRequest(c) PROVE MasterInv'
  BY <1>28 DEF ProcessRequest, Goto, ThreadOnly
<1>29. ASSUME NEW c \in Chan, SetFinished(c) PROVE MasterInv'
  BY <1>29 DEF SetFinished, Goto
<1>30. ASSUME NEW c \in Chan, ThreadDone(c) PROVE MasterInv'
  BY <1>30 DEF ThreadDone, Goto
<1>31. ASSUME NEW c \in Chan, Connect(c) PROVE MasterInv'
  BY <1>31 DEF Connect
<1>32. ASSUME NEW c \in Chan, ReadData(c) PROVE MasterInv'
  BY <1>32 DEF ReadData, Goto, ThreadOnly
<1>33. ASSUME NEW c \in Chan, ReadEnds(c) PROVE MasterInv'
  BY <1>33 DEF ReadEnds, Goto, ThreadOnly
<1>34. ASSUME NEW c \in Chan, WriteResponse(c) PROVE MasterInv'
  BY <1>34 DEF WriteResponse, Goto, ThreadOnly
<1>35. CASE UNCHANGED vars
  BY <1>35
<1>. QED
  BY <1>1, <1>2, <1>3, <1>4, <1>5, <1>6, <1>7, <1>8, <1>9, <1>10, <1>11,
     <1>12, <1>13, <1>14, <1>15, <1>16, <1>17, <1>18, <1>19, <1>20, <1>21,
     <1>22, <1>23, <1>24, <1>25, <1>26, <1>27, <1>28, <1>29, <1>30, <1>31,
     <1>32, <1>33, <1>34, <1>35
  DEF Next, MasterProgress, ThreadProgress

\* A step keeps the count equal to the list's size and within MaxConn.
LEMMA CountPreserved == ASSUME IInv, [Next]_vars PROVE CountInv'
<1>. USE DEF IInv, TypeOK, CountInv, MasterInv, vars, masterVars, listVars,
             termVars, netVars, connVars
<1>1. CASE LoopTest
  BY <1>1 DEF LoopTest, LoopContinues
<1>2. CASE AcceptChannel
  BY <1>2 DEF AcceptChannel
<1>3. CASE AcceptInterrupted
  BY <1>3 DEF AcceptInterrupted, AcceptReturnsNone
<1>4. CASE ConnWaitAndRelease
  BY <1>4 DEF ConnWaitAndRelease, Joined
<1>5. CASE FreeFinishedReturns
  BY <1>5 DEF FreeFinishedReturns
<1>6. CASE CapacityTest
  BY <1>6, MaxConnAssumption DEF CapacityTest, AtCapacity
<1>7. CASE ConnCreate
  BY <1>7 DEF ConnCreate, NewConn
<1>8. CASE AddToOutstandingConnList
  <2>1. Cardinality(outstanding \cup {cur}) = Cardinality(outstanding) + 1
    BY <1>8, OutstandingFinite, FS_AddElement
    DEF AddToOutstandingConnList, Enlist
  <2>. QED
    BY <1>8, <2>1, MaxConnAssumption
    DEF AddToOutstandingConnList, Enlist
<1>9. CASE InterruptChannel
  BY <1>9 DEF InterruptChannel
<1>10. CASE InterruptReturns
  BY <1>10 DEF InterruptReturns
<1>11. CASE DrainTest
  BY <1>11 DEF DrainTest, NoConnections
<1>12. CASE OnceCreate
  BY <1>12 DEF OnceCreate, NewConn
<1>13. CASE OnceReturns
  BY <1>13 DEF OnceReturns
<1>14. CASE AcceptSignalled
  BY <1>14 DEF AcceptSignalled, AcceptReturnsNone
<1>15. CASE AcceptFails
  BY <1>15 DEF AcceptFails
<1>16. CASE ConnCreateFails
  BY <1>16 DEF ConnCreateFails
<1>17. CASE OnceCreateFails
  BY <1>17 DEF OnceCreateFails
<1>18. CASE ServerRun
  BY <1>18, FS_EmptySet, MaxConnAssumption DEF ServerRun
<1>19. CASE ServerRunOnce
  BY <1>19 DEF ServerRunOnce
<1>20. CASE ServerResetTerminate
  BY <1>20 DEF ServerResetTerminate
<1>21. CASE ServerTerminate
  BY <1>21 DEF ServerTerminate
<1>22. CASE ChanSwitchInterrupt
  BY <1>22 DEF ChanSwitchInterrupt
<1>23. CASE Ended
  BY <1>23 DEF Ended
<1>24. ASSUME NEW c \in Chan, FreeFinishedConn(c) PROVE CountInv'
  <2>1. CASE finished[c]
    <3>1. Cardinality(outstanding \ {c}) = Cardinality(outstanding) - 1
      BY <1>24, OutstandingFinite, FS_RemoveElement
      DEF FreeFinishedConn, Unlist
    <3>2. outstanding' = outstanding \ {c} /\ count' = count - 1
      BY <1>24, <2>1 DEF FreeFinishedConn, Unlist
    <3>3. count' < MaxConn
      BY <3>2, MaxConnAssumption
    <3>. QED BY <3>1, <3>2, <3>3, MaxConnAssumption
  <2>2. CASE ~finished[c]
    BY <1>24, <2>2 DEF FreeFinishedConn, Unlist
  <2>. QED BY <2>1, <2>2
<1>25. ASSUME NEW c \in Chan, InterruptTest(c) PROVE CountInv'
  BY <1>25 DEF InterruptTest, NeedsInterrupt
<1>26. ASSUME NEW c \in Chan, ReadInterrupted(c) PROVE CountInv'
  BY <1>26 DEF ReadInterrupted, Goto, ThreadOnly
<1>27. ASSUME NEW c \in Chan, CheckRead(c) PROVE CountInv'
  BY <1>27 DEF CheckRead, Goto, ThreadOnly
<1>28. ASSUME NEW c \in Chan, ProcessRequest(c) PROVE CountInv'
  BY <1>28 DEF ProcessRequest, Goto, ThreadOnly
<1>29. ASSUME NEW c \in Chan, SetFinished(c) PROVE CountInv'
  BY <1>29 DEF SetFinished, Goto
<1>30. ASSUME NEW c \in Chan, ThreadDone(c) PROVE CountInv'
  BY <1>30 DEF ThreadDone, Goto
<1>31. ASSUME NEW c \in Chan, Connect(c) PROVE CountInv'
  BY <1>31 DEF Connect
<1>32. ASSUME NEW c \in Chan, ReadData(c) PROVE CountInv'
  BY <1>32 DEF ReadData, Goto, ThreadOnly
<1>33. ASSUME NEW c \in Chan, ReadEnds(c) PROVE CountInv'
  BY <1>33 DEF ReadEnds, Goto, ThreadOnly
<1>34. ASSUME NEW c \in Chan, WriteResponse(c) PROVE CountInv'
  BY <1>34 DEF WriteResponse, Goto, ThreadOnly
<1>35. CASE UNCHANGED vars
  BY <1>35
<1>. QED
  BY <1>1, <1>2, <1>3, <1>4, <1>5, <1>6, <1>7, <1>8, <1>9, <1>10, <1>11,
     <1>12, <1>13, <1>14, <1>15, <1>16, <1>17, <1>18, <1>19, <1>20, <1>21,
     <1>22, <1>23, <1>24, <1>25, <1>26, <1>27, <1>28, <1>29, <1>30, <1>31,
     <1>32, <1>33, <1>34, <1>35
  DEF Next, MasterProgress, ThreadProgress

-----------------------------------------------------------------------------
(* The invariant, and what it says about the server. *)

\* The state before the server runs satisfies the invariant.
LEMMA InitEstablishes == Init => IInv
<1>. SUFFICES ASSUME Init PROVE IInv
  OBVIOUS
<1>. USE DEF Init
<1>1. TypeOK
  <2>1. pc \in MasterPC /\ thread \in [Chan -> ThreadPC]
    BY DEF MasterPC, ThreadPC
  <2>2. backlog \in Seq(Chan)
    OBVIOUS
  <2>. QED  BY <2>1, <2>2, KeepaliveMaxAssumption DEF TypeOK
<1>2. BacklogInv
  BY DEF BacklogInv
<1>3. StageInv
  BY DEF StageInv, Stage, Running
<1>4. MasterInv
  BY DEF MasterInv, HoldsNew, InHand
<1>5. CountInv
  BY FS_EmptySet, MaxConnAssumption DEF CountInv
<1>. QED  BY <1>1, <1>2, <1>3, <1>4, <1>5 DEF IInv

\* IInv is an invariant of the server.
THEOREM ServerInvariant == Spec => []IInv
<1>1. Init => IInv
  BY InitEstablishes
<1>2. IInv /\ [Next]_vars => IInv'
  BY TypePreserved, BacklogPreserved, StagePreserved, MasterPreserved,
     CountPreserved DEF IInv
<1>. QED  BY <1>1, <1>2, PTL DEF Spec

\* Every variable keeps its type; in particular the list's count never goes
\* below zero.
THEOREM TypeCorrect == Spec => []TypeOK
<1>1. IInv => TypeOK
  BY DEF IInv
<1>. QED  BY <1>1, ServerInvariant, PTL

\* No connection thread outlives its descriptor or its channel.
THEOREM MemorySafe == Spec => []NoUseAfterFree
<1>1. IInv => NoUseAfterFree
  BY DEF IInv, TypeOK, StageInv, Stage, NoUseAfterFree, Running
<1>. QED  BY <1>1, ServerInvariant, PTL

\* The master can find every allocated connection, and its count of them is
\* right.
THEOREM ConnectionsTracked == Spec => []EveryConnectionTracked
<1>1. IInv => EveryConnectionTracked
  BY DEF IInv, CountInv, MasterInv, EveryConnectionTracked
<1>. QED  BY <1>1, ServerInvariant, PTL

\* A connection in hand counts against MaxConn before and after it is listed.
LEMMA RunningBound == IInv => IsFiniteSet(Running) /\ AtMostMaxConn
<1>. SUFFICES ASSUME IInv PROVE IsFiniteSet(Running) /\ AtMostMaxConn
  OBVIOUS
<1>. USE DEF IInv
<1>1. Running \subseteq outstanding \cup InHand
  BY DEF TypeOK, StageInv, Stage, MasterInv, Running
<1>2. /\ IsFiniteSet(outstanding)
      /\ Cardinality(outstanding) \in Nat
      /\ Cardinality(outstanding) <= MaxConn
  BY OutstandingFinite DEF CountInv
<1>3. CASE InHand = {}
  BY <1>1, <1>2, <1>3, FS_Subset, FS_CardinalityType, MaxConnAssumption
  DEF AtMostMaxConn
<1>4. CASE InHand # {}
  <2>1. pc \in {"AddToList", "OnceRun", "Join"}
    BY <1>4 DEF InHand
  <2>2. PICK x : InHand = {x} /\ x \notin outstanding
    BY <2>1 DEF InHand, MasterInv
  <2>3. /\ IsFiniteSet(outstanding \cup {x})
        /\ Cardinality(outstanding \cup {x}) = Cardinality(outstanding) + 1
    BY <1>2, <2>2, FS_AddElement
  <2>4. Cardinality(outstanding) + 1 <= MaxConn
    <3>1. CASE pc = "OnceRun"
      BY <3>1, FS_EmptySet, MaxConnAssumption DEF MasterInv
    <3>2. CASE pc # "OnceRun"
      BY <1>2, <2>1, <3>2, MaxConnAssumption DEF CountInv
    <3>. QED  BY <3>1, <3>2
  <2>5. /\ IsFiniteSet(Running)
        /\ Cardinality(Running) <= Cardinality(outstanding \cup {x})
    BY <1>1, <2>2, <2>3, FS_Subset
  <2>. QED
    BY <1>2, <2>3, <2>4, <2>5, FS_CardinalityType, MaxConnAssumption
    DEF AtMostMaxConn
<1>. QED  BY <1>3, <1>4

\* At most MaxConn threads serve connections at any time.
THEOREM Bounded == Spec => []AtMostMaxConn
<1>1. IInv => AtMostMaxConn
  BY RunningBound
<1>. QED  BY <1>1, ServerInvariant, PTL

\* A call that returns without failing leaves nothing running and nothing
\* allocated.
THEOREM Quiescent == Spec => []QuiescentWhenIdle
<1>1. IInv => QuiescentWhenIdle
  <2>. SUFFICES ASSUME IInv, pc = "Idle"
                PROVE  /\ Running = {}
                       /\ \A c \in Chan : /\ conn[c] \in {"none", "freed"}
                                          /\ chan[c] # "open"
    BY DEF QuiescentWhenIdle
  <2>1. \A c \in Chan : conn[c] # "live"
    BY DEF IInv, MasterInv, InHand
  <2>2. Running = {}
    BY <2>1 DEF IInv, TypeOK, StageInv, Stage, Running
  <2>. QED
    BY <2>1, <2>2 DEF IInv, TypeOK, StageInv, Stage, HoldsNew
<1>. QED  BY <1>1, ServerInvariant, PTL

-----------------------------------------------------------------------------
\* The server implements ConnService.

Served == {c \in Chan : thread[c] = "exited"}

\* A connection begins when its thread starts; AtMostMaxConn holds in the
\* state after as well, so there was room.
LEMMA BeginStep ==
  ASSUME IInv, IInv', NEW c \in Chan,
         thread[c] = "none", thread' = [thread EXCEPT ![c] = "read"],
         pc \in {"Create", "OnceCreate"}, pc' \in {"AddToList", "OnceRun"},
         UNCHANGED terminationRequested
  PROVE  Service!Begin(c)
<1>1. /\ Running' = Running \cup {c}
      /\ c \notin Running
      /\ Served' = Served
      /\ c \notin Served
  BY DEF IInv, TypeOK, Running, Served
<1>2. Cardinality(Running) < MaxConn
  <2>0. AtMostMaxConn'
    BY RunningBound, PTL
  <2>1. IsFiniteSet(Running) /\ Cardinality(Running') <= MaxConn
    BY RunningBound, <2>0 DEF AtMostMaxConn
  <2>2. Cardinality(Running \cup {c}) = Cardinality(Running) + 1
    BY <1>1, <2>1, FS_AddElement
  <2>. QED
    BY <1>1, <2>1, <2>2, FS_CardinalityType, MaxConnAssumption
<1>3. /\ Phase \in {"open", "closing"}
      /\ Phase' = Phase
      /\ MayBegin
      /\ ~MayBegin'
  BY DEF Phase, MayBegin
<1>4. Phase = "open" \/ (Phase = "closing" /\ MayBegin)
  BY <1>3
<1>5. (Phase = "closing" /\ MayBegin)' = FALSE
  BY <1>3
<1>6. Service!Cardinality(Running) = Cardinality(Running)
  BY DEF Service!Cardinality, Cardinality
<1>. QED
  BY <1>1, <1>2, <1>3, <1>4, <1>5, <1>6 DEF Service!Begin, Served

\* A connection ends when its thread exits.
LEMMA EndStep ==
  ASSUME IInv, NEW c \in Running,
         thread' = [thread EXCEPT ![c] = "exited"],
         UNCHANGED <<pc, ret, terminationRequested>>
  PROVE  Service!End(c)
<1>1. Running' = Running \ {c} /\ Served' = Served \cup {c}
  BY DEF IInv, TypeOK, Running, Served
<1>2. UNCHANGED <<Phase, MayBegin>>
  BY DEF Phase, MayBegin
<1>. QED
  BY <1>1, <1>2 DEF Service!End, Served

\* A step that neither begins nor ends a connection, given what it does to
\* the phase and to the last chance to begin one.
PhaseStep ==
    \/ Phase' = Phase /\ MayBegin' = MayBegin
    \/ Phase' = Phase /\ (MayBegin' => Phase = "open")
    \/ Phase = "closed" /\ Phase' \in {"open", "closing"}
    \/ Phase = "open" /\ Phase' = "closing"
    \/ Phase \in {"open", "closing"} /\ Phase' = "closed" /\ Running = {}
    \/ Phase \in {"open", "closing"} /\ Phase' = "failed"

LEMMA PhaseOnly ==
  ASSUME UNCHANGED <<Running, Served>>, PhaseStep
  PROVE  [Service!Next]_Service!vars
<1>. USE DEF Served, Service!Next, Service!vars
<1>1. Phase \in {"closed", "failed", "open", "closing"} /\ MayBegin \in BOOLEAN
      /\ MayBegin' \in BOOLEAN
  BY DEF Phase, MayBegin
<1>2. CASE Phase' = Phase /\ MayBegin' = MayBegin
  BY <1>2
<1>3. CASE Phase' = Phase /\ (MayBegin' => Phase = "open")
  BY <1>1, <1>3 DEF Service!GiveUp
<1>4. CASE Phase = "closed" /\ Phase' \in {"open", "closing"}
  BY <1>1, <1>4 DEF Service!Start
<1>5. CASE Phase = "open" /\ Phase' = "closing"
  BY <1>1, <1>5 DEF Service!Terminate
<1>6. CASE Phase \in {"open", "closing"} /\ Phase' = "closed" /\ Running = {}
  BY <1>6 DEF Service!Stop
<1>7. CASE Phase \in {"open", "closing"} /\ Phase' = "failed"
  BY <1>7 DEF Service!Fail
<1>. QED  BY <1>2, <1>3, <1>4, <1>5, <1>6, <1>7 DEF PhaseStep

\* Where the server's call may return without failing, nothing runs.
LEMMA NothingRuns ==
  ASSUME IInv,
         pc = "OnceAccept" \/ (pc = "Drain" /\ outstanding = {})
           \/ (pc = "OnceRun" /\ thread[cur] = "exited")
  PROVE  Running = {}
<1>1. \A c \in Running : c \in outstanding \cup InHand
  BY DEF IInv, StageInv, Stage, MasterInv, TypeOK, Running
<1>. QED
  BY <1>1 DEF IInv, MasterInv, InHand, Running

\* Every step of the server is a step of the service or leaves it unchanged.
LEMMA ServiceStep == ASSUME IInv, IInv', [Next]_vars
                     PROVE  [Service!Next]_Service!vars
<1>. USE DEF vars, masterVars, listVars, termVars, netVars, connVars
<1>1. CASE LoopTest
  BY <1>1, PhaseOnly
  DEF LoopTest, LoopContinues, Phase, MayBegin, Running, Served, PhaseStep
<1>2. CASE AcceptChannel
  BY <1>2, PhaseOnly
  DEF AcceptChannel, Phase, MayBegin, Running, Served, PhaseStep
<1>3. CASE AcceptInterrupted
  <2>1. UNCHANGED <<Running, Served, terminationRequested>>
    BY <1>3 DEF AcceptInterrupted, Running, Served
  <2>2. CASE pc = "Accept"
    BY <1>3, <2>1, <2>2, PhaseOnly
    DEF AcceptInterrupted, AcceptReturnsNone, Phase, MayBegin, PhaseStep
  <2>3. CASE pc = "OnceAccept"
    <3>1. Running = {}
      BY <2>3, NothingRuns
    <3>2. Phase \in {"open", "closing"} /\ Phase' = "closed"
      BY <1>3, <2>3 DEF AcceptInterrupted, AcceptReturnsNone, Phase
    <3>. QED  BY <2>1, <3>1, <3>2, PhaseOnly DEF PhaseStep
  <2>. QED  BY <1>3, <2>2, <2>3 DEF AcceptInterrupted
<1>4. CASE ConnWaitAndRelease
  BY <1>4, PhaseOnly
  DEF ConnWaitAndRelease, Joined, Phase, MayBegin, Running, Served, PhaseStep
<1>5. CASE FreeFinishedReturns
  BY <1>5, PhaseOnly
  DEF FreeFinishedReturns, Phase, MayBegin, Running, Served,
                        PhaseStep, IInv, TypeOK
<1>6. CASE CapacityTest
  BY <1>6, PhaseOnly
  DEF CapacityTest, AtCapacity, Phase, MayBegin, Running, Served, PhaseStep
<1>7. CASE ConnCreate
  BY <1>7, BeginStep
  DEF ConnCreate, NewConn, IInv, MasterInv, StageInv, Stage, HoldsNew,
      TypeOK, Service!Next
<1>8. CASE AddToOutstandingConnList
  BY <1>8, PhaseOnly
  DEF AddToOutstandingConnList, Enlist, Phase, MayBegin, Running, Served,
      PhaseStep
<1>9. CASE InterruptChannel
  BY <1>9, PhaseOnly
  DEF InterruptChannel, Phase, MayBegin, Running, Served, PhaseStep
<1>10. CASE InterruptReturns
  BY <1>10, PhaseOnly
  DEF InterruptReturns, Phase, MayBegin, Running, Served, PhaseStep
<1>11. CASE DrainTest
  BY <1>11, PhaseOnly, NothingRuns
  DEF DrainTest, NoConnections, Phase, MayBegin, Running, Served, PhaseStep
<1>12. CASE OnceCreate
  BY <1>12, BeginStep
  DEF OnceCreate, NewConn, IInv, MasterInv, StageInv, Stage, HoldsNew,
      TypeOK, Service!Next
<1>13. CASE OnceReturns
  BY <1>13, PhaseOnly, NothingRuns
  DEF OnceReturns, Phase, MayBegin, Running, Served, PhaseStep
<1>14. CASE AcceptSignalled
  <2>1. UNCHANGED <<Running, Served, terminationRequested>>
    BY <1>14 DEF AcceptSignalled, Running, Served
  <2>2. CASE pc = "Accept"
    BY <1>14, <2>1, <2>2, PhaseOnly
    DEF AcceptSignalled, AcceptReturnsNone, Phase, MayBegin, PhaseStep
  <2>3. CASE pc = "OnceAccept"
    <3>1. Running = {}
      BY <2>3, NothingRuns
    <3>2. Phase \in {"open", "closing"} /\ Phase' = "closed"
      BY <1>14, <2>3 DEF AcceptSignalled, AcceptReturnsNone, Phase
    <3>. QED  BY <2>1, <3>1, <3>2, PhaseOnly DEF PhaseStep
  <2>. QED  BY <1>14, <2>2, <2>3 DEF AcceptSignalled
<1>15. CASE AcceptFails
  <2>1. UNCHANGED <<Running, Served, terminationRequested>>
    BY <1>15 DEF AcceptFails, Running, Served
  <2>2. CASE pc = "Accept"
    BY <1>15, <2>1, <2>2, PhaseOnly
    DEF AcceptFails, Phase, MayBegin, PhaseStep
  <2>3. CASE pc = "OnceAccept"
    <3>1. Running = {}
      BY <2>3, NothingRuns
    <3>2. Phase \in {"open", "closing"} /\ Phase' = "closed"
      BY <1>15, <2>3 DEF AcceptFails, Phase
    <3>. QED  BY <2>1, <3>1, <3>2, PhaseOnly DEF PhaseStep
  <2>. QED  BY <1>15, <2>2, <2>3 DEF AcceptFails
<1>16. CASE ConnCreateFails
  BY <1>16, PhaseOnly
  DEF ConnCreateFails, Phase, MayBegin, Running, Served, PhaseStep
<1>17. CASE OnceCreateFails
  BY <1>17, PhaseOnly
  DEF OnceCreateFails, Phase, MayBegin, Running, Served, PhaseStep
<1>18. CASE ServerRun
  BY <1>18, PhaseOnly
  DEF ServerRun, Phase, MayBegin, Running, Served, PhaseStep
<1>19. CASE ServerRunOnce
  BY <1>19, PhaseOnly
  DEF ServerRunOnce, Phase, MayBegin, Running, Served, PhaseStep
<1>20. CASE ServerResetTerminate
  BY <1>20, PhaseOnly
  DEF ServerResetTerminate, Phase, MayBegin, Running, Served, PhaseStep
<1>21. CASE ServerTerminate
  BY <1>21, PhaseOnly
  DEF ServerTerminate, Phase, MayBegin, Running, Served, PhaseStep
<1>22. CASE ChanSwitchInterrupt
  BY <1>22, PhaseOnly
  DEF ChanSwitchInterrupt, Phase, MayBegin, Running, Served, PhaseStep
<1>23. CASE Ended
  BY <1>23, PhaseOnly DEF Ended, Phase, MayBegin, Running, Served, PhaseStep
<1>24. ASSUME NEW c \in Chan, FreeFinishedConn(c)
       PROVE  [Service!Next]_Service!vars
  BY <1>24, PhaseOnly
  DEF FreeFinishedConn, Unlist, Phase, MayBegin, Running, Served, PhaseStep
<1>25. ASSUME NEW c \in Chan, InterruptTest(c)
       PROVE  [Service!Next]_Service!vars
  BY <1>25, PhaseOnly
  DEF InterruptTest, NeedsInterrupt, Phase, MayBegin, Running, Served,
      PhaseStep
<1>26. ASSUME NEW c \in Chan, ReadInterrupted(c)
       PROVE  [Service!Next]_Service!vars
  BY <1>26, PhaseOnly
  DEF ReadInterrupted, Goto, ThreadOnly, Phase, MayBegin, Running, Served,
      PhaseStep, IInv, TypeOK
<1>27. ASSUME NEW c \in Chan, CheckRead(c)
       PROVE  [Service!Next]_Service!vars
  BY <1>27, PhaseOnly
  DEF CheckRead, Goto, ThreadOnly, Phase, MayBegin, Running, Served,
      PhaseStep, IInv, TypeOK
<1>28. ASSUME NEW c \in Chan, ProcessRequest(c)
       PROVE  [Service!Next]_Service!vars
  BY <1>28, PhaseOnly
  DEF ProcessRequest, Goto, ThreadOnly, Phase, MayBegin, Running, Served,
      PhaseStep, IInv, TypeOK
<1>29. ASSUME NEW c \in Chan, SetFinished(c)
       PROVE  [Service!Next]_Service!vars
  <2>1. CASE hasOwnThread[c]
    BY <1>29, <2>1, PhaseOnly
    DEF SetFinished, Goto, Phase, MayBegin, Running, Served, PhaseStep, IInv,
        TypeOK
  <2>2. CASE ~hasOwnThread[c]
    BY <1>29, <2>2, EndStep DEF SetFinished, Goto, Running, Service!Next
  <2>. QED  BY <2>1, <2>2
<1>30. ASSUME NEW c \in Chan, ThreadDone(c)
       PROVE  [Service!Next]_Service!vars
  BY <1>30, EndStep DEF ThreadDone, Goto, Running, Service!Next
<1>31. ASSUME NEW c \in Chan, Connect(c)
       PROVE  [Service!Next]_Service!vars
  BY <1>31, PhaseOnly
  DEF Connect, Phase, MayBegin, Running, Served, PhaseStep
<1>32. ASSUME NEW c \in Chan, ReadData(c)
       PROVE  [Service!Next]_Service!vars
  BY <1>32, PhaseOnly
  DEF ReadData, Goto, ThreadOnly, Phase, MayBegin, Running, Served,
      PhaseStep, IInv, TypeOK
<1>33. ASSUME NEW c \in Chan, ReadEnds(c)
       PROVE  [Service!Next]_Service!vars
  BY <1>33, PhaseOnly
  DEF ReadEnds, Goto, ThreadOnly, Phase, MayBegin, Running, Served,
      PhaseStep, IInv, TypeOK
<1>34. ASSUME NEW c \in Chan, WriteResponse(c)
       PROVE  [Service!Next]_Service!vars
  BY <1>34, PhaseOnly
  DEF WriteResponse, Goto, ThreadOnly, Phase, MayBegin, Running, Served,
      PhaseStep, IInv, TypeOK
<1>35. CASE UNCHANGED vars
  BY <1>35, PhaseOnly DEF Phase, MayBegin, Running, Served, PhaseStep
<1>. QED
  BY <1>1, <1>2, <1>3, <1>4, <1>5, <1>6, <1>7, <1>8, <1>9, <1>10, <1>11,
     <1>12, <1>13, <1>14, <1>15, <1>16, <1>17, <1>18, <1>19, <1>20, <1>21,
     <1>22, <1>23, <1>24, <1>25, <1>26, <1>27, <1>28, <1>29, <1>30, <1>31,
     <1>32, <1>33, <1>34, <1>35
  DEF Next, MasterProgress, ThreadProgress

\* The server implements the service specification.
THEOREM Implements == Spec => ImplementsConnService
<1>1. Init => Service!Init
  BY DEF Init, Service!Init, Phase, MayBegin, Running
<1>2. Spec => []IInv
  BY ServerInvariant
<1>3. IInv /\ IInv' /\ [Next]_vars => [Service!Next]_Service!vars
  BY ServiceStep
<1>. QED
  BY <1>1, <1>2, <1>3, PTL DEF Spec, ImplementsConnService, Service!Spec
=============================================================================
