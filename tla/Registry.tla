------------------------------ MODULE Registry ------------------------------
(***************************************************************************)
(* The method registry of the XML-RPC server, its system.multicall, and the *)
(* reference counts of the values a call is made of.                        *)
(*                                                                          *)
(* Any number of server threads run xmlrpc_registry_process_call2() on one  *)
(* registry.  What they share is the registry, filled before the service    *)
(* starts, and the values: a method may hand out a value that it keeps      *)
(* ("get"), or keep one that a caller has sent ("put"), so that a value may *)
(* belong to several calls at once.  The methods are the user's: the model  *)
(* has these two, which is what the counts can tell apart, and lets either  *)
(* fail.  A value is made of other values; its text is not modelled.        *)
(*                                                                          *)
(* xmlrpc_DECREF() decrements under the value's lock and destroys after it; *)
(* each thread has a list of the references that remain to be given back,   *)
(* because destroying an array gives back the references to its items.      *)
(* Where the code releases an array that it has not got, the model ends: it *)
(* says nothing of what a program does from then on.                        *)
(***************************************************************************)
EXTENDS Integers, Sequences, FiniteSets

CONSTANTS Threads,      \* the server's threads
          Calls,        \* the calls clients may send
          Programs,     \* programs: what each sets up, in order, before it serves
          Null,         \* no value
          FirstKept,    \* the value the methods keep before the first call
          MaxValues,    \* bound on the values a thread has made that are alive
          MaxCalls,     \* bound on the calls begun
          MaxFailures   \* bound on the allocations that fail

\* A value is known by its place in memory.  Which one malloc() gives out makes
\* no difference, so that each thread makes its values in places of its own.
Values == {FirstKept} \cup (Threads \X (1..MaxValues))

ASSUME BoundsAssumption == MaxValues \in Nat /\ MaxCalls \in Nat /\ MaxFailures \in Nat
ASSUME ValuesAssumption ==
    Null \notin Values /\ FirstKept \notin Threads \X (1..MaxValues)

SystemMethods == {"system.multicall", "system.shutdown"}
UserMethods == {"get", "put"}
Hooks == {"default", "preinvoke", "shutdown"}

\* The names a client may send: any name that nobody registers is like "unknown".
\* A call is one of a method, a multicall with the names in its descriptions (or
\* "malformed" for one that is none), or no proper call.
Names == SystemMethods \cup UserMethods \cup {"unknown", "malformed"}
Shape == [kind : {"bad", "plain", "multi"}, elems : Seq(Names)]

ASSUME CallsAssumption ==
    \A c \in Calls : c \in Shape /\ (c.kind = "plain" => Len(c.elems) = 1)
ASSUME ProgramsAssumption == Programs \subseteq Seq(SystemMethods \cup UserMethods \cup Hooks)

\* What a thread is doing with a call, its variables there, and two histories:
\* the methods run for the elements of a multicall, and the reply.
NoReply == [kind |-> "none", items |-> <<>>]
NoCall == [pc |-> "idle", shape |-> [kind |-> "bad", elems |-> <<>>], i |-> 0, name |-> "",
           args |-> Null, params |-> Null, list |-> Null, results |-> Null,
           result |-> Null, fault |-> FALSE, ran |-> <<>>, reply |-> NoReply]

VARIABLES methods,   \* methodListP: the names registered
          options,   \* the functions set: default method, preinvoke, shutdown
          program,   \* what the program has yet to set up; then it serves
          heap,      \* the live values: reference count, items and a tag
          kept,      \* the value the user's methods keep
          call,      \* each thread's call
          drops,     \* each thread's references still to be given back
          lost,      \* references that nobody will give back any more
          begun,     \* calls begun (bound)
          failures,  \* allocations that failed (bound)
          broken     \* whether an array that is not there has been released

vars == <<methods, options, program, heap, kept, call, drops, lost, begun, failures, broken>>
setup == <<methods, options, program>>

-----------------------------------------------------------------------------
\* Values

Incref(h, v) == [h EXCEPT ![v].refs = @ + 1]

\* Where thread t has n places in a row free: it takes one of these, if there is.
Gaps(t, n) == {b \in 0..MaxValues - n: \A k \in b + 1..b + n: <<t, k>> \notin DOMAIN heap}
Room(t, n) == Gaps(t, n) # {}
Base(t, n) == CHOOSE b \in Gaps(t, n): TRUE

New(items, tag) == [refs |-> 1, items |-> items, tag |-> tag]

\* A new value of thread t, which takes over the references to its items.
Fresh(t) == <<t, Base(t, 1) + 1>>
Alloc(t, h, items, tag) ==
    [v \in DOMAIN h \cup {Fresh(t)} |-> IF v = Fresh(t) THEN New(items, tag) ELSE h[v]]

\* xmlrpc_DECREF(): the count goes down under the lock, and only the thread that
\* sees it reach zero destroys the value, after the lock: destroyValue() first
\* gives back the references to the items.  Nobody else can reach a value
\* whose count is zero, so that its end is one step with the last decrement.
Died(h, v) == h[v].refs = 1

Decref(t) ==
    /\ drops[t] # <<>>
    /\ LET v == Head(drops[t])
       IN IF Died(heap, v)
          THEN /\ heap' = [w \in DOMAIN heap \ {v} |-> heap[w]]
               /\ drops' = [drops EXCEPT ![t] = heap[v].items \o Tail(@)]
          ELSE /\ heap' = [heap EXCEPT ![v].refs = @ - 1]
               /\ drops' = [drops EXCEPT ![t] = Tail(@)]
    /\ UNCHANGED <<setup, kept, call, lost, begun, failures>>

-----------------------------------------------------------------------------
\* Setting up

Init ==
    /\ methods = SystemMethods
    /\ options = {}
    /\ program \in Programs
    /\ kept = FirstKept
    /\ heap = [v \in {FirstKept} |-> New(<<>>, "first")]
    /\ call = [t \in Threads |-> NoCall]
    /\ drops = [t \in Threads |-> <<>>]
    /\ lost = <<>> /\ begun = 0 /\ failures = 0 /\ broken = FALSE

\* registryAddMethod(): a name can be registered once, and the system's names
\* are taken from the start; or there is no memory for the method.
AddMethod ==
    /\ program # <<>>
    /\ Head(program) \notin Hooks
    /\ \/ /\ Head(program) \notin methods
          /\ methods' = methods \cup {Head(program)}
          /\ UNCHANGED failures
       \/ /\ Head(program) \in methods
          /\ UNCHANGED <<methods, failures>>
       \/ /\ failures < MaxFailures
          /\ failures' = failures + 1
          /\ UNCHANGED methods
    /\ program' = Tail(program)
    /\ UNCHANGED <<options, heap, kept, call, drops, lost, begun>>

\* xmlrpc_registry_set_default_method(), ..._preinvoke_method(), ..._shutdown().
SetHook ==
    /\ program # <<>>
    /\ Head(program) \in Hooks
    /\ options' = options \cup {Head(program)}
    /\ program' = Tail(program)
    /\ UNCHANGED <<methods, heap, kept, call, drops, lost, begun, failures>>

-----------------------------------------------------------------------------
\* One call: xmlrpc_registry_process_call2()

Ready(t, pc) == drops[t] = <<>> /\ call[t].pc = pc
Shared == <<setup, kept, lost, begun>>

\* The thread goes on with its variables changed as in c.
Go(t, c) == call' = [call EXCEPT ![t] = c]

\* The values of a parsed call, in places after b: an array of parameters, the
\* last one made.  The parameter of a multicall is the list of descriptions,
\* each a struct that holds the parameters of its own call.
Described(shape) == IF shape.kind = "plain" THEN 0 ELSE Len(shape.elems)
Size(shape) == 3 * Described(shape) + 2

Parsed(t, b, shape) ==
    LET n == Described(shape)
        at(k) == <<t, b + k>>
        described == [e \in 1..n |-> at(2 * n + e)]
    IN [k \in 1..3 * n + 2 |->
           CASE k \in 1..n -> New(<<>>, "sent")
             [] k \in n + 1..2 * n -> New(<<at(k - n)>>, "array")
             [] k \in 2 * n + 1..3 * n ->
                   New(<<at(k - n)>>,
                       IF shape.elems[k - 2 * n] = "malformed" THEN "other" ELSE "call")
             [] k = 3 * n + 1 -> IF shape.kind = "plain" THEN New(<<>>, "sent")
                                                         ELSE New(described, "list")
             [] k = 3 * n + 2 -> New(<<at(3 * n + 1)>>, "array")]

\* The heap with the values of a parsed call.
Received(t, b, shape) ==
    [v \in DOMAIN heap \cup {<<t, b + k>>: k \in 1..Size(shape)} |->
        IF v \in DOMAIN heap THEN heap[v] ELSE Parsed(t, b, shape)[v[2] - b]]

\* The call is parsed; the response block comes first, and without it there is
\* no response.  A call that is no proper call makes a fault.
Begin(t, shape) ==
    /\ program = <<>> /\ begun < MaxCalls
    /\ Ready(t, "idle")
    /\ begun' = begun + 1
    /\ \/ /\ failures < MaxFailures
          /\ failures' = failures + 1
          /\ Go(t, [NoCall EXCEPT !.pc = "over", !.shape = shape, !.reply = [kind |-> "nothing", items |-> <<>>]])
          /\ UNCHANGED heap
       \/ /\ shape.kind = "bad"
          /\ Go(t, [NoCall EXCEPT !.shape = shape, !.fault = TRUE, !.pc = "returned"])
          /\ UNCHANGED <<heap, failures>>
       \/ /\ shape.kind # "bad"
          /\ Room(t, Size(shape))
          /\ LET b == Base(t, Size(shape))
                 p == <<t, b + Size(shape)>>
             IN /\ heap' = Received(t, b, shape)
                /\ Go(t, [NoCall EXCEPT !.shape = shape, !.pc = "dispatch", !.params = p, !.args = p,
                             !.name = IF shape.kind = "plain" THEN shape.elems[1]
                                                              ELSE "system.multicall"])
          /\ UNCHANGED failures
    /\ UNCHANGED <<setup, kept, lost, drops>>

-----------------------------------------------------------------------------
\* xmlrpc_dispatchCall(), for the call itself and for the elements of a multicall

\* The method ends with a value, of which the caller now has a reference.
Returns(t, v) == Go(t, [call[t] EXCEPT !.pc = "returned", !.result = v])

\* The method ends with a fault; the caller gets no value.
Faults(t) == Go(t, [call[t] EXCEPT !.pc = "returned", !.fault = TRUE, !.result = Null])

PreinvokeRefuses(t) ==
    /\ Ready(t, "dispatch")
    /\ "preinvoke" \in options
    /\ Faults(t)
    /\ UNCHANGED <<Shared, heap, drops, failures>>

\* No method of that name and no default method.
NoSuchMethod(t) ==
    /\ Ready(t, "dispatch")
    /\ call[t].name \notin methods
    /\ "default" \notin options
    /\ Faults(t)
    /\ UNCHANGED <<Shared, heap, drops, failures>>

\* The default method, or the user's that makes a value of its own or fails.
CallDefault(t) ==
    /\ Ready(t, "dispatch")
    /\ call[t].name \notin methods
    /\ "default" \in options
    /\ \/ /\ Room(t, 1)
          /\ heap' = Alloc(t, heap, <<>>, "default")
          /\ Returns(t, Fresh(t))
       \/ /\ Faults(t)
          /\ UNCHANGED heap
    /\ UNCHANGED <<Shared, drops, failures>>

\* A user's method that hands out the value it keeps.
CallGet(t) ==
    /\ Ready(t, "dispatch")
    /\ call[t].name = "get" /\ "get" \in methods
    /\ heap' = Incref(heap, kept)
    /\ Returns(t, kept)
    /\ UNCHANGED <<Shared, drops, failures>>

\* A user's method that keeps the caller's parameter in place of what it kept.
CallPut_NoIncref(t) ==
    /\ Ready(t, "dispatch")
    /\ call[t].name = "put" /\ "put" \in methods /\ Room(t, 1)
    /\ heap' = Alloc(t, heap, <<>>, "done")
    /\ kept' = heap[call[t].args].items[1]
    /\ drops' = [drops EXCEPT ![t] = <<kept>>]
    /\ Returns(t, Fresh(t))
    /\ UNCHANGED <<setup, lost, begun, failures>>

CallPut(t) ==
    /\ Ready(t, "dispatch")
    /\ call[t].name = "put" /\ "put" \in methods /\ Room(t, 1)
    /\ LET new == heap[call[t].args].items[1]
       IN /\ heap' = Alloc(t, Incref(heap, new), <<>>, "done")
          /\ kept' = new
    /\ drops' = [drops EXCEPT ![t] = <<kept>>]
    /\ Returns(t, Fresh(t))
    /\ UNCHANGED <<setup, lost, begun, failures>>

CallFails(t) ==
    /\ Ready(t, "dispatch")
    /\ call[t].name \in UserMethods \cap methods
    /\ Faults(t)
    /\ UNCHANGED <<Shared, heap, drops, failures>>

\* system_shutdown(): zero, or a fault when the program cannot be shut down.
CallShutdown(t) ==
    /\ Ready(t, "dispatch")
    /\ call[t].name = "system.shutdown"
    /\ IF "shutdown" \in options
       THEN /\ Room(t, 1)
            /\ heap' = Alloc(t, heap, <<>>, "zero")
            /\ Returns(t, Fresh(t))
       ELSE Faults(t) /\ UNCHANGED heap
    /\ UNCHANGED <<Shared, drops, failures>>

-----------------------------------------------------------------------------
\* system_multicall()

\* The parameter must be an array; the reference to one that is not goes back.
\* When the array of results cannot be made, nobody gives the list back.
CallMulticall(t) ==
    /\ Ready(t, "dispatch")
    /\ call[t].name = "system.multicall"
    /\ LET list == heap[call[t].args].items[1]
       IN \/ /\ heap[list].tag # "list"
             /\ Faults(t)
             /\ UNCHANGED <<heap, lost, failures>>
          \/ /\ heap[list].tag = "list"
             /\ failures < MaxFailures
             /\ failures' = failures + 1
             /\ heap' = Incref(heap, list)
             /\ lost' = Append(lost, list)
             /\ Faults(t)
          \/ /\ heap[list].tag = "list"
             /\ Room(t, 1)
             /\ heap' = Incref(Alloc(t, heap, <<>>, "results"), list)
             /\ Go(t, [call[t] EXCEPT !.pc = "loop", !.i = 1, !.args = Null, !.list = list,
                                      !.results = Fresh(t)])
             /\ UNCHANGED <<lost, failures>>
    /\ UNCHANGED <<setup, kept, begun, drops>>

\* The names an element may not have: a multicall in a multicall is refused.
Forbidden(name) == name = "system.multicall"

InList(t) == call[t].i \in DOMAIN heap[call[t].list].items

\* callOneMethod(): an element that is no description of a call, or a forbidden
\* one, is a fault of the multicall itself.
BadElement(t) ==
    /\ Ready(t, "loop") /\ InList(t)
    /\ \/ heap[heap[call[t].list].items[call[t].i]].tag # "call"
       \/ Forbidden(call[t].shape.elems[call[t].i])
    /\ Go(t, [call[t] EXCEPT !.pc = "end", !.fault = TRUE])
    /\ UNCHANGED <<Shared, heap, drops, failures>>

\* A good element is dispatched with a reference to its parameters.
DispatchElement(t) ==
    /\ Ready(t, "loop") /\ InList(t)
    /\ LET elem == heap[call[t].list].items[call[t].i]
           args == heap[elem].items[1]
           name == call[t].shape.elems[call[t].i]
       IN /\ heap[elem].tag = "call"
          /\ ~Forbidden(name)
          /\ heap' = Incref(heap, args)
          /\ Go(t, [call[t] EXCEPT !.pc = "dispatch", !.name = name, !.args = args])
    /\ UNCHANGED <<Shared, drops, failures>>

\* The element's method has returned: its value in an array of one, or a struct
\* for its fault, is appended to the results, or there is no memory for that: for
\* room in the array of one or in the results, or for the struct.  Either way
\* the references to the value and to the parameters go back.
Outcome(c) == IF c.fault THEN "fault" ELSE heap[c.result].tag

AppendItem_First(items, v) == <<v>> \o items
AppendItem(items, v) == Append(items, v)

AppendResult(t) ==
    /\ Ready(t, "returned") /\ call[t].list # Null
    /\ LET c == call[t]
           done == [c EXCEPT !.args = Null, !.result = Null, !.fault = FALSE,
                             !.ran = Append(@, [name |-> c.name, outcome |-> Outcome(c)])]
           held == IF c.fault THEN <<>> ELSE <<c.result>>
           built == Alloc(t, IF c.fault THEN heap ELSE Incref(heap, c.result), held,
                          IF c.fault THEN "fault" ELSE "array")
       IN \/ /\ Room(t, 1)
             /\ heap' = [built EXCEPT ![c.results].items = AppendItem(@, Fresh(t))]
             /\ Go(t, [done EXCEPT !.pc = "loop", !.i = @ + 1])
             /\ drops' = [drops EXCEPT ![t] = held \o <<c.args>>]
             /\ UNCHANGED failures
          \/ /\ failures < MaxFailures
             /\ failures' = failures + 1
             /\ Go(t, [done EXCEPT !.pc = "end", !.fault = TRUE])
             /\ drops' = [drops EXCEPT ![t] = held \o <<c.args>>]
             /\ UNCHANGED heap
    /\ UNCHANGED Shared

\* There is no memory for the array of one itself: getArray() releases it all
\* the same, a null pointer or, if it was its room that could not be had, a
\* value that has just been freed.
ArrayNotMade(t) ==
    /\ Ready(t, "returned") /\ call[t].list # Null /\ ~call[t].fault
    /\ failures < MaxFailures
    /\ failures' = failures + 1
    /\ broken' = TRUE
    /\ UNCHANGED <<Shared, heap, call, drops>>

\* Every element has been called, or one has ended the loop: then the results
\* that there are go back.
NotReturned_List(c) == <<c.list>>
NotReturned(c) == (IF c.fault THEN <<c.results>> ELSE <<>>) \o <<c.list>>

EndMulticall(t) ==
    /\ (Ready(t, "loop") /\ ~InList(t)) \/ Ready(t, "end")
    /\ LET c == call[t]
       IN /\ drops' = [drops EXCEPT ![t] = NotReturned(c)]
          /\ Go(t, [c EXCEPT !.pc = "returned", !.list = Null, !.results = Null,
                             !.result = IF c.fault THEN Null ELSE c.results])
    /\ UNCHANGED <<Shared, heap, failures>>

-----------------------------------------------------------------------------
\* The response

\* What the client reads in the result.
Text(v) ==
    IF heap[v].tag = "results"
    THEN [k \in DOMAIN heap[v].items |->
             LET w == heap[v].items[k]
             IN IF heap[w].tag = "fault" THEN "fault" ELSE heap[heap[w].items[1]].tag]
    ELSE <<heap[v].tag>>

\* The result or the fault is written, and the values go back; when the
\* writing fails the client gets no response from here.
Respond(t) ==
    /\ Ready(t, "returned") /\ call[t].list = Null
    /\ LET c == call[t]
           reply == IF c.fault THEN [kind |-> "fault", items |-> <<>>]
                               ELSE [kind |-> "result", items |-> Text(c.result)]
       IN /\ \/ /\ Go(t, [NoCall EXCEPT !.pc = "over", !.shape = c.shape, !.ran = c.ran, !.reply = reply])
                /\ UNCHANGED failures
             \/ /\ failures < MaxFailures
                /\ failures' = failures + 1
                /\ Go(t, [NoCall EXCEPT !.pc = "over", !.shape = c.shape, !.ran = c.ran,
                             !.reply = [kind |-> "nothing", items |-> <<>>]])
          /\ drops' = [drops EXCEPT ![t] =
                (IF c.fault THEN <<>> ELSE <<c.result>>)
                \o (IF c.params = Null THEN <<>> ELSE <<c.params>>)]
    /\ UNCHANGED <<Shared, heap>>

\* The references are given back, and the server has the response.
Finish(t) ==
    /\ Ready(t, "over")
    /\ Go(t, NoCall)
    /\ UNCHANGED <<Shared, heap, drops, failures>>

-----------------------------------------------------------------------------
Step(t) ==
    \/ Decref(t)
    \/ PreinvokeRefuses(t) \/ NoSuchMethod(t) \/ CallDefault(t)
    \/ CallGet(t) \/ CallPut(t) \/ CallFails(t) \/ CallShutdown(t) \/ CallMulticall(t)
    \/ BadElement(t) \/ DispatchElement(t) \/ AppendResult(t) \/ EndMulticall(t)
    \/ Respond(t) \/ Finish(t)

Serve ==
    \/ AddMethod \/ SetHook
    \/ \E t \in Threads: (\E c \in Calls: Begin(t, c)) \/ Step(t)

Next ==
    /\ ~broken
    /\ \/ Serve /\ UNCHANGED broken
       \/ \E t \in Threads: ArrayNotMade(t)

Spec == Init /\ [][Next]_vars

-----------------------------------------------------------------------------
\* Properties

\* The references there are: of the threads' variables, those they have still
\* to give back, of other values, of the user's methods, and of nobody.
References ==
    (UNION {{<<"params", t, 0, call[t].params>>, <<"list", t, 0, call[t].list>>,
             <<"results", t, 0, call[t].results>>, <<"result", t, 0, call[t].result>>,
             <<"args", t, 0, IF call[t].list = Null THEN Null ELSE call[t].args>>}: t \in Threads})
    \cup (UNION {{<<"drop", t, k, drops[t][k]>>: k \in DOMAIN drops[t]}: t \in Threads})
    \cup (UNION {{<<"item", w, k, heap[w].items[k]>>: k \in DOMAIN heap[w].items}: w \in DOMAIN heap})
    \cup {<<"kept", Null, 0, kept>>} \cup {<<"lost", Null, k, lost[k]>>: k \in DOMAIN lost}

Tags == {"first", "sent", "array", "call", "other", "list", "done", "default", "zero",
         "results", "fault"}
ValueType == [refs : Nat \ {0}, items : Seq(Values), tag : Tags]

CallType ==
    [pc : {"idle", "dispatch", "returned", "loop", "end", "over"}, shape : Shape,
     i : Nat, name : Names \cup {""}, args : Values \cup {Null}, params : Values \cup {Null},
     list : Values \cup {Null}, results : Values \cup {Null}, result : Values \cup {Null},
     fault : BOOLEAN, ran : Seq([name : Names, outcome : Tags]),
     reply : [kind : {"none", "nothing", "fault", "result"}, items : Seq(Tags)]]

\* The types of what the threads share and of their calls.
Typed ==
    /\ methods \subseteq SystemMethods \cup UserMethods
    /\ options \subseteq Hooks
    /\ program \in Seq(SystemMethods \cup UserMethods \cup Hooks)
    /\ DOMAIN heap \subseteq Values
    /\ heap \in [DOMAIN heap -> ValueType]
    /\ kept \in DOMAIN heap
    /\ call \in [Threads -> CallType]
    /\ drops \in [Threads -> Seq(Values)]
    /\ lost \in Seq(Values)
    /\ begun \in 0..MaxCalls /\ failures \in 0..MaxFailures

\* TypeOK: the variables have the values the code gives them; a live value has
\* a count above zero, and the value that the methods keep is alive.
TypeOK == Typed /\ broken \in BOOLEAN

\* ValuesCounted: the count of every value is the number of references to it,
\* in every interleaving and after every failure, up to the release of an array
\* that could not be made.  So no value is destroyed while a thread, a method or
\* another value still refers to it, and none outlives the last reference --
\* except the list of a multicall whose array of results could not be made,
\* which stays counted for ever; and each list so lost has cost a failed
\* allocation: without one nothing is lost (xmlrpc_INCREF(), xmlrpc_DECREF() and
\* their callers).
ValuesCounted ==
    LET references == {r \in References: r[4] # Null}
    IN /\ \A v \in DOMAIN heap: heap[v].refs = Cardinality({r \in references: r[4] = v})
       /\ \A r \in references: r[4] \in DOMAIN heap
       /\ Len(lost) <= failures

\* MulticallIsItsCalls: the response to a multicall has, in the order of the
\* list, what each of its calls returned when it was run, once each; a
\* multicall that ends with a fault or with no response has run a prefix of its list, and
\* never a multicall (system_multicall(), callOneMethod()).
MulticallIsItsCalls ==
    \A t \in Threads:
       LET c == call[t]
           names == [k \in DOMAIN c.ran |-> c.ran[k].name]
       IN c.shape.kind = "multi" =>
          /\ Len(names) <= Len(c.shape.elems)
          /\ names = SubSeq(c.shape.elems, 1, Len(names))
          /\ \A k \in DOMAIN names: names[k] # "system.multicall"
          /\ c.reply.kind = "result" =>
                /\ names = c.shape.elems
                /\ c.reply.items = [k \in DOMAIN c.ran |-> c.ran[k].outcome]
=============================================================================
