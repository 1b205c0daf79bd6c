----------------------------- MODULE MCRegistry -----------------------------
EXTENDS Registry, TLC

Plain(m) == [kind |-> "plain", elems |-> <<m>>]
Multi(ms) == [kind |-> "multi", elems |-> ms]

MCCalls == {[kind |-> "bad", elems |-> <<>>], Plain("get"),
            Plain("system.multicall"), Multi(<<"put", "get">>),
            Multi(<<"system.shutdown", "malformed">>), Multi(<<"system.multicall">>)}

MCPrograms == {<<"get", "put", "shutdown", "preinvoke">>, <<"put", "default", "put">>}

Symmetry == Permutations(Threads)
=============================================================================
