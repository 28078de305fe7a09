---------------------------- MODULE LayeredStore ----------------------------
(***************************************************************************)
(* What the chain state's stores promise: one map, changed in a piece of    *)
(* work that is kept or dropped as a whole, and written to disk as a whole. *)
(* EvoDB and CoinsCache are shown to implement it.                          *)
(***************************************************************************)
CONSTANTS Keys, Values, Absent

VARIABLES
    work,       \* what a read returns while a block is being processed
    committed,  \* what a read returns between blocks
    stored,     \* what is on disk
    op          \* the operation last called, with its arguments

vars == <<work, committed, stored, op>>

Store == [Keys -> Values \cup {Absent}]

Init ==
    /\ stored \in Store
    /\ committed = stored
    /\ work = stored
    /\ op = <<"other">>

\* A write, or an erasure (v = Absent).
Set(k, v) ==
    /\ op' = <<"set", k, v>>
    /\ work' = [work EXCEPT ![k] = v]
    /\ UNCHANGED <<committed, stored>>

Keep ==
    /\ op' = <<"keep">>
    /\ committed' = work
    /\ UNCHANGED <<work, stored>>

Drop ==
    /\ op' = <<"drop">>
    /\ work' = committed
    /\ UNCHANGED <<committed, stored>>

Persist ==
    /\ op' = <<"persist">>
    /\ work = committed
    /\ stored' = committed
    /\ UNCHANGED <<work, committed>>

Crash ==
    /\ op' = <<"crash">>
    /\ work' = stored
    /\ committed' = stored
    /\ UNCHANGED stored

\* A read, a failed write, the upkeep of a cache: nothing a caller can see.
Other ==
    /\ op' = <<"other">>
    /\ UNCHANGED <<work, committed, stored>>

Next ==
    \/ \E k \in Keys, v \in Values \cup {Absent} : Set(k, v)
    \/ Keep \/ Drop \/ Persist \/ Crash \/ Other

Spec == Init /\ [][Next]_vars

=============================================================================
