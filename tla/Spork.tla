-------------------------------- MODULE Spork --------------------------------
(***************************************************************************)
(* CSporkManager (src/spork.cpp): the signed network switches of one node. *)
(*                                                                         *)
(* A spork message carries an id, a value, the time it was signed and the  *)
(* key that signed it.  The node keeps the latest message of every         *)
(* configured signer for every id, and a value is in force when            *)
(* nMinSporkKeys signers currently vote for it.  Three kinds of threads    *)
(* meet here: the message handler (ProcessSpork, two critical sections),   *)
(* RPC workers (UpdateSpork, clock read before the lock) and everyone who  *)
(* asks IsSporkActive (three steps, each under a different lock).          *)
(*                                                                         *)
(* A message hash is the message itself, and a recoverable signature is    *)
(* the "signer" field; forged signatures recover to a key outside the      *)
(* configured set, which is what Signers \ keys stands for.                *)
(***************************************************************************)
EXTENDS Integers, FiniteSets

CONSTANTS
    SporkIds,      \* spork identifiers that occur in messages
    sporkDefs,     \* default value of every id; -1 for an id with no definition
    Signers,       \* keys that may have signed a message
    Values,        \* values signers choose from
    Configs,       \* command lines: [keys, min, priv], -sporkaddr, -minsporkkeys, -sporkkey
    NoKey,         \* no -sporkkey
    NoValue,       \* std::nullopt
    Askers,       \* threads that call IsSporkActive
    MaxClock,       \* bound on the clock
    FutureLimit,   \* the two hours of ProcessSpork, in clock units
    MaxMsgs        \* bound on the number of messages ever signed

ClockTimes == 0..MaxClock
Msg == [id : SporkIds, value : Values, time : ClockTimes, signer : Signers]

ASSUME SporkAssumption ==
    /\ Values \subseteq Int
    /\ sporkDefs \in [SporkIds -> Int]
    /\ NoValue \notin Int
    /\ NoKey \notin Signers
    /\ MaxClock \in Nat /\ FutureLimit \in Nat
    /\ IsFiniteSet(Signers)
    /\ Configs \subseteq [keys : SUBSET Signers, min : Nat, priv : Signers \cup {NoKey}]

VARIABLES
    clock,                    \* GetAdjustedTime()
    net,                    \* every message signed so far: may be delivered late, twice, never
    up,                     \* the process runs
    cfg,                    \* setSporkPubKeyIDs, nMinSporkKeys, sporkPrivKey
    mapSporksByHash,        \* every message stored
    mapSporksActive,        \* the message held for each (id, signer)
    mapSporksCachedActive,  \* ids cached as active; only TRUE is ever cached
    mapSporksCachedValues,  \* value cached for an id, or NoValue
    handling,               \* message handler between the two sections of ProcessSpork
    rpc,                    \* UpdateSpork calls between GetAdjustedTime() and LOCK(cs)
    asking,                 \* progress of every IsSporkActive call
    sporksDat               \* sporks.dat: [byHash, active]

sporkVars == <<clock, net, up, cfg, mapSporksByHash, mapSporksActive, mapSporksCachedActive,
          mapSporksCachedValues, handling, rpc, asking, sporksDat>>

store == <<mapSporksByHash, mapSporksActive>>
caches == <<mapSporksCachedActive, mapSporksCachedValues>>
threads == <<handling, rpc, asking>>

\* The members of a CSporkManager before init.cpp sets them.
Unconfigured == [keys |-> {}, min |-> 2147483647, priv |-> NoKey]

Idle == [pc |-> "idle"]
AskState ==
    {Idle} \cup [pc : {"missed"}, id : SporkIds]
           \cup [pc : {"got"}, id : SporkIds, val : Int]

-----------------------------------------------------------------------------
(* Operators *)

\* The signers whose message held in S votes for value v of id.
Voters(S, id, v) == {s \in Signers : \E m \in S : m.id = id /\ m.signer = s /\ m.value = v}

\* mapSporksActive[id][signer] = m
Put(S, m) == {x \in S : ~(x.id = m.id /\ x.signer = m.signer)} \cup {m}

\* The value nMinSporkKeys signers agree on, counted from scratch.
Winners(S, c, id) == {v \in Values : Cardinality(Voters(S, id, v)) >= c.min}
CountedValue(S, c, id) ==
    IF Winners(S, c, id) = {} THEN NoValue ELSE CHOOSE v \in Winners(S, c, id) : TRUE

SporkValueIfActive(id) ==
    CASE ~ \E m \in mapSporksActive : m.id = id -> NoValue
      [] (\E m \in mapSporksActive : m.id = id) /\ mapSporksCachedValues[id] # NoValue
            -> mapSporksCachedValues[id]
      [] OTHER -> CountedValue(mapSporksActive, cfg, id)

ValueOrDefault(id, v) == IF v = NoValue THEN sporkDefs[id] ELSE v

\* What GetSporkValue answers, and the cache entry it leaves behind.
GetSporkValue(id) == ValueOrDefault(id, SporkValueIfActive(id))
FillCachedValue(id) ==
    IF \E m \in mapSporksActive : m.id = id
    THEN [mapSporksCachedValues EXCEPT ![id] = SporkValueIfActive(id)]
    ELSE mapSporksCachedValues

\* GetSignerKeyID() succeeded and the key is one of setSporkPubKeyIDs.
KnownSigner(m) == m.signer \in cfg.keys
\* Mutant: the signing time must be strictly in the past.
MutantStrictlyPast(m) == m.time >= clock

TooFarInFuture(m) == m.time > clock + FutureLimit
\* Mutant: only an exact duplicate counts as seen.
MutantSeenExact(m) == m \in mapSporksActive

\* The "seen" early return: the message held is at least as recent.
Seen(m) == \E x \in mapSporksActive : x.id = m.id /\ x.signer = m.signer /\ x.time >= m.time

\* Mutant: the value cache survives a new message.
MutantKeepCache(m) ==
    /\ mapSporksByHash' = mapSporksByHash \cup {m}
    /\ mapSporksActive' = Put(mapSporksActive, m)
    /\ mapSporksCachedActive' = mapSporksCachedActive \ {m.id}
    /\ UNCHANGED mapSporksCachedValues

\* Both handlers end with the same section under cs.
StoreAndInvalidate(m) ==
    /\ mapSporksByHash' = mapSporksByHash \cup {m}
    /\ mapSporksActive' = Put(mapSporksActive, m)
    /\ mapSporksCachedActive' = mapSporksCachedActive \ {m.id}
    /\ mapSporksCachedValues' = [mapSporksCachedValues EXCEPT ![m.id] = NoValue]

\* Mutant: half of the keys is enough.
MutantHalfIsEnough(c) ==
    /\ c.min >= Cardinality(c.keys) \div 2
    /\ c.min <= Cardinality(c.keys)
    /\ c.priv \in c.keys \cup {NoKey}

ValidConfig(c) ==
    /\ c.min > Cardinality(c.keys) \div 2
    /\ c.min <= Cardinality(c.keys)
    /\ c.priv \in c.keys \cup {NoKey}

CheckAndRemove(S, c) == {m \in S : m.signer \in c.keys}

NoCachedValues == [id \in SporkIds |-> NoValue]
NotAsking == [r \in Askers |-> Idle]

-----------------------------------------------------------------------------
SporkInit ==
    /\ clock = 0
    /\ net = {}
    /\ up = FALSE
    /\ cfg = Unconfigured
    /\ mapSporksByHash = {} /\ mapSporksActive = {}
    /\ mapSporksCachedActive = {} /\ mapSporksCachedValues = NoCachedValues
    /\ handling = {} /\ rpc = {} /\ asking = NotAsking
    /\ sporksDat = [byHash |-> {}, active |-> {}]

(* Environment *)

SporkTick ==
    /\ clock < MaxClock
    /\ clock' = clock + 1
    /\ UNCHANGED <<net, up, cfg, store, caches, threads, sporksDat>>

\* A key holder elsewhere signs a message; its clock is its own.
EnvSign(m) ==
    /\ Cardinality(net) < MaxMsgs
    /\ net' = net \cup {m}
    /\ UNCHANGED <<clock, up, cfg, store, caches, threads, sporksDat>>

(* ProcessSpork: the checks, then LOCK(cs) is released and taken again *)

ProcessSpork(m) ==
    /\ up /\ handling = {}
    /\ m \in net
    /\ ~TooFarInFuture(m) /\ KnownSigner(m) /\ ~Seen(m)
    /\ handling' = {m}
    /\ UNCHANGED <<clock, net, up, cfg, store, caches, rpc, asking, sporksDat>>

ProcessSporkStore(m) ==
    /\ m \in handling
    /\ StoreAndInvalidate(m)
    /\ handling' = {}
    /\ UNCHANGED <<clock, net, up, cfg, rpc, asking, sporksDat>>

(* UpdateSpork: the clock is read before LOCK(cs) *)

UpdateSpork(id, v) ==
    /\ up /\ cfg.priv # NoKey
    /\ Cardinality(net) + Cardinality(rpc) < MaxMsgs
    /\ rpc' = rpc \cup {[id |-> id, value |-> v, time |-> clock, signer |-> cfg.priv]}
    /\ UNCHANGED <<clock, net, up, cfg, store, caches, handling, asking, sporksDat>>

UpdateSporkStore(m) ==
    /\ m \in rpc
    /\ StoreAndInvalidate(m)
    /\ net' = net \cup {m}
    /\ rpc' = rpc \ {m}
    /\ UNCHANGED <<clock, up, cfg, handling, asking, sporksDat>>

(* IsSporkActive: cache lookup, GetSporkValue, cache write *)

IsSporkActiveMiss(r, id) ==
    /\ up /\ asking[r] = Idle
    /\ id \notin mapSporksCachedActive
    /\ asking' = [asking EXCEPT ![r] = [pc |-> "missed", id |-> id]]
    /\ UNCHANGED <<clock, net, up, cfg, store, caches, handling, rpc, sporksDat>>

IsSporkActiveGet(r) ==
    /\ asking[r].pc = "missed"
    /\ LET id == asking[r].id
       IN  /\ asking' = [asking EXCEPT ![r] = [pc |-> "got", id |-> id, val |-> GetSporkValue(id)]]
           /\ mapSporksCachedValues' = FillCachedValue(id)
    /\ UNCHANGED <<clock, net, up, cfg, store, mapSporksCachedActive, handling, rpc, sporksDat>>

IsSporkActiveReturn(r) ==
    /\ asking[r].pc = "got"
    /\ mapSporksCachedActive' = IF asking[r].val < clock
                                THEN mapSporksCachedActive \cup {asking[r].id}
                                ELSE mapSporksCachedActive
    /\ asking' = [asking EXCEPT ![r] = Idle]
    /\ UNCHANGED <<clock, net, up, cfg, store, mapSporksCachedValues, handling, rpc, sporksDat>>

(* Process life cycle *)

\* init.cpp: configure the keys, then load sporks.dat and drop foreign signers.
Start(c) ==
    /\ ~up /\ ValidConfig(c)
    /\ up' = TRUE
    /\ cfg' = c
    /\ mapSporksByHash' = CheckAndRemove(sporksDat.byHash, c)
    /\ mapSporksActive' = CheckAndRemove(sporksDat.active, c)
    /\ UNCHANGED <<clock, net, caches, threads, sporksDat>>

ForgetMemory ==
    /\ up' = FALSE
    /\ cfg' = Unconfigured
    /\ mapSporksByHash' = {} /\ mapSporksActive' = {}
    /\ mapSporksCachedActive' = {} /\ mapSporksCachedValues' = NoCachedValues
    /\ handling' = {} /\ rpc' = {} /\ asking' = NotAsking

\* PrepareShutdown joins the threads, then dumps sporks.dat.
Shutdown ==
    /\ up
    /\ handling = {} /\ rpc = {} /\ asking = NotAsking
    /\ sporksDat' = [byHash |-> mapSporksByHash, active |-> mapSporksActive]
    /\ ForgetMemory
    /\ UNCHANGED <<clock, net>>

SporkCrash ==
    /\ up
    /\ ForgetMemory
    /\ UNCHANGED <<clock, net, sporksDat>>

SporkNext ==
    \/ SporkTick
    \/ \E m \in Msg : EnvSign(m)
    \/ \E m \in net : ProcessSpork(m)
    \/ \E m \in handling : ProcessSporkStore(m)
    \/ \E id \in SporkIds, v \in Values : UpdateSpork(id, v)
    \/ \E m \in rpc : UpdateSporkStore(m)
    \/ \E r \in Askers, id \in SporkIds : IsSporkActiveMiss(r, id)
    \/ \E r \in Askers : IsSporkActiveGet(r)
    \/ \E r \in Askers : IsSporkActiveReturn(r)
    \/ \E c \in Configs : Start(c)
    \/ Shutdown
    \/ SporkCrash

SporkSpec == SporkInit /\ [][SporkNext]_sporkVars

(* Time passes, the message handler is one loop that keeps working on the  *)
(* queue of a peer that keeps announcing, and no thread stops inside a     *)
(* critical section.                                                       *)
SporkFairness ==
    /\ WF_sporkVars(SporkTick)
    /\ \A m \in Msg : SF_sporkVars(ProcessSpork(m))
    /\ WF_sporkVars(\E m \in handling : ProcessSporkStore(m))

SporkFairSpec == SporkSpec /\ SporkFairness

-----------------------------------------------------------------------------
(* Properties *)

\* Type invariant; a reader never carries a value that is not an integer, because
\* GetSporkValue falls back on sporkDefs.
SporkTypeOK ==
    /\ clock \in ClockTimes
    /\ net \subseteq Msg
    /\ up \in BOOLEAN
    /\ cfg \in Configs \cup {Unconfigured}
    /\ mapSporksByHash \subseteq Msg /\ mapSporksActive \subseteq Msg
    /\ mapSporksCachedActive \subseteq SporkIds
    /\ mapSporksCachedValues \in [SporkIds -> Values \cup {NoValue}]
    /\ handling \subseteq Msg /\ rpc \subseteq Msg
    /\ asking \in [Askers -> AskState]
    /\ sporksDat \in [byHash : SUBSET Msg, active : SUBSET Msg]

\* The value cache never disagrees with a fresh count (mapSporksCachedValues is
\* written and erased under cs, together with the messages it summarises).
CachedValueFresh ==
    \A id \in SporkIds :
        mapSporksCachedValues[id] # NoValue =>
            mapSporksCachedValues[id] = CountedValue(mapSporksActive, cfg, id)

\* A value other than the default is in force only while at least nMinSporkKeys
\* of the configured keys have signed it, and no second value can have that many:
\* across restarts with another -sporkaddr list, stale caches and replayed messages.
ThresholdSafety ==
    up => \A id \in SporkIds :
        LET v == SporkValueIfActive(id)
            Signed(w) == {s \in cfg.keys : \E m \in net : m.id = id /\ m.signer = s /\ m.value = w}
        IN  v # NoValue =>
                /\ Cardinality(Signed(v)) >= cfg.min
                /\ \A w \in Values \ {v} : Cardinality(Voters(mapSporksActive, id, w)) < cfg.min

\* Signers whose key this node never held: their messages arrive only through ProcessSpork.
RemoteSigners == Signers \ {c.priv : c \in Configs}

\* Whatever the order of delivery, duplicates, crashes and restarts, the message
\* held for a remote signer is the newest one of that signer ever stored
\* (the nTimeSigned test is made in one critical section, the store in the next).
LatestWins ==
    \A x \in mapSporksActive : \A y \in mapSporksByHash :
        (x.signer \in RemoteSigners /\ y.id = x.id /\ y.signer = x.signer) => y.time <= x.time

\* Every message of a configured signer is eventually superseded or held, unless
\* the process stops: ProcessSpork loses nothing to its own early returns.
MessageTakesEffect ==
    \A m \in Msg :
        (up /\ m \in net /\ KnownSigner(m)) ~> (~up \/ Seen(m))

\* "Clear cached values on new spork being processed" (spork.cpp:173): an id is
\* cached as active only if its current value says so.
CachedActiveFresh ==
    up => \A id \in mapSporksCachedActive : GetSporkValue(id) < clock

-----------------------------------------------------------------------------
(* The inductive invariant behind the safety properties *)

\* A pair of maps as the code keeps it: at most one active message per (id, signer),
\* indexed by hash, really signed, and the newest of its signer unless the key is ours.
WellFormed(byHash, active) ==
    /\ active \subseteq byHash /\ byHash \subseteq net
    /\ \A x, y \in active : (x.id = y.id /\ x.signer = y.signer) => x = y
    /\ \A y \in byHash : \E x \in active : x.id = y.id /\ x.signer = y.signer
    /\ \A x \in active : \A y \in byHash :
          (x.signer \in RemoteSigners /\ y.id = x.id /\ y.signer = x.signer) => y.time <= x.time

\* What the threads carry from one critical section to the next is still good.
ThreadsConsistent ==
    /\ handling \subseteq net
    /\ \A m \in handling :
          /\ m.signer \in cfg.keys
          /\ \A x \in mapSporksActive :
                (m.signer \in RemoteSigners /\ x.id = m.id /\ x.signer = m.signer) => x.time < m.time
    /\ \A m \in rpc : m.signer = cfg.priv /\ cfg.priv \in cfg.keys

SporkInv ==
    /\ SporkTypeOK
    /\ WellFormed(mapSporksByHash, mapSporksActive)
    /\ WellFormed(sporksDat.byHash, sporksDat.active)
    /\ \A m \in mapSporksByHash : m.signer \in cfg.keys
    /\ ThreadsConsistent
    /\ up => cfg \in Configs /\ ValidConfig(cfg)
    /\ ~up => handling = {} /\ rpc = {} /\ asking = NotAsking /\ mapSporksCachedValues = NoCachedValues
    /\ CachedValueFresh
=============================================================================
