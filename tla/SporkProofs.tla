----------------------------- MODULE SporkProofs -----------------------------
(***************************************************************************)
(* Proofs about CSporkManager for any number of ids, signers, values,      *)
(* configurations, readers and messages.  SporkInv (Spork.tla) is the      *)
(* inductive invariant; the safety properties are its consequences.        *)
(***************************************************************************)
EXTENDS Spork, FiniteSetTheorems, TLAPS

\* SporkValueIfActive returns a signed value or nothing.
LEMMA SporkValueType ==
    ASSUME SporkTypeOK, NEW id \in SporkIds
    PROVE  /\ SporkValueIfActive(id) \in Values \cup {NoValue}
           /\ GetSporkValue(id) \in Int
           /\ FillCachedValue(id) \in [SporkIds -> Values \cup {NoValue}]
<1>1. CountedValue(mapSporksActive, cfg, id) \in Values \cup {NoValue}
  BY DEF CountedValue, Winners
<1>2. SporkValueIfActive(id) \in Values \cup {NoValue}
  BY <1>1 DEF SporkValueIfActive, SporkTypeOK
<1>3. GetSporkValue(id) \in Int
  BY <1>2, SporkAssumption DEF GetSporkValue, ValueOrDefault
<1>4. QED
  BY <1>2, <1>3 DEF FillCachedValue, SporkTypeOK

\* StoreAndInvalidate keeps the types.
LEMMA StoreType ==
    ASSUME SporkTypeOK, NEW m \in Msg, StoreAndInvalidate(m)
    PROVE  /\ mapSporksByHash' \subseteq Msg /\ mapSporksActive' \subseteq Msg
           /\ mapSporksCachedActive' \subseteq SporkIds
           /\ mapSporksCachedValues' \in [SporkIds -> Values \cup {NoValue}]
BY DEF SporkTypeOK, StoreAndInvalidate, Put, Msg

\* ForgetMemory leaves the state of a process that has not started.
LEMMA ForgetType ==
    ASSUME ForgetMemory
    PROVE  /\ up' \in BOOLEAN /\ cfg' \in Configs \cup {Unconfigured}
           /\ mapSporksByHash' \subseteq Msg /\ mapSporksActive' \subseteq Msg
           /\ mapSporksCachedActive' \subseteq SporkIds
           /\ mapSporksCachedValues' \in [SporkIds -> Values \cup {NoValue}]
           /\ handling' \subseteq Msg /\ rpc' \subseteq Msg
           /\ asking' \in [Askers -> AskState]
BY DEF ForgetMemory, NoCachedValues, NotAsking, AskState

\* A reader that is between its first two steps knows its id.
LEMMA ReaderFields ==
    ASSUME SporkTypeOK, NEW r \in Askers
    PROVE  /\ asking[r].pc = "missed" => asking[r].id \in SporkIds
           /\ asking[r].pc = "got" => asking[r].id \in SporkIds /\ asking[r].val \in Int
BY DEF SporkTypeOK, AskState, Idle

\* Every step of every thread keeps the types.
LEMMA TypeStep == SporkTypeOK /\ [SporkNext]_sporkVars => SporkTypeOK'
<1> SUFFICES ASSUME SporkTypeOK, [SporkNext]_sporkVars PROVE SporkTypeOK'
  OBVIOUS
<1> USE SporkAssumption
<1>1. CASE SporkTick
  BY <1>1 DEF SporkTypeOK, SporkTick, ClockTimes, store, caches, threads
<1>2. ASSUME NEW m \in Msg, EnvSign(m) PROVE SporkTypeOK'
  BY <1>2 DEF SporkTypeOK, EnvSign, store, caches, threads
<1>3. ASSUME NEW m \in net, ProcessSpork(m) PROVE SporkTypeOK'
  BY <1>3 DEF SporkTypeOK, ProcessSpork, store, caches
<1>4. ASSUME NEW m \in handling, ProcessSporkStore(m) PROVE SporkTypeOK'
  <2>1. m \in Msg
    BY DEF SporkTypeOK
  <2>2. QED
    BY <1>4, <2>1, StoreType DEF SporkTypeOK, ProcessSporkStore
<1>5. ASSUME NEW id \in SporkIds, NEW v \in Values, UpdateSpork(id, v) PROVE SporkTypeOK'
  <2>1. cfg.priv \in Signers
    BY <1>5 DEF SporkTypeOK, UpdateSpork, Unconfigured
  <2>2. [id |-> id, value |-> v, time |-> clock, signer |-> cfg.priv] \in Msg
    BY <2>1 DEF SporkTypeOK, Msg
  <2>3. QED
    BY <1>5, <2>2 DEF SporkTypeOK, UpdateSpork, store, caches
<1>6. ASSUME NEW m \in rpc, UpdateSporkStore(m) PROVE SporkTypeOK'
  <2>1. m \in Msg
    BY DEF SporkTypeOK
  <2>2. QED
    BY <1>6, <2>1, StoreType DEF SporkTypeOK, UpdateSporkStore
<1>7. ASSUME NEW r \in Askers, NEW id \in SporkIds, IsSporkActiveMiss(r, id) PROVE SporkTypeOK'
  <2>1. [pc |-> "missed", id |-> id] \in AskState
    BY DEF AskState
  <2>2. QED
    BY <1>7, <2>1 DEF SporkTypeOK, IsSporkActiveMiss, store, caches
<1>8. ASSUME NEW r \in Askers, IsSporkActiveGet(r) PROVE SporkTypeOK'
  <2>1. asking[r].id \in SporkIds
    BY <1>8, ReaderFields DEF IsSporkActiveGet
  <2>2. [pc |-> "got", id |-> asking[r].id, val |-> GetSporkValue(asking[r].id)] \in AskState
    BY <2>1, SporkValueType DEF AskState
  <2>3. mapSporksCachedValues' \in [SporkIds -> Values \cup {NoValue}]
    BY <1>8, <2>1, SporkValueType DEF IsSporkActiveGet
  <2>4. asking' \in [Askers -> AskState]
    BY <1>8, <2>2 DEF IsSporkActiveGet, SporkTypeOK
  <2>5. QED
    BY <1>8, <2>3, <2>4 DEF SporkTypeOK, IsSporkActiveGet, store
<1>9. ASSUME NEW r \in Askers, IsSporkActiveReturn(r) PROVE SporkTypeOK'
  <2>1. asking[r].id \in SporkIds
    BY <1>9, ReaderFields DEF IsSporkActiveReturn
  <2>2. QED
    BY <1>9, <2>1 DEF SporkTypeOK, IsSporkActiveReturn, store, AskState
<1>10. ASSUME NEW c \in Configs, Start(c) PROVE SporkTypeOK'
  BY <1>10 DEF SporkTypeOK, Start, CheckAndRemove, caches, threads
<1>11. CASE Shutdown
  BY <1>11, ForgetType DEF SporkTypeOK, Shutdown
<1>12. CASE SporkCrash
  BY <1>12, ForgetType DEF SporkTypeOK, SporkCrash
<1>13. CASE UNCHANGED sporkVars
  BY <1>13 DEF SporkTypeOK, sporkVars
<1>14. QED
  BY <1>1, <1>2, <1>3, <1>4, <1>5, <1>6, <1>7, <1>8, <1>9, <1>10, <1>11, <1>12, <1>13 DEF SporkNext

-----------------------------------------------------------------------------
\* Storing a message that is signed, and newer than the one it replaces unless
\* the key is ours, keeps the two maps well formed.
LEMMA StoreWellFormed ==
    ASSUME SporkTypeOK, NEW m \in Msg, StoreAndInvalidate(m), m \in net', net \subseteq net',
           WellFormed(mapSporksByHash, mapSporksActive),
           m.signer \in RemoteSigners =>
              \A x \in mapSporksActive : (x.id = m.id /\ x.signer = m.signer) => x.time < m.time
    PROVE  WellFormed(mapSporksByHash, mapSporksActive)'
<1> DEFINE A == mapSporksActive
           B == mapSporksByHash
<1>0. /\ A' = Put(A, m) /\ B' = B \cup {m}
      /\ A \subseteq Msg /\ B \subseteq Msg
  BY DEF StoreAndInvalidate, SporkTypeOK
<1>1. A' \subseteq B' /\ B' \subseteq net'
  BY <1>0 DEF Put, WellFormed
<1>2. \A x, y \in A' : (x.id = y.id /\ x.signer = y.signer) => x = y
  BY <1>0 DEF Put, WellFormed
<1>3. \A y \in B' : \E x \in A' : x.id = y.id /\ x.signer = y.signer
  BY <1>0 DEF Put, WellFormed
<1>4. ASSUME NEW x \in A', NEW y \in B', x.signer \in RemoteSigners, y.id = x.id, y.signer = x.signer
      PROVE  y.time <= x.time
  <2>1. CASE x = m /\ y \in B
    <3>1. PICK z \in A : z.id = y.id /\ z.signer = y.signer
      BY <2>1 DEF WellFormed
    <3>2. y.time <= z.time /\ z.time < m.time
      BY <1>4, <2>1, <3>1 DEF WellFormed
    <3>3. y.time \in Int /\ z.time \in Int /\ m.time \in Int
      BY <1>0, <2>1, <3>1 DEF Msg, ClockTimes
    <3>4. QED
      BY <2>1, <3>2, <3>3
  <2>2. CASE y = m /\ x = m
    BY <2>2 DEF Msg, ClockTimes
  <2>3. CASE x # m /\ y \in B
    BY <1>0, <1>4, <2>3 DEF Put, WellFormed
  <2>4. CASE x # m /\ y = m
    BY <1>0, <1>4, <2>4 DEF Put
  <2>5. QED
    BY <1>0, <2>1, <2>2, <2>3, <2>4
<1>5. QED
  BY <1>1, <1>2, <1>3, <1>4 DEF WellFormed

\* Dropping the messages of unconfigured signers keeps the maps well formed.
LEMMA FilterWellFormed ==
    ASSUME NEW B, NEW A, NEW c, WellFormed(B, A)
    PROVE  WellFormed(CheckAndRemove(B, c), CheckAndRemove(A, c))
BY DEF WellFormed, CheckAndRemove

\* The set of signed messages only grows.
LEMMA NetGrows == [SporkNext]_sporkVars => net \subseteq net'
BY DEF SporkNext, sporkVars, SporkTick, EnvSign, ProcessSpork, ProcessSporkStore, UpdateSpork, UpdateSporkStore,
       IsSporkActiveMiss, IsSporkActiveGet, IsSporkActiveReturn, Start, Shutdown, SporkCrash

\* A fresh count depends on the messages held for the id only.
LEMMA CountedLocal ==
    ASSUME NEW S, NEW T, NEW c, NEW id,
           {m \in S : m.id = id} = {m \in T : m.id = id}
    PROVE  CountedValue(S, c, id) = CountedValue(T, c, id)
<1>1. \A v : Voters(S, id, v) = Voters(T, id, v)
  BY DEF Voters
<1>2. Winners(S, c, id) = Winners(T, c, id)
  BY <1>1 DEF Winners
<1>3. QED
  BY <1>2 DEF CountedValue

\* Storing a message erases the cache entry it could make stale, and only that one.
LEMMA StoreFresh ==
    ASSUME SporkTypeOK, NEW m \in Msg, StoreAndInvalidate(m), CachedValueFresh, cfg' = cfg
    PROVE  CachedValueFresh'
<1> SUFFICES ASSUME NEW id \in SporkIds, mapSporksCachedValues'[id] # NoValue
             PROVE  mapSporksCachedValues'[id] = CountedValue(mapSporksActive', cfg', id)
  BY DEF CachedValueFresh
<1>1. id # m.id /\ mapSporksCachedValues'[id] = mapSporksCachedValues[id]
  BY DEF StoreAndInvalidate, SporkTypeOK, Msg
<1>2. {x \in mapSporksActive' : x.id = id} = {x \in mapSporksActive : x.id = id}
  BY <1>1 DEF StoreAndInvalidate, Put
<1>3. CountedValue(mapSporksActive', cfg, id) = CountedValue(mapSporksActive, cfg, id)
  BY <1>2, CountedLocal
<1>4. QED
  BY <1>1, <1>3 DEF CachedValueFresh

\* The state ForgetMemory leaves satisfies everything said of memory.
LEMMA ForgetInv ==
    ASSUME ForgetMemory
    PROVE  /\ WellFormed(mapSporksByHash, mapSporksActive)'
           /\ (\A m \in mapSporksByHash : m.signer \in cfg.keys)'
           /\ ThreadsConsistent'
           /\ up' = FALSE
           /\ handling' = {} /\ rpc' = {} /\ asking' = NotAsking /\ mapSporksCachedValues' = NoCachedValues
           /\ CachedValueFresh'
<1>1. ThreadsConsistent'
  BY DEF ForgetMemory, ThreadsConsistent
<1>2. CachedValueFresh'
  BY DEF ForgetMemory, CachedValueFresh, NoCachedValues
<1>3. WellFormed(mapSporksByHash, mapSporksActive)'
  BY DEF ForgetMemory, WellFormed
<1>4. QED
  BY <1>1, <1>2, <1>3 DEF ForgetMemory

\* The steps that touch neither the maps nor the configuration nor the file.
LEMMA QuietStep ==
    ASSUME SporkInv, [SporkNext]_sporkVars, UNCHANGED <<store, cfg, up, sporksDat>>
    PROVE  /\ WellFormed(mapSporksByHash, mapSporksActive)'
           /\ WellFormed(sporksDat.byHash, sporksDat.active)'
           /\ (\A m \in mapSporksByHash : m.signer \in cfg.keys)'
           /\ (up => cfg \in Configs /\ ValidConfig(cfg))'
<1>1. net \subseteq net'
  BY NetGrows
<1>2. WellFormed(mapSporksByHash, mapSporksActive)'
  <2>1. WellFormed(mapSporksByHash, mapSporksActive)
    BY DEF SporkInv
  <2>2. mapSporksByHash' = mapSporksByHash /\ mapSporksActive' = mapSporksActive
    BY DEF store
  <2>3. QED
    BY <1>1, <2>1, <2>2 DEF WellFormed
<1>3. WellFormed(sporksDat.byHash, sporksDat.active)'
  <2>1. WellFormed(sporksDat.byHash, sporksDat.active)
    BY DEF SporkInv
  <2>2. QED
    BY <1>1, <2>1 DEF WellFormed
<1>4. QED
  BY <1>2, <1>3 DEF SporkInv, store, ValidConfig

\* The file keeps its shape in every step that does not write it.
LEMMA DatStep ==
    ASSUME SporkInv, [SporkNext]_sporkVars, sporksDat' = sporksDat
    PROVE  WellFormed(sporksDat.byHash, sporksDat.active)'
<1>1. net \subseteq net'
  BY NetGrows
<1>2. WellFormed(sporksDat.byHash, sporksDat.active)
  BY DEF SporkInv
<1>3. QED
  BY <1>1, <1>2 DEF WellFormed

\* SporkInv holds before the first start.
LEMMA InvInit == SporkInit => SporkInv
<1> SUFFICES ASSUME SporkInit PROVE SporkInv
  OBVIOUS
<1> USE SporkAssumption DEF SporkInit
<1>1. SporkTypeOK
  <2>1. clock \in ClockTimes
    BY DEF ClockTimes
  <2>2. mapSporksCachedValues \in [SporkIds -> Values \cup {NoValue}] /\ asking \in [Askers -> AskState]
    BY DEF NoCachedValues, NotAsking, AskState
  <2>3. sporksDat \in [byHash : SUBSET Msg, active : SUBSET Msg]
    OBVIOUS
  <2>4. QED
    BY <2>1, <2>2, <2>3 DEF SporkTypeOK
<1>2. WellFormed({}, {})
  BY DEF WellFormed
<1>3. ThreadsConsistent /\ CachedValueFresh
  BY DEF ThreadsConsistent, CachedValueFresh, NoCachedValues
<1>4. QED
  BY <1>1, <1>2, <1>3 DEF SporkInv

\* SporkInv is preserved by every step of every thread, by crashes and by restarts.
LEMMA InvStep == SporkInv /\ [SporkNext]_sporkVars => SporkInv'
<1> SUFFICES ASSUME SporkInv, [SporkNext]_sporkVars PROVE SporkInv'
  OBVIOUS
<1> USE SporkAssumption
<1>0. SporkTypeOK /\ SporkTypeOK'
  BY TypeStep DEF SporkInv
<1>1. CASE SporkTick
  <2>1. ThreadsConsistent' /\ CachedValueFresh'
    BY <1>1 DEF SporkInv, SporkTick, store, caches, threads, ThreadsConsistent, CachedValueFresh
  <2>2. QED
    BY <1>0, <1>1, <2>1, QuietStep DEF SporkInv, SporkTick, caches, threads
<1>2. ASSUME NEW m \in Msg, EnvSign(m) PROVE SporkInv'
  <2>1. ThreadsConsistent' /\ CachedValueFresh'
    BY <1>2 DEF SporkInv, EnvSign, store, caches, threads, ThreadsConsistent, CachedValueFresh
  <2>2. QED
    BY <1>0, <1>2, <2>1, QuietStep DEF SporkInv, EnvSign, caches, threads
<1>3. ASSUME NEW m \in net, ProcessSpork(m) PROVE SporkInv'
  <2>1. \A x \in mapSporksActive : (x.id = m.id /\ x.signer = m.signer) => x.time < m.time
    BY <1>0, <1>3 DEF ProcessSpork, Seen, SporkTypeOK, Msg, ClockTimes
  <2>2. ThreadsConsistent'
    BY <1>3, <2>1 DEF SporkInv, ProcessSpork, ThreadsConsistent, KnownSigner, store
  <2>3. CachedValueFresh'
    BY <1>3 DEF SporkInv, ProcessSpork, store, caches, CachedValueFresh
  <2>4. QED
    BY <1>0, <1>3, <2>2, <2>3, QuietStep DEF SporkInv, ProcessSpork, caches
<1>4. ASSUME NEW m \in handling, ProcessSporkStore(m) PROVE SporkInv'
  <2>0. m \in Msg /\ m \in net /\ m.signer \in cfg.keys /\ StoreAndInvalidate(m)
    BY <1>0, <1>4 DEF SporkInv, ThreadsConsistent, SporkTypeOK, ProcessSporkStore
  <2>1. WellFormed(mapSporksByHash, mapSporksActive)'
    BY <1>0, <1>4, <2>0, StoreWellFormed DEF SporkInv, ThreadsConsistent, ProcessSporkStore
  <2>2. CachedValueFresh'
    BY <1>0, <1>4, <2>0, StoreFresh DEF SporkInv, ProcessSporkStore
  <2>3. ThreadsConsistent'
    BY <1>4 DEF SporkInv, ThreadsConsistent, ProcessSporkStore
  <2>4. (\A x \in mapSporksByHash : x.signer \in cfg.keys)'
    BY <1>4, <2>0 DEF SporkInv, ProcessSporkStore, StoreAndInvalidate
  <2>5. up
    BY <1>4 DEF SporkInv
  <2>6. QED
    BY <1>0, <1>4, <2>1, <2>2, <2>3, <2>4, <2>5, DatStep DEF SporkInv, ProcessSporkStore, ValidConfig
<1>5. ASSUME NEW id \in SporkIds, NEW v \in Values, UpdateSpork(id, v) PROVE SporkInv'
  <2>1. cfg.priv \in cfg.keys
    BY <1>5 DEF UpdateSpork, SporkInv, ValidConfig
  <2>2. ThreadsConsistent'
    BY <1>5, <2>1 DEF SporkInv, UpdateSpork, ThreadsConsistent, store
  <2>3. CachedValueFresh'
    BY <1>5 DEF SporkInv, UpdateSpork, store, caches, CachedValueFresh
  <2>4. QED
    BY <1>0, <1>5, <2>2, <2>3, QuietStep DEF SporkInv, UpdateSpork, caches
<1>6. ASSUME NEW m \in rpc, UpdateSporkStore(m) PROVE SporkInv'
  <2>0. /\ m \in Msg /\ m.signer \in cfg.keys /\ StoreAndInvalidate(m)
        /\ net' = net \cup {m} /\ m.signer = cfg.priv
    BY <1>0, <1>6 DEF SporkInv, ThreadsConsistent, SporkTypeOK, UpdateSporkStore
  <2>1. up /\ cfg \in Configs
    BY <1>6 DEF SporkInv
  <2>2. m.signer \notin RemoteSigners
    BY <2>0, <2>1 DEF RemoteSigners
  <2>3. WellFormed(mapSporksByHash, mapSporksActive)'
    BY <1>0, <2>0, <2>2, StoreWellFormed DEF SporkInv
  <2>4. CachedValueFresh'
    BY <1>0, <1>6, <2>0, StoreFresh DEF SporkInv, UpdateSporkStore
  <2>5. ThreadsConsistent'
    <3>1. \A x \in mapSporksActive' : x \in mapSporksActive \/ x = m
      BY <2>0 DEF StoreAndInvalidate, Put
    <3>2. QED
      BY <1>6, <2>0, <2>2, <3>1 DEF SporkInv, ThreadsConsistent, UpdateSporkStore
  <2>6. (\A x \in mapSporksByHash : x.signer \in cfg.keys)'
    BY <1>6, <2>0 DEF SporkInv, UpdateSporkStore, StoreAndInvalidate
  <2>7. QED
    BY <1>0, <1>6, <2>1, <2>3, <2>4, <2>5, <2>6, DatStep DEF SporkInv, UpdateSporkStore, ValidConfig
<1>7. ASSUME NEW r \in Askers, NEW id \in SporkIds, IsSporkActiveMiss(r, id) PROVE SporkInv'
  <2>1. ThreadsConsistent' /\ CachedValueFresh'
    BY <1>7 DEF SporkInv, IsSporkActiveMiss, store, caches, ThreadsConsistent, CachedValueFresh
  <2>2. QED
    BY <1>0, <1>7, <2>1, QuietStep DEF SporkInv, IsSporkActiveMiss, caches
<1>8. ASSUME NEW r \in Askers, IsSporkActiveGet(r) PROVE SporkInv'
  <2>1. ThreadsConsistent'
    BY <1>8 DEF SporkInv, IsSporkActiveGet, store, ThreadsConsistent
  <2>2. CachedValueFresh'
    <3>1. asking[r].id \in SporkIds
      BY <1>0, <1>8, ReaderFields DEF IsSporkActiveGet
    <3>2. mapSporksCachedValues' = FillCachedValue(asking[r].id)
      BY <1>8 DEF IsSporkActiveGet
    <3>3. QED
      BY <1>0, <1>8, <3>1, <3>2
      DEF SporkInv, SporkTypeOK, IsSporkActiveGet, store, FillCachedValue, SporkValueIfActive, CachedValueFresh
  <2>3. up
    BY <1>8 DEF SporkInv, IsSporkActiveGet, NotAsking, Idle
  <2>4. QED
    BY <1>0, <1>8, <2>1, <2>2, <2>3, QuietStep DEF SporkInv, IsSporkActiveGet
<1>9. ASSUME NEW r \in Askers, IsSporkActiveReturn(r) PROVE SporkInv'
  <2>1. ThreadsConsistent' /\ CachedValueFresh'
    BY <1>9 DEF SporkInv, IsSporkActiveReturn, store, ThreadsConsistent, CachedValueFresh
  <2>2. up
    BY <1>9 DEF SporkInv, IsSporkActiveReturn, NotAsking, Idle
  <2>3. QED
    BY <1>0, <1>9, <2>1, <2>2, QuietStep DEF SporkInv, IsSporkActiveReturn
<1>10. ASSUME NEW c \in Configs, Start(c) PROVE SporkInv'
  <2>1. WellFormed(mapSporksByHash, mapSporksActive)'
    <3>1. WellFormed(CheckAndRemove(sporksDat.byHash, c), CheckAndRemove(sporksDat.active, c))
      BY FilterWellFormed DEF SporkInv
    <3>2. net' = net
      BY <1>10 DEF Start
    <3>3. QED
      BY <1>10, <3>1, <3>2 DEF Start, WellFormed
  <2>2. ThreadsConsistent'
    BY <1>10 DEF SporkInv, Start, threads, ThreadsConsistent
  <2>3. CachedValueFresh'
    BY <1>10 DEF SporkInv, Start, caches, CachedValueFresh, NoCachedValues
  <2>4. (\A x \in mapSporksByHash : x.signer \in cfg.keys)'
    BY <1>10 DEF Start, CheckAndRemove
  <2>5. (up => cfg \in Configs /\ ValidConfig(cfg))'
    BY <1>10 DEF Start, ValidConfig
  <2>6. QED
    BY <1>0, <1>10, <2>1, <2>2, <2>3, <2>4, <2>5, DatStep DEF SporkInv, Start
<1>11. CASE Shutdown
  <2>1. WellFormed(sporksDat.byHash, sporksDat.active)'
    BY <1>11 DEF SporkInv, Shutdown, WellFormed
  <2>2. QED
    BY <1>0, <1>11, <2>1, ForgetInv DEF SporkInv, Shutdown
<1>12. CASE SporkCrash
  BY <1>0, <1>12, ForgetInv, DatStep DEF SporkInv, SporkCrash
<1>13. CASE UNCHANGED sporkVars
  <2>1. ThreadsConsistent' /\ CachedValueFresh'
    BY <1>13 DEF SporkInv, sporkVars, ThreadsConsistent, CachedValueFresh
  <2>2. QED
    BY <1>0, <1>13, <2>1, QuietStep DEF SporkInv, sporkVars, store
<1>14. QED
  BY <1>1, <1>2, <1>3, <1>4, <1>5, <1>6, <1>7, <1>8, <1>9, <1>10, <1>11, <1>12, <1>13 DEF SporkNext

\* The state of a spork manager is always within its types, and SporkInv always holds.
THEOREM SporkInvariant == SporkSpec => []SporkInv
<1>1. QED
  BY InvInit, InvStep, PTL DEF SporkSpec

\* The types of all variables are respected in every reachable state.
THEOREM SporkTypeCorrect == SporkSpec => []SporkTypeOK
<1>1. SporkInv => SporkTypeOK
  BY DEF SporkInv
<1>2. QED
  BY <1>1, SporkInvariant, PTL

\* mapSporksCachedValues never disagrees with a recount, however IsSporkActive,
\* ProcessSpork and UpdateSpork interleave.
THEOREM SporkCachedValueFresh == SporkSpec => []CachedValueFresh
<1>1. SporkInv => CachedValueFresh
  BY DEF SporkInv
<1>2. QED
  BY <1>1, SporkInvariant, PTL

\* The newest message of a remote signer is the one that counts, whatever the
\* order, repetition or loss of messages and restarts.
THEOREM SporkLatestWins == SporkSpec => []LatestWins
<1>1. SporkInv => LatestWins
  BY DEF SporkInv, WellFormed, LatestWins
<1>2. QED
  BY <1>1, SporkInvariant, PTL

\* Two values cannot both be backed by nMinSporkKeys of the configured keys: the
\* remark in SporkValueIfActive that the first such value found is the only one.
LEMMA MajorityUnique ==
    ASSUME SporkInv, up, NEW id \in SporkIds, NEW v \in Values, NEW w \in Values, v # w,
           Cardinality(Voters(mapSporksActive, id, v)) >= cfg.min
    PROVE  Cardinality(Voters(mapSporksActive, id, w)) < cfg.min
<1> DEFINE V == Voters(mapSporksActive, id, v)
           W == Voters(mapSporksActive, id, w)
<1>1. /\ IsFiniteSet(cfg.keys) /\ cfg.min \in Nat
      /\ cfg.min > Cardinality(cfg.keys) \div 2
  <2>1. cfg.keys \in SUBSET Signers /\ cfg.min \in Nat
    BY SporkAssumption DEF SporkInv
  <2>2. QED
    BY <2>1, FS_Subset, SporkAssumption DEF SporkInv, ValidConfig
<1>2. V \subseteq cfg.keys /\ W \subseteq cfg.keys
  BY DEF Voters, SporkInv, WellFormed
<1>3. V \cap W = {}
  BY DEF Voters, SporkInv, WellFormed
<1>4. /\ Cardinality(cfg.keys) \in Nat
      /\ Cardinality(V) \in Nat /\ Cardinality(W) \in Nat
  BY <1>1, <1>2, FS_CardinalityType, FS_Subset
<1>5. ~(Cardinality(V) + Cardinality(W) > Cardinality(cfg.keys))
  BY <1>1, <1>2, <1>3, FS_MajoritiesIntersect
<1>6. cfg.min + cfg.min > Cardinality(cfg.keys)
  BY <1>1, <1>4
<1>7. QED
  BY <1>1, <1>4, <1>5, <1>6

\* A value is in force only with the signatures of nMinSporkKeys configured keys,
\* and then it is the only such value: for every key set and threshold accepted by
\* SetMinSporkKeys, across restarts that change them.
THEOREM SporkThresholdSafety == SporkSpec => []ThresholdSafety
<1>1. SporkInv => ThresholdSafety
  <2> SUFFICES ASSUME SporkInv, up, NEW id \in SporkIds, SporkValueIfActive(id) # NoValue
               PROVE  LET v == SporkValueIfActive(id)
                          Signed(w) == {s \in cfg.keys :
                                          \E m \in net : m.id = id /\ m.signer = s /\ m.value = w}
                      IN  /\ Cardinality(Signed(v)) >= cfg.min
                          /\ \A w \in Values \ {v} :
                                 Cardinality(Voters(mapSporksActive, id, w)) < cfg.min
    BY DEF ThresholdSafety
  <2> DEFINE v == SporkValueIfActive(id)
             S == {s \in cfg.keys : \E m \in net : m.id = id /\ m.signer = s /\ m.value = v}
  <2>1. v = CountedValue(mapSporksActive, cfg, id)
    BY DEF SporkInv, CachedValueFresh, SporkValueIfActive
  <2>2. v \in Values /\ Cardinality(Voters(mapSporksActive, id, v)) >= cfg.min
    BY <2>1 DEF CountedValue, Winners
  <2>3. Voters(mapSporksActive, id, v) \subseteq S
    BY DEF Voters, SporkInv, WellFormed
  <2>4. cfg.keys \in SUBSET Signers /\ cfg.min \in Nat
    BY SporkAssumption DEF SporkInv
  <2>5. IsFiniteSet(S)
    BY <2>4, FS_Subset, SporkAssumption
  <2>6. /\ Cardinality(Voters(mapSporksActive, id, v)) <= Cardinality(S)
        /\ Cardinality(Voters(mapSporksActive, id, v)) \in Nat
        /\ Cardinality(S) \in Nat
    BY <2>3, <2>5, FS_Subset, FS_CardinalityType
  <2>7. Cardinality(S) >= cfg.min
    BY <2>2, <2>4, <2>6
  <2>8. QED
    BY <2>2, <2>7, MajorityUnique
<1>2. QED
  BY <1>1, SporkInvariant, PTL

=============================================================================
