---------------------------- MODULE RolloutTheorems ----------------------------
(***************************************************************************)
(* Proofs about Rollout, for any number of starts, faults and endpoints:   *)
(* what a strict script prints when it is done exists, is wired and was    *)
(* built together.                                                         *)
(***************************************************************************)
EXTENDS Rollout, FiniteSetTheorems, SequenceTheorems, TLAPS

Address == STRING \X Nat
Builds == {"fresh", "stale"}
Contract == [args : Seq(Address), live : BOOLEAN, build : Builds]
Transaction ==
  [op : {"deploy", "create2", "set"}, at : Address, slot : STRING, args : Seq(Address),
   awaited : BOOLEAN]

-----------------------------------------------------------------------------
(* The invariant. *)

OfKey(key) == {c \in DOMAIN contracts : c[1] = key}

\* The contracts of a key are numbered without gaps.
ChainIsPacked ==
  /\ IsFiniteSet(DOMAIN contracts)
  /\ \A c \in DOMAIN contracts : c \in Address /\ contracts[c] \in Contract
  /\ \A key : \A c \in OfKey(key) : c[2] < Cardinality(OfKey(key))

ProcessIsTyped ==
  /\ mempool \in Seq(Transaction)
  /\ pc \in 1 .. Len(Steps) + 1 /\ nodes \in Nat /\ artifact \in Builds

\* A value the script may have meant for a slot of c.
FitsSlot(c, slot, v) ==
  \A i \in DOMAIN Steps :
    Steps[i].op = "set" /\ Steps[i].on = c[1] /\ Steps[i].slot = slot =>
      v[1] = Steps[i].to[1] /\ (Steps[i].to[1] = Steps[i].on => v = c)
Sensible(tx) ==
  /\ tx.op # "deploy" => tx.at \in DOMAIN contracts
  /\ tx.op = "set" => /\ Len(tx.args) = 1 /\ tx.args[1] \in DOMAIN contracts
                      /\ FitsSlot(tx.at, tx.slot, tx.args[1])
ValuesFit ==
  /\ \A l \in DOMAIN link : link[l] \in DOMAIN contracts /\ FitsSlot(l[1], l[2], link[l])
  /\ \A n \in DOMAIN mempool : Sensible(mempool[n])

Stands(key, c) == c \in DOMAIN contracts /\ c[1] = key /\ contracts[c].live

AddressesStand ==
  /\ \A k \in DOMAIN addr : Stands(k, addr[k])
  /\ DOMAIN addr = IF state = "idle" THEN {} ELSE KnownBefore(script, pc)

EnvironmentStands ==
  /\ \A k \in DOMAIN env : Stands(k, env[k])
  /\ DOMAIN env \subseteq script.inherited \cup TakenOver(script)
  /\ \A k \in script.inherited : k \in DOMAIN env /\ env[k] = <<k, 0>>
  /\ \A k \in DOMAIN addr \cap DOMAIN env : addr[k] = env[k]

\* A key the environment has is not deployed again.
DeploysAreNew ==
  (state = "waiting" \/ (state = "running" /\ rpc > 1)) /\ Now.op = "deploy"
    => Now.on \notin DOMAIN env

\* What a success means for the present step.
Outcome(at) ==
  /\ Creates(Now) => Stands(Now.on, at) /\ contracts[at].args = Given
  /\ Now.op = "deploy" => \A l \in DOMAIN link : link[l][1] = Now.on => link[l][2] <= at[2]
  /\ Now.op = "set" => Stored(At(Now.on), Now.slot) = Given[1]
\* The transaction that the present step sent.
OfThisStep(tx) ==
  /\ tx.op = Now.op /\ tx.slot = Now.slot /\ tx.args = Given
  /\ Creates(Now) => tx.at[1] = Now.on
  /\ Now.op = "create2" => contracts[tx.at].args = Given
  /\ Now.op = "set" => tx.at = At(Now.on)
\* The awaited transaction is the last one, and its receipt is the last word.
Awaiting ==
  /\ state = "waiting" => pc \in DOMAIN Steps /\ Now.op \notin Reads
  /\ receipt # <<>> =>
       /\ state = "waiting" /\ mempool = <<>>
       /\ receipt[1].ok => Outcome(receipt[1].at)
  /\ \A n \in DOMAIN mempool : mempool[n].awaited =>
       /\ n = Len(mempool) /\ state = "waiting" /\ receipt = <<>> /\ OfThisStep(mempool[n])

Fills(tx, c, slot) == tx.op = "set" /\ tx.at = c /\ tx.slot = slot
\* The slot holds the value, and nothing that is pending will change it.
WiredTo(c, slot, v) ==
  /\ Stored(c, slot) = v
  /\ slot \notin SetOnce =>
       \A n \in DOMAIN mempool : Fills(mempool[n], c, slot) => mempool[n].args[1] = v

\* What the steps behind pc have established.
IsWired(i) ==
  Steps[i].op = "set" => WiredTo(addr[Steps[i].on], Steps[i].slot, addr[Steps[i].to[1]])
IsBuilt(i) ==
  Creates(Steps[i]) /\ diligent =>
    contracts[addr[Steps[i].on]].args = [j \in DOMAIN Steps[i].to |-> addr[Steps[i].to[j]]]
IsVerified(i) ==
  /\ Steps[i].op = "version" => contracts[addr["IMPL"]].build = "fresh"
  /\ Steps[i].op = "nodes" => nodes >= NodesAsked[Steps[i].guard]
StepsStand ==
  state # "idle" => \A i \in 1 .. pc - 1 : IsWired(i) /\ IsBuilt(i) /\ IsVerified(i)

\* What a diligent operator pasted was built with what he pasted.
EnvironmentIsBuilt ==
  diligent => \A i \in DOMAIN Steps :
    Steps[i].op = "deploy" /\ Steps[i].guard # "always" /\ Steps[i].on \in DOMAIN env =>
      /\ \A j \in DOMAIN Steps[i].to : Steps[i].to[j] \in DOMAIN env
      /\ contracts[env[Steps[i].on]].args = [j \in DOMAIN Steps[i].to |-> env[Steps[i].to[j]]]

\* Of a key that is taken over, no slot and no pending transaction has a later contract
\* than the script and the environment have; and later transactions have later ones.
NotAfter(v, w) == v[1] = w[1] /\ v[1] \in TakenOver(script) => v[2] <= w[2]
NotAhead(v) ==
  /\ v[1] \in DOMAIN addr => NotAfter(v, addr[v[1]])
  /\ v[1] \in DOMAIN env => NotAfter(v, env[v[1]])
OrderHolds ==
  /\ \A l \in DOMAIN link : NotAhead(link[l])
  /\ \A n \in DOMAIN mempool : mempool[n].op = "set" =>
       /\ NotAhead(mempool[n].args[1])
       /\ <<mempool[n].at, mempool[n].slot>> \in DOMAIN link =>
            NotAfter(link[<<mempool[n].at, mempool[n].slot>>], mempool[n].args[1])
       /\ \A m \in 1 .. n - 1 :
            Fills(mempool[m], mempool[n].at, mempool[n].slot) =>
              NotAfter(mempool[m].args[1], mempool[n].args[1])

PublishedIsDone ==
  published # <<>> => state = "done" /\ published = addr /\ pc = Len(Steps) + 1

ChainInv == ChainIsPacked /\ ValuesFit /\ OrderHolds
ProcessInv == ProcessIsTyped /\ AddressesStand /\ EnvironmentStands /\ DeploysAreNew /\ Awaiting
WorkInv == StepsStand /\ EnvironmentIsBuilt /\ PublishedIsDone
RolloutInv == ChainInv /\ ProcessInv /\ WorkInv

-----------------------------------------------------------------------------
(* The plans. *)

\* The steps of a sound script are a sequence of steps.
LEMMA StepsAreTyped ==
  ASSUME Sound(script)
  PROVE  /\ Steps \in Seq(StepRecord) /\ Len(Steps) \in Nat /\ DOMAIN Steps = 1 .. Len(Steps)
         /\ \A i \in DOMAIN Steps : /\ Steps[i] \in StepRecord
                                    /\ DOMAIN Steps[i].to = 1 .. Len(Steps[i].to)
                                    /\ Len(Steps[i].to) \in Nat
<1>1. Steps \in Seq(StepRecord) BY DEF Sound, Steps
<1>2. \A i \in DOMAIN Steps : Steps[i] \in StepRecord BY <1>1
<1>3. \A t \in Seq(STRING) : DOMAIN t = 1 .. Len(t) /\ Len(t) \in Nat OBVIOUS
<1>4. \A step \in StepRecord : step.to \in Seq(STRING) BY DEF StepRecord
<1> QED BY <1>1, <1>2, <1>3, <1>4

\* What a sound script says of each of its steps.
LEMMA StepsAreSound ==
  ASSUME Sound(script), NEW i \in DOMAIN Steps
  PROVE  NamesKnownKeys(script, i) /\ TakesOverWhole(script, i) /\ FillsFromOneSource(script, i)
BY DEF Sound, Steps

\* A step adds the key it creates to the keys that have an address.
LEMMA KnownGrows ==
  ASSUME NEW s, NEW i \in Nat \ {0}
  PROVE  KnownBefore(s, i + 1) =
           KnownBefore(s, i) \cup (IF Creates(s.steps[i]) THEN {s.steps[i].on} ELSE {})
<1>1. 1 .. (i + 1) - 1 = (1 .. i - 1) \cup {i} OBVIOUS
<1> QED BY <1>1, Zenon DEF KnownBefore

\* What is known stays known, and what a step behind created is known.
LEMMA KnownStays ==
  ASSUME NEW s, NEW j \in Nat, NEW i \in 1 .. j
  PROVE  /\ KnownBefore(s, i) \subseteq KnownBefore(s, j)
         /\ i < j /\ Creates(s.steps[i]) => s.steps[i].on \in KnownBefore(s, j)
<1>1. 1 .. i - 1 \subseteq 1 .. j - 1 /\ (i < j => i \in 1 .. j - 1) OBVIOUS
<1> QED BY <1>1, Zenon DEF KnownBefore

\* Before the first step only what is inherited is known.
LEMMA KnownFirst ==
  ASSUME NEW s PROVE KnownBefore(s, 1) = s.inherited /\ \A i : s.inherited \subseteq KnownBefore(s, i)
<1>1. 1 .. 1 - 1 = {} OBVIOUS
<1> QED BY <1>1, Zenon DEF KnownBefore

\* A key is created by one step.
LEMMA CreatedOnce ==
  ASSUME Sound(script), NEW i \in DOMAIN Steps, NEW j \in DOMAIN Steps,
         Creates(Steps[i]), Creates(Steps[j]), Steps[i].on = Steps[j].on
  PROVE  i = j
<1>1. i \in Nat /\ j \in Nat /\ i >= 1 /\ j >= 1 BY StepsAreTyped
<1>2. ASSUME NEW a \in DOMAIN Steps, NEW b \in DOMAIN Steps, a \in Nat, b \in Nat, a >= 1, a < b,
             Creates(Steps[a]), Creates(Steps[b])
      PROVE  Steps[a].on # Steps[b].on
  <2>1. Steps[a].on \in KnownBefore(script, b)
    <3>1. a \in 1 .. b BY <1>2
    <3> QED BY <1>2, <3>1, KnownStays DEF Steps
  <2>2. Steps[b].on \notin KnownBefore(script, b)
    BY <1>2, StepsAreSound DEF NamesKnownKeys, Steps
  <2> QED BY <2>1, <2>2
<1>3. ~(i < j) /\ ~(j < i) BY <1>1, <1>2
<1> QED BY <1>1, <1>3

\* A key that is taken over has its step, and is not inherited.
LEMMA TakenOverKeys ==
  ASSUME Sound(script), NEW k \in TakenOver(script)
  PROVE  /\ \E i \in DOMAIN Steps :
              Steps[i].op = "deploy" /\ Steps[i].on = k /\ Steps[i].guard = k /\ k # "always"
         /\ k \notin script.inherited
<1>1. PICK i \in DOMAIN Steps : Steps[i].op = "deploy" /\ Steps[i].guard = k /\ k # "always"
  BY Zenon DEF TakenOver, Steps
<1>2. Steps[i].on = k BY <1>1, StepsAreSound DEF TakesOverWhole, Steps
<1>3. Steps[i].on \notin KnownBefore(script, i)
  BY <1>1, StepsAreSound DEF NamesKnownKeys, Steps, Creates
<1>4. k \notin script.inherited BY <1>2, <1>3, KnownFirst
<1> QED BY <1>1, <1>2, <1>4

\* The step that creates a key tells whether it is taken over.
LEMMA WhoIsTakenOver ==
  ASSUME Sound(script), NEW i \in DOMAIN Steps, Creates(Steps[i])
  PROVE  Steps[i].on \in TakenOver(script) <=> Steps[i].op = "deploy" /\ Steps[i].guard # "always"
<1>1. ASSUME Steps[i].op = "deploy", Steps[i].guard # "always"
      PROVE  Steps[i].on \in TakenOver(script)
  <2>1. Steps[i].guard = Steps[i].on BY <1>1, StepsAreSound DEF TakesOverWhole, Steps
  <2> QED BY <1>1, <2>1, Zenon DEF TakenOver, Steps
<1>2. ASSUME Steps[i].on \in TakenOver(script)
      PROVE  Steps[i].op = "deploy" /\ Steps[i].guard # "always"
  <2>1. PICK j \in DOMAIN Steps :
          Steps[j].op = "deploy" /\ Steps[j].on = Steps[i].on /\ Steps[j].guard = Steps[i].on
          /\ Steps[i].on # "always"
    BY <1>2, TakenOverKeys
  <2>2. i = j BY <2>1, CreatedOnce DEF Creates
  <2> QED BY <2>1, <2>2
<1> QED BY <1>1, <1>2

-----------------------------------------------------------------------------
(* Sequences and maps. *)

\* The tail is the sequence without its first element.
LEMMA TailKeeps ==
  ASSUME NEW S, NEW q \in Seq(S), q # <<>>
  PROVE  /\ Head(q) = q[1] /\ q[1] \in S /\ 1 \in DOMAIN q /\ Len(q) \in Nat /\ Len(q) >= 1
         /\ Tail(q) \in Seq(S) /\ Len(Tail(q)) = Len(q) - 1
         /\ DOMAIN Tail(q) = 1 .. Len(q) - 1
         /\ \A n \in DOMAIN Tail(q) : n \in Nat /\ n + 1 \in DOMAIN q /\ Tail(q)[n] = q[n + 1]
<1>1. Len(q) \in Nat /\ Len(q) >= 1 /\ DOMAIN q = 1 .. Len(q) OBVIOUS
<1>2. Head(q) = q[1] /\ q[1] \in S /\ 1 \in DOMAIN q BY <1>1
<1>3. Tail(q) \in Seq(S) /\ Len(Tail(q)) = Len(q) - 1 OBVIOUS
<1>4. DOMAIN Tail(q) = 1 .. Len(q) - 1 BY <1>1, <1>3
<1>5. \A n \in 1 .. Len(q) - 1 : Tail(q)[n] = q[n + 1] OBVIOUS
<1>6. \A n \in 1 .. Len(q) - 1 : n \in Nat /\ n + 1 \in 1 .. Len(q) BY <1>1
<1> QED BY <1>1, <1>2, <1>3, <1>4, <1>5, <1>6, Zenon

\* The front is the sequence without its last element.
LEMMA FrontKeeps ==
  ASSUME NEW S, NEW q \in Seq(S), q # <<>>
  PROVE  LET front == SubSeq(q, 1, Len(q) - 1)
         IN /\ front \in Seq(S) /\ Len(front) = Len(q) - 1
            /\ \A n \in DOMAIN front : n \in DOMAIN q /\ n < Len(q) /\ front[n] = q[n]
<1> DEFINE front == SubSeq(q, 1, Len(q) - 1)
<1>1. Len(q) \in Nat /\ Len(q) >= 1 /\ DOMAIN q = 1 .. Len(q) OBVIOUS
<1>2. front \in Seq(S) /\ Len(front) = Len(q) - 1 BY <1>1
<1>3. DOMAIN front = 1 .. Len(q) - 1 BY <1>1, <1>2
<1>4. \A n \in 1 .. Len(q) - 1 : front[n] = q[n] BY <1>1
<1>5. \A n \in 1 .. Len(q) - 1 : n \in 1 .. Len(q) /\ n < Len(q) BY <1>1
<1> HIDE DEF front
<1>6. \A n \in DOMAIN front : n \in DOMAIN q /\ n < Len(q) /\ front[n] = q[n]
  BY <1>1, <1>3, <1>4, <1>5, Zenon
<1> QED BY <1>2, <1>6 DEF front

\* An appended element comes last.
LEMMA AppendKeeps ==
  ASSUME NEW S, NEW q \in Seq(S), NEW x \in S
  PROVE  /\ Append(q, x) \in Seq(S) /\ Len(Append(q, x)) = Len(q) + 1
         /\ \A n \in DOMAIN Append(q, x) :
              (n \in DOMAIN q /\ Append(q, x)[n] = q[n]) \/ (n = Len(q) + 1 /\ Append(q, x)[n] = x)
OBVIOUS

\* A transaction nobody waits for any more is the same transaction.
LEMMA AbandonedKeeps ==
  ASSUME mempool \in Seq(Transaction)
  PROVE  /\ Abandoned \in Seq(Transaction) /\ DOMAIN Abandoned = DOMAIN mempool
         /\ \A n \in DOMAIN mempool :
              /\ Abandoned[n].awaited = FALSE
              /\ Abandoned[n].op = mempool[n].op /\ Abandoned[n].at = mempool[n].at
              /\ Abandoned[n].slot = mempool[n].slot /\ Abandoned[n].args = mempool[n].args
<1>1. DOMAIN mempool = 1 .. Len(mempool) /\ Len(mempool) \in Nat
      /\ \A n \in DOMAIN mempool : mempool[n] \in Transaction
  OBVIOUS
<1>2. \A n \in DOMAIN mempool : Abandoned[n] = [mempool[n] EXCEPT !.awaited = FALSE]
      /\ DOMAIN Abandoned = DOMAIN mempool
  BY DEF Abandoned
<1>3. ASSUME NEW tx \in Transaction, NEW v \in BOOLEAN
      PROVE  LET new == [tx EXCEPT !.awaited = v]
             IN /\ new \in Transaction /\ new.awaited = v /\ new.op = tx.op /\ new.at = tx.at
                /\ new.slot = tx.slot /\ new.args = tx.args
  BY DEF Transaction
<1>4. \A n \in DOMAIN mempool :
        /\ Abandoned[n] \in Transaction /\ Abandoned[n].awaited = FALSE
        /\ Abandoned[n].op = mempool[n].op /\ Abandoned[n].at = mempool[n].at
        /\ Abandoned[n].slot = mempool[n].slot /\ Abandoned[n].args = mempool[n].args
  <2> TAKE n \in DOMAIN mempool
  <2>1. mempool[n] \in Transaction /\ FALSE \in BOOLEAN BY <1>1
  <2>2. Abandoned[n] = [mempool[n] EXCEPT !.awaited = FALSE] BY <1>2
  <2> QED BY <1>3, <2>1, <2>2, Zenon
<1>5. Abandoned \in Seq(Transaction)
  <2>1. Abandoned \in [1 .. Len(mempool) -> Transaction] BY <1>1, <1>2, <1>4, Zenon DEF Abandoned
  <2> QED BY <1>1, <2>1, SeqDef
<1>6. DOMAIN Abandoned = DOMAIN mempool BY <1>2, Zenon DEF Abandoned
<1> QED BY <1>4, <1>5, <1>6, Zenon

\* A map with one entry written.
LEMMA WithKeeps ==
  ASSUME NEW f, NEW x, NEW v
  PROVE  /\ DOMAIN With(f, x, v) = DOMAIN f \cup {x} /\ With(f, x, v)[x] = v
         /\ \A y \in DOMAIN f : y # x => With(f, x, v)[y] = f[y]
BY DEF With

-----------------------------------------------------------------------------
(* The chain. *)

\* No contract goes away, is built again or stops to live.
ContractsRemain ==
  \A c \in DOMAIN contracts :
    /\ c \in DOMAIN contracts' /\ contracts'[c].args = contracts[c].args
    /\ contracts'[c].build = contracts[c].build
    /\ contracts[c].live => contracts'[c].live

\* The next address of a key is new, and later than every contract of the key.
LEMMA FreshIsNew ==
  ASSUME ChainIsPacked, NEW key \in STRING
  PROVE  /\ Fresh(key) \in Address /\ Fresh(key)[1] = key /\ Fresh(key) \notin DOMAIN contracts
         /\ \A c \in DOMAIN contracts : c[1] = key => c[2] < Fresh(key)[2]
<1>1. IsFiniteSet(OfKey(key))
  <2>1. OfKey(key) \subseteq DOMAIN contracts BY DEF OfKey
  <2> QED BY <2>1, FS_Subset DEF ChainIsPacked
<1>2. Cardinality(OfKey(key)) \in Nat BY <1>1, FS_CardinalityType
<1>3. Fresh(key) = <<key, Cardinality(OfKey(key))>> BY DEF Fresh, OfKey
<1>4. Fresh(key) \in Address /\ Fresh(key)[1] = key /\ Fresh(key)[2] = Cardinality(OfKey(key))
  <2>1. \A n \in Nat : <<key, n>> \in Address /\ <<key, n>>[1] = key /\ <<key, n>>[2] = n
    BY DEF Address
  <2> QED BY <1>2, <1>3, <2>1
<1>5. \A c \in DOMAIN contracts : c[1] = key => c[2] < Fresh(key)[2]
  BY <1>4 DEF ChainIsPacked, OfKey
<1>6. Fresh(key) \notin DOMAIN contracts
  <2>1. ~(Fresh(key)[2] < Fresh(key)[2]) BY <1>2, <1>4
  <2> QED BY <1>4, <1>5, <2>1
<1> QED BY <1>4, <1>5, <1>6

\* Creating a contract at the next address of its key.
LEMMA CreationKeepsChain ==
  ASSUME ChainIsPacked, NEW key \in STRING, NEW new \in Contract,
         contracts' = With(contracts, Fresh(key), new)
  PROVE  /\ ChainIsPacked' /\ ContractsRemain
         /\ DOMAIN contracts' = DOMAIN contracts \cup {Fresh(key)}
         /\ contracts'[Fresh(key)] = new
<1> DEFINE f == Fresh(key)
<1>1. f \in Address /\ f[1] = key /\ f \notin DOMAIN contracts BY FreshIsNew
<1>2. /\ DOMAIN contracts' = DOMAIN contracts \cup {f} /\ contracts'[f] = new
      /\ \A c \in DOMAIN contracts : contracts'[c] = contracts[c]
  <2>1. \A c \in DOMAIN contracts : c # f BY <1>1
  <2> HIDE DEF f
  <2>2. contracts' = With(contracts, f, new) BY DEF f
  <2>3. /\ DOMAIN With(contracts, f, new) = DOMAIN contracts \cup {f}
        /\ With(contracts, f, new)[f] = new
        /\ \A c \in DOMAIN contracts : c # f => With(contracts, f, new)[c] = contracts[c]
    BY <1>1 DEF With
  <2> QED BY <2>1, <2>2, <2>3
<1>3. IsFiniteSet(DOMAIN contracts')
  <2>1. IsFiniteSet(DOMAIN contracts) BY DEF ChainIsPacked
  <2>2. IsFiniteSet(DOMAIN contracts \cup {f}) BY <2>1, FS_AddElement
  <2> QED BY <1>2, <2>2
<1>4. \A k : IsFiniteSet(OfKey(k)) /\ Cardinality(OfKey(k)) \in Nat
  <2>1. \A k : OfKey(k) \subseteq DOMAIN contracts BY DEF OfKey
  <2> QED BY <2>1, FS_Subset, FS_CardinalityType DEF ChainIsPacked
<1>5. \A k : OfKey(k)' = OfKey(k) \cup (IF k = key THEN {f} ELSE {})
  BY <1>1, <1>2 DEF OfKey
<1>6. Cardinality(OfKey(key)') = Cardinality(OfKey(key)) + 1
  <2>1. f \notin OfKey(key) BY <1>1 DEF OfKey
  <2>2. OfKey(key)' = OfKey(key) \cup {f} BY <1>5
  <2> QED BY <1>4, <2>1, <2>2, FS_AddElement
<1>7. \A k : k # key => OfKey(k)' = OfKey(k) BY <1>5
<1>8. f[2] = Cardinality(OfKey(key)) BY DEF Fresh, OfKey
<1>9. \A c \in DOMAIN contracts : c[2] \in Nat BY DEF ChainIsPacked, Address
<1> HIDE DEF f
<1>10. ASSUME NEW k, NEW c \in OfKey(k)'
       PROVE  c[2] < Cardinality(OfKey(k)')
  <2>1. Cardinality(OfKey(k)) \in Nat BY <1>4
  <2>2. CASE k = key
    <3>1. Cardinality(OfKey(k)') = Cardinality(OfKey(k)) + 1 BY <1>6, <2>2
    <3>2. c \in OfKey(k) \/ c = f BY <1>5, <2>2
    <3>3. CASE c = f
      <4>1. c[2] = Cardinality(OfKey(k)) BY <1>8, <2>2, <3>3
      <4> QED BY <2>1, <3>1, <4>1
    <3>4. CASE c \in OfKey(k)
      <4>1. c[2] < Cardinality(OfKey(k)) BY <3>4 DEF ChainIsPacked
      <4>2. c[2] \in Nat BY <1>9, <3>4 DEF OfKey
      <4> QED BY <2>1, <3>1, <4>1, <4>2
    <3> QED BY <3>2, <3>3, <3>4
  <2>3. CASE k # key
    <3>1. OfKey(k)' = OfKey(k) BY <1>7, <2>3
    <3>2. c \in OfKey(k) BY <1>5, <2>3
    <3> QED BY <3>1, <3>2 DEF ChainIsPacked
  <2> QED BY <2>2, <2>3
<1>11. \A c \in DOMAIN contracts' : c \in Address /\ contracts'[c] \in Contract
  BY <1>1, <1>2 DEF ChainIsPacked
<1>12. ChainIsPacked' BY <1>3, <1>10, <1>11 DEF ChainIsPacked
<1>13. ContractsRemain BY <1>2 DEF ContractsRemain
<1> QED BY <1>2, <1>12, <1>13 DEF f

-----------------------------------------------------------------------------
(* Mining a transaction. *)

\* The oldest transaction has come out, at this address.
Mined(tx, at, ok) ==
  /\ mempool # <<>> /\ tx = mempool[1] /\ mempool' = Tail(mempool)
  /\ receipt' = IF tx.awaited THEN <<[ok |-> ok, at |-> at]>> ELSE receipt
  /\ \/ /\ tx.op = "deploy" /\ at = Fresh(tx.at[1])
        /\ contracts' = Created(at, tx.args, ok) /\ link' = link
     \/ /\ tx.op = "create2" /\ at = tx.at /\ link' = link
        /\ contracts' = IF ok THEN [contracts EXCEPT ![at].live = TRUE] ELSE contracts
     \/ /\ tx.op = "set" /\ at = tx.at /\ contracts' = contracts
        /\ ok => Accepts(at, tx.slot, tx.args[1])
        /\ link' = IF ok /\ (Live(at) \/ tx.slot \in Payments)
                   THEN With(link, <<at, tx.slot>>, tx.args[1]) ELSE link

\* Every step of the chain is of this form.
LEMMA MineShape ==
  ASSUME ProcessIsTyped, NEW gas \in BOOLEAN, Mine(gas)
  PROVE  /\ \E tx \in Transaction, ok \in BOOLEAN : \E at : Mined(tx, at, ok)
         /\ UNCHANGED <<settings, state, pc, rpc, addr, env, published, runs>>
<1> DEFINE tx == Head(mempool)
           at == IF tx.op = "deploy" THEN Fresh(tx.at[1]) ELSE tx.at
           ok == gas /\ CASE tx.op = "deploy"  -> TRUE
                          [] tx.op = "create2" -> FromFactory(tx) \/ ~Live(at)
                          [] OTHER -> Accepts(at, tx.slot, tx.args[1])
<1>1. mempool # <<>> /\ mempool \in Seq(Transaction) BY DEF Mine, ProcessIsTyped
<1>2. tx = mempool[1] /\ tx \in Transaction BY <1>1, TailKeeps
<1>3. tx.op = "deploy" \/ tx.op = "create2" \/ tx.op = "set" BY <1>2 DEF Transaction
<1>4. ok \in BOOLEAN /\ (ok /\ tx.op = "set" => Accepts(at, tx.slot, tx.args[1]))
  BY Zenon, "deploy" # "set", "create2" # "set"
<1>5. /\ contracts' = CASE tx.op = "deploy" -> Created(at, tx.args, ok)
                        [] tx.op = "create2" /\ ok -> [contracts EXCEPT ![at].live = TRUE]
                        [] OTHER -> contracts
      /\ link' = IF tx.op = "set" /\ ok /\ (Live(at) \/ tx.slot \in Payments)
                 THEN With(link, <<at, tx.slot>>, tx.args[1]) ELSE link
      /\ receipt' = IF tx.awaited THEN <<[ok |-> ok, at |-> at]>> ELSE receipt
      /\ mempool' = Tail(mempool)
      /\ UNCHANGED <<settings, state, pc, rpc, addr, env, published, runs>>
  BY Zenon DEF Mine
<1>6. tx.op = "deploy" => at = Fresh(tx.at[1]) OBVIOUS
<1>7. tx.op # "deploy" => at = tx.at OBVIOUS
<1> HIDE DEF tx, at, ok
<1>8. tx.op = "deploy" => contracts' = Created(at, tx.args, ok) /\ link' = link BY <1>5
<1>9. tx.op = "create2" =>
        /\ contracts' = IF ok THEN [contracts EXCEPT ![at].live = TRUE] ELSE contracts
        /\ link' = link
  BY <1>5
<1>10. tx.op = "set" =>
         /\ contracts' = contracts
         /\ link' = IF ok /\ (Live(at) \/ tx.slot \in Payments)
                    THEN With(link, <<at, tx.slot>>, tx.args[1]) ELSE link
  BY <1>5
<1>11. Mined(tx, at, ok)
  BY <1>1, <1>2, <1>3, <1>4, <1>5, <1>6, <1>7, <1>8, <1>9, <1>10, Zenon DEF Mined
<1> QED BY <1>2, <1>4, <1>5, <1>11

\* Contracts stay, and what is new is new.
LEMMA MiningKeepsChain ==
  ASSUME ChainIsPacked, ProcessIsTyped, ValuesFit,
         NEW tx \in Transaction, NEW ok \in BOOLEAN, NEW at, Mined(tx, at, ok)
  PROVE  /\ ChainIsPacked' /\ ContractsRemain
         /\ tx.op = "deploy" /\ ok => Stands(tx.at[1], at)' /\ contracts'[at].args = tx.args
         /\ tx.op = "create2" /\ ok => contracts'[at].live
<1>1. tx.at \in Address /\ tx.args \in Seq(Address) /\ artifact \in Builds
  BY DEF Transaction, ProcessIsTyped
<1>2. CASE tx.op = "deploy"
  <2> DEFINE new == [args |-> tx.args, live |-> ok, build |-> artifact]
  <2>1. tx.at[1] \in STRING BY <1>1 DEF Address
  <2>2. new \in Contract BY <1>1 DEF Contract
  <2>3. contracts' = With(contracts, Fresh(tx.at[1]), new) /\ at = Fresh(tx.at[1])
    BY <1>2 DEF Mined, Created
  <2>4. at[1] = tx.at[1] BY <2>1, <2>3, FreshIsNew
  <2>5. new.args = tx.args /\ new.live = ok OBVIOUS
  <2> HIDE DEF new
  <2>6. /\ ChainIsPacked' /\ ContractsRemain
        /\ DOMAIN contracts' = DOMAIN contracts \cup {at} /\ contracts'[at] = new
    BY <2>1, <2>2, <2>3, CreationKeepsChain
  <2> QED BY <1>2, <2>4, <2>5, <2>6 DEF Stands
<1>3. CASE tx.op = "create2"
  <2>1. at \in DOMAIN contracts
    <3>1. tx = mempool[1] /\ 1 \in DOMAIN mempool
      BY TailKeeps DEF Mined, ProcessIsTyped
    <3> QED BY <1>3, <3>1 DEF Mined, ValuesFit, Sensible
  <2>2. contracts' = (IF ok THEN [contracts EXCEPT ![at].live = TRUE] ELSE contracts)
    BY <1>3 DEF Mined
  <2>3. \A c \in DOMAIN contracts :
          /\ c \in Address /\ contracts[c] \in Contract
          /\ [contracts[c] EXCEPT !.live = TRUE] \in Contract
          /\ [contracts[c] EXCEPT !.live = TRUE].args = contracts[c].args
          /\ [contracts[c] EXCEPT !.live = TRUE].build = contracts[c].build
          /\ [contracts[c] EXCEPT !.live = TRUE].live
    <3>1. ASSUME NEW r \in Contract
          PROVE  LET new == [r EXCEPT !.live = TRUE]
                 IN new \in Contract /\ new.args = r.args /\ new.build = r.build /\ new.live
      BY DEF Contract
    <3> QED BY <3>1 DEF ChainIsPacked
  <2>4. DOMAIN contracts' = DOMAIN contracts BY <2>2
  <2>5. \A c \in DOMAIN contracts :
          contracts'[c] = IF ok /\ c = at THEN [contracts[c] EXCEPT !.live = TRUE] ELSE contracts[c]
    BY <2>1, <2>2
  <2>6. ContractsRemain BY <2>3, <2>4, <2>5 DEF ContractsRemain
  <2>7. \A k : OfKey(k)' = OfKey(k) BY <2>4 DEF OfKey
  <2>8. ChainIsPacked' BY <2>3, <2>4, <2>5, <2>7 DEF ChainIsPacked
  <2> QED BY <1>3, <2>1, <2>3, <2>5, <2>6, <2>8
<1>4. CASE tx.op = "set"
  <2>1. contracts' = contracts BY <1>4 DEF Mined
  <2>2. ChainIsPacked' BY <2>1 DEF ChainIsPacked, OfKey
  <2>3. ContractsRemain BY <2>1 DEF ContractsRemain
  <2> QED BY <1>4, <2>2, <2>3
<1>5. tx.op = "deploy" \/ tx.op = "create2" \/ tx.op = "set" BY DEF Transaction
<1> QED BY <1>2, <1>3, <1>4, <1>5

\* A slot that holds what it shall hold goes on doing so.
WiringRemains == \A c, slot, v : v # None /\ WiredTo(c, slot, v) => WiredTo(c, slot, v)'

\* A slot keeps its value or takes that of the transaction.
LEMMA MinedSlots ==
  ASSUME NEW tx \in Transaction, NEW ok \in BOOLEAN, NEW at, Mined(tx, at, ok)
  PROVE  /\ DOMAIN link \subseteq DOMAIN link'
         /\ \A l \in DOMAIN link' :
              \/ l \in DOMAIN link /\ link'[l] = link[l]
              \/ /\ tx.op = "set" /\ ok /\ l = <<tx.at, tx.slot>> /\ link'[l] = tx.args[1]
                 /\ Accepts(tx.at, tx.slot, tx.args[1])
                 /\ Live(tx.at) \/ tx.slot \in Payments
<1>1. CASE link' = link BY <1>1
<1>2. CASE /\ tx.op = "set" /\ ok /\ link' = With(link, <<tx.at, tx.slot>>, tx.args[1])
           /\ Accepts(tx.at, tx.slot, tx.args[1])
           /\ Live(tx.at) \/ tx.slot \in Payments
  BY <1>2 DEF With
<1>3. link' = link \/ /\ tx.op = "set" /\ ok /\ link' = With(link, <<tx.at, tx.slot>>, tx.args[1])
                      /\ Accepts(tx.at, tx.slot, tx.args[1])
                      /\ Live(tx.at) \/ tx.slot \in Payments
  BY Zenon DEF Mined
<1> QED BY <1>1, <1>2, <1>3

\* What is left of the mempool is what was behind the first transaction.
LEMMA MinedQueue ==
  ASSUME ProcessIsTyped, NEW tx \in Transaction, NEW ok \in BOOLEAN, NEW at, Mined(tx, at, ok)
  PROVE  /\ 1 \in DOMAIN mempool /\ tx = mempool[1] /\ mempool' \in Seq(Transaction)
         /\ Len(mempool) \in Nat /\ Len(mempool') = Len(mempool) - 1
         /\ \A n \in DOMAIN mempool' : /\ n \in Nat /\ n >= 1 /\ n + 1 \in DOMAIN mempool
                                       /\ mempool'[n] = mempool[n + 1]
                                       /\ \A m \in 1 .. n - 1 : /\ m + 1 \in 1 .. (n + 1) - 1
                                                                /\ m \in DOMAIN mempool'
                                       /\ 1 \in 1 .. (n + 1) - 1
<1>1. mempool # <<>> /\ mempool' = Tail(mempool) /\ tx = mempool[1] /\ mempool \in Seq(Transaction)
  BY DEF Mined, ProcessIsTyped
<1>2. /\ 1 \in DOMAIN mempool /\ Tail(mempool) \in Seq(Transaction)
      /\ Len(mempool) \in Nat /\ Len(Tail(mempool)) = Len(mempool) - 1
      /\ DOMAIN Tail(mempool) = 1 .. Len(mempool) - 1
      /\ \A n \in DOMAIN Tail(mempool) : /\ n \in Nat /\ n + 1 \in DOMAIN mempool
                                         /\ Tail(mempool)[n] = mempool[n + 1]
  BY <1>1, TailKeeps
<1>3. \A k \in Nat : \A n \in 1 .. k - 1 :
        /\ n >= 1 /\ 1 \in 1 .. (n + 1) - 1
        /\ \A m \in 1 .. n - 1 : m + 1 \in 1 .. (n + 1) - 1 /\ m \in 1 .. k - 1
  OBVIOUS
<1> QED BY <1>1, <1>2, <1>3, Zenon

\* Mining keeps every value in its place and every order, and wires nothing anew.
LEMMA MiningKeepsValues ==
  ASSUME ChainInv, ProcessIsTyped, UNCHANGED <<script, addr, env>>,
         NEW tx \in Transaction, NEW ok \in BOOLEAN, NEW at, Mined(tx, at, ok)
  PROVE  ValuesFit' /\ OrderHolds' /\ WiringRemains
<1>1. ContractsRemain BY MiningKeepsChain DEF ChainInv
<1>2. DOMAIN contracts \subseteq DOMAIN contracts' BY <1>1 DEF ContractsRemain
<1>3. /\ 1 \in DOMAIN mempool /\ tx = mempool[1]
      /\ \A n \in DOMAIN mempool' : /\ n \in Nat /\ n + 1 \in DOMAIN mempool
                                    /\ mempool'[n] = mempool[n + 1]
                                    /\ \A m \in 1 .. n - 1 : /\ m + 1 \in 1 .. (n + 1) - 1
                                                             /\ m \in DOMAIN mempool'
                                    /\ 1 \in 1 .. (n + 1) - 1
  BY MinedQueue
<1>4. /\ DOMAIN link \subseteq DOMAIN link'
      /\ \A l \in DOMAIN link' :
           \/ l \in DOMAIN link /\ link'[l] = link[l]
           \/ /\ tx.op = "set" /\ ok /\ l = <<tx.at, tx.slot>> /\ link'[l] = tx.args[1]
              /\ Accepts(tx.at, tx.slot, tx.args[1])
              /\ Live(tx.at) \/ tx.slot \in Payments
  BY MinedSlots
<1>5. Sensible(tx) BY <1>3 DEF ChainInv, ValuesFit
<1>6. \A c, slot, v : FitsSlot(c, slot, v)' = FitsSlot(c, slot, v) BY DEF FitsSlot, Steps
<1>7. ValuesFit'
  <2>1. ASSUME NEW l \in DOMAIN link'
        PROVE  link'[l] \in DOMAIN contracts' /\ FitsSlot(l[1], l[2], link'[l])
    <3>1. CASE l \in DOMAIN link /\ link'[l] = link[l]
      BY <1>2, <3>1 DEF ChainInv, ValuesFit
    <3>2. CASE tx.op = "set" /\ l = <<tx.at, tx.slot>> /\ link'[l] = tx.args[1]
      BY <1>2, <1>5, <3>2 DEF Sensible
    <3> QED BY <1>4, <3>1, <3>2
  <2>2. ASSUME NEW n \in DOMAIN mempool'
        PROVE  LET next == mempool'[n] IN
               /\ next.op # "deploy" => next.at \in DOMAIN contracts'
               /\ next.op = "set" => /\ Len(next.args) = 1 /\ next.args[1] \in DOMAIN contracts'
                                     /\ FitsSlot(next.at, next.slot, next.args[1])
    <3>1. Sensible(mempool[n + 1]) /\ mempool'[n] = mempool[n + 1]
      BY <1>3 DEF ChainInv, ValuesFit
    <3> DEFINE next == mempool[n + 1]
    <3>2. /\ next.op # "deploy" => next.at \in DOMAIN contracts'
          /\ next.op = "set" => /\ Len(next.args) = 1 /\ next.args[1] \in DOMAIN contracts'
                                /\ FitsSlot(next.at, next.slot, next.args[1])
      BY <1>2, <3>1 DEF Sensible
    <3> QED BY <3>1, <3>2
  <2>3. \A l \in DOMAIN link' : link'[l] \in DOMAIN contracts' /\ FitsSlot(l[1], l[2], link[l])'
    BY <2>1 DEF FitsSlot, Steps
  <2>4. \A n \in DOMAIN mempool' : Sensible(mempool[n])'
    BY <2>2 DEF Sensible, FitsSlot, Steps
  <2> QED BY <2>3, <2>4 DEF ValuesFit
<1>8. OrderHolds'
  <2>1. \A v : NotAhead(v)' = NotAhead(v) BY DEF NotAhead, NotAfter
  <2>2. \A v, w : NotAfter(v, w)' = NotAfter(v, w) BY DEF NotAfter
  <2>3. ASSUME NEW l \in DOMAIN link' PROVE NotAhead(link'[l])
    <3>1. tx.op = "set" => NotAhead(tx.args[1]) BY <1>3 DEF ChainInv, OrderHolds
    <3> QED BY <1>4, <3>1 DEF ChainInv, OrderHolds
  <2>4. ASSUME NEW n \in DOMAIN mempool', mempool'[n].op = "set"
        PROVE  LET w == mempool'[n].args[1] l == <<mempool'[n].at, mempool'[n].slot>> IN
               /\ NotAhead(w)
               /\ l \in DOMAIN link' => NotAfter(link'[l], w)
               /\ \A m \in 1 .. n - 1 :
                    Fills(mempool'[m], mempool'[n].at, mempool'[n].slot)
                      => NotAfter(mempool'[m].args[1], w)
    <3> DEFINE next == mempool[n + 1]  l == <<next.at, next.slot>>
    <3>1. n + 1 \in DOMAIN mempool /\ mempool'[n] = next BY <1>3
    <3>2. /\ NotAhead(next.args[1])
          /\ l \in DOMAIN link => NotAfter(link[l], next.args[1])
          /\ \A m \in 1 .. (n + 1) - 1 :
               Fills(mempool[m], next.at, next.slot) => NotAfter(mempool[m].args[1], next.args[1])
      BY <2>4, <3>1 DEF ChainInv, OrderHolds
    <3>3. ASSUME l \in DOMAIN link' PROVE NotAfter(link'[l], next.args[1])
      <4>1. CASE l \in DOMAIN link /\ link'[l] = link[l] BY <3>2, <4>1
      <4>2. CASE tx.op = "set" /\ l = <<tx.at, tx.slot>> /\ link'[l] = tx.args[1]
        <5>1. Fills(mempool[1], next.at, next.slot) BY <1>3, <4>2 DEF Fills
        <5>2. 1 \in 1 .. (n + 1) - 1 BY <1>3
        <5>3. NotAfter(mempool[1].args[1], next.args[1]) BY <3>2, <5>1, <5>2
        <5> QED BY <1>3, <4>2, <5>3
      <4> QED BY <1>4, <3>3, <4>1, <4>2
    <3>4. ASSUME NEW m \in 1 .. n - 1, Fills(mempool'[m], next.at, next.slot)
          PROVE  NotAfter(mempool'[m].args[1], next.args[1])
      <4>1. m \in DOMAIN mempool' /\ m + 1 \in 1 .. (n + 1) - 1 BY <1>3
      <4>2. mempool'[m] = mempool[m + 1] BY <1>3, <4>1
      <4> QED BY <3>2, <3>4, <4>1, <4>2
    <3> QED BY <3>1, <3>2, <3>3, <3>4
  <2>5. \A l \in DOMAIN link' : NotAhead(link[l])'
    BY <2>3 DEF NotAhead, NotAfter
  <2>6. \A n \in DOMAIN mempool' : mempool'[n].op = "set" =>
          /\ NotAhead(mempool[n].args[1])'
          /\ <<mempool'[n].at, mempool'[n].slot>> \in DOMAIN link' =>
               NotAfter(link[<<mempool[n].at, mempool[n].slot>>], mempool[n].args[1])'
          /\ \A m \in 1 .. n - 1 :
               Fills(mempool[m], mempool[n].at, mempool[n].slot)' =>
                 NotAfter(mempool[m].args[1], mempool[n].args[1])'
    BY <2>4 DEF NotAhead, NotAfter, Fills
  <2> QED BY <2>5, <2>6 DEF OrderHolds
<1>9. WiringRemains
  <2> SUFFICES ASSUME NEW c, NEW slot, NEW v, v # None, WiredTo(c, slot, v)
               PROVE  WiredTo(c, slot, v)'
    BY DEF WiringRemains
  <2>1. <<c, slot>> \in DOMAIN link /\ link[<<c, slot>>] = v BY DEF WiredTo, Stored
  <2>2. link'[<<c, slot>>] = v /\ <<c, slot>> \in DOMAIN link'
    <3>1. CASE link'[<<c, slot>>] = link[<<c, slot>>] BY <1>4, <2>1, <3>1
    <3>2. CASE /\ tx.op = "set" /\ <<c, slot>> = <<tx.at, tx.slot>>
               /\ link'[<<c, slot>>] = tx.args[1]
               /\ Accepts(tx.at, tx.slot, tx.args[1]) /\ (Live(tx.at) \/ tx.slot \in Payments)
      <4>1. c = tx.at /\ slot = tx.slot BY <3>2
      <4>2. CASE slot \in SetOnce
        <5>1. slot \notin Payments BY <4>2 DEF SetOnce, Payments
        <5>2. Stored(c, slot) = None BY <3>2, <4>1, <4>2, <5>1 DEF Accepts
        <5> QED BY <5>2 DEF WiredTo
      <4>3. CASE slot \notin SetOnce
        <5>1. Fills(mempool[1], c, slot) BY <1>3, <3>2, <4>1 DEF Fills
        <5>2. mempool[1].args[1] = v BY <1>3, <4>3, <5>1 DEF WiredTo
        <5> QED BY <1>3, <1>4, <2>1, <3>2, <5>2
      <4> QED BY <4>2, <4>3
    <3> QED BY <1>4, <2>1, <3>1, <3>2
  <2>3. Stored(c, slot)' = v BY <2>2 DEF Stored
  <2>4. ASSUME slot \notin SetOnce, NEW n \in DOMAIN mempool', Fills(mempool'[n], c, slot)
        PROVE  mempool'[n].args[1] = v
    BY <1>3, <2>4 DEF WiredTo
  <2>5. slot \notin SetOnce =>
          \A n \in DOMAIN mempool' : Fills(mempool[n], c, slot)' => mempool'[n].args[1] = v
    BY <2>4 DEF Fills
  <2> QED BY <2>3, <2>5 DEF WiredTo
<1> QED BY <1>7, <1>8, <1>9

-----------------------------------------------------------------------------
(* Sending and giving up. *)

\* No key that is known is the name of no contract.
LEMMA NoneIsUnknown ==
  ASSUME Sound(script), NEW i \in 1 .. Len(Steps) + 1
  PROVE  "none" \notin KnownBefore(script, i)
<1>1. \A j \in 1 .. i - 1 : j \in DOMAIN Steps BY StepsAreTyped
<1>2. \A j \in DOMAIN Steps : Creates(Steps[j]) => Steps[j].on # "none"
  BY StepsAreSound DEF NamesKnownKeys, Steps
<1>3. "none" \notin script.inherited BY DEF Sound
<1> QED BY <1>1, <1>2, <1>3 DEF KnownBefore, Steps

\* The keys and the addresses that the present step works with.
LEMMA ThePresentStep ==
  ASSUME Sound(script), ChainIsPacked, ProcessIsTyped, AddressesStand,
         state # "idle", pc \in DOMAIN Steps
  PROVE  /\ Now \in StepRecord /\ Now = Steps[pc] /\ pc \in Nat \ {0}
         /\ DOMAIN addr = KnownBefore(script, pc)
         /\ \A k \in DOMAIN addr :
              /\ addr[k] \in Address /\ addr[k] \in DOMAIN contracts
              /\ addr[k][1] = k /\ At(k) = addr[k] /\ addr[k] # None
         /\ Given \in Seq(Address) /\ Len(Given) = Len(Now.to)
         /\ \A j \in DOMAIN Now.to : Now.to[j] \in DOMAIN addr /\ Given[j] = addr[Now.to[j]]
         /\ IF Creates(Now) THEN Now.on \notin DOMAIN addr ELSE Now.on \in DOMAIN addr
<1>1. Now = Steps[pc] /\ Now \in StepRecord BY StepsAreTyped DEF Now
<1>2. DOMAIN addr = KnownBefore(script, pc) BY DEF AddressesStand
<1>3. pc \in Nat \ {0} /\ pc \in 1 .. Len(Steps) + 1 BY StepsAreTyped DEF ProcessIsTyped
<1>4. "none" \notin DOMAIN addr BY <1>2, <1>3, NoneIsUnknown
<1>5. \A k \in DOMAIN addr :
        /\ addr[k] \in Address /\ addr[k] \in DOMAIN contracts
        /\ addr[k][1] = k /\ At(k) = addr[k] /\ addr[k] # None
  <2> TAKE k \in DOMAIN addr
  <2>1. addr[k] \in DOMAIN contracts /\ addr[k][1] = k BY DEF AddressesStand, Stands
  <2>2. addr[k] \in Address BY <2>1 DEF ChainIsPacked
  <2>3. At(k) = addr[k] BY DEF At
  <2>4. None[1] = "none" BY DEF None
  <2> QED BY <1>4, <2>1, <2>2, <2>3, <2>4
<1>6. /\ \A j \in DOMAIN Now.to : Now.to[j] \in DOMAIN addr
      /\ IF Creates(Now) THEN Now.on \notin DOMAIN addr ELSE Now.on \in DOMAIN addr
  BY <1>1, <1>2, StepsAreSound DEF NamesKnownKeys, Steps
<1>7. Given = [j \in DOMAIN Now.to |-> At(Now.to[j])] BY DEF Given
<1>8. \A j \in DOMAIN Now.to : Given[j] = addr[Now.to[j]] /\ Given[j] \in Address
  BY <1>5, <1>6, <1>7
<1>9. DOMAIN Now.to = 1 .. Len(Now.to) /\ Len(Now.to) \in Nat BY <1>1, StepsAreTyped
<1>10. Given \in [1 .. Len(Now.to) -> Address] BY <1>7, <1>8, <1>9
<1>11. Given \in Seq(Address) BY <1>9, <1>10, SeqDef
<1>12. Len(Given) = Len(Now.to)
  <2>1. DOMAIN Given = 1 .. Len(Now.to) BY <1>7, <1>9
  <2>2. DOMAIN Given = 1 .. Len(Given) /\ Len(Given) \in Nat BY <1>11
  <2> QED BY <1>9, <2>1, <2>2
<1> QED BY <1>1, <1>2, <1>3, <1>5, <1>6, <1>8, <1>11, <1>12

\* A predicted address is one of its key: of a contract made like this, or a new one.
LEMMA PredictedIsOfItsKey ==
  ASSUME ChainIsPacked, NEW key \in STRING, NEW args
  PROVE  LET at == Predicted(key, args)
         IN /\ at[1] = key
            /\ at \in DOMAIN contracts => contracts[at].args = args
            /\ at \notin DOMAIN contracts => at = Fresh(key)
            /\ at \in Address
<1> DEFINE same == {c \in DOMAIN contracts : c[1] = key /\ contracts[c].args = args}
           at == Predicted(key, args)
<1>1. CASE same = {}
  <2>1. at = Fresh(key) BY <1>1 DEF Predicted
  <2> QED BY <2>1, FreshIsNew
<1>2. CASE same # {}
  <2>1. at = CHOOSE c \in same : TRUE BY <1>2 DEF Predicted
  <2>2. at \in same BY <1>2, <2>1, Zenon
  <2> QED BY <2>2 DEF ChainIsPacked
<1> QED BY <1>1, <1>2

\* The present step has sent this transaction.
Sent(tx) ==
  /\ mempool' = Append(mempool, tx)
  /\ tx.awaited /\ tx.op = Now.op /\ tx.slot = Now.slot /\ tx.args = Given
  /\ Now.op = "deploy" => tx.at = <<Now.on, 0>> /\ contracts' = contracts
  /\ Now.op = "create2" =>
       /\ tx.at = Predicted(Now.on, Given)
       /\ contracts' = IF tx.at \in DOMAIN contracts THEN contracts
                       ELSE Created(tx.at, Given, FALSE)
  /\ Now.op = "set" => tx.at = At(Now.on) /\ contracts' = contracts

\* Every sending is of this form.
LEMMA SendShape ==
  ASSUME Sound(script), ChainIsPacked, ProcessIsTyped, AddressesStand, Send
  PROVE  /\ \E tx \in Transaction : Sent(tx)
         /\ state = "running" /\ pc \in DOMAIN Steps /\ Now.op \in {"deploy", "create2", "set"}
         /\ state' = "waiting" /\ UNCHANGED <<settings, link, pc, rpc, addr, receipt, operator>>
<1>1. state = "running" /\ pc \in DOMAIN Steps BY DEF Send, Running
<1>2. Now.op \in {"deploy", "create2", "set"}
  BY <1>1, StepsAreSound DEF Send, NamesKnownKeys, Steps, Now
<1>3. /\ Now \in StepRecord /\ Given \in Seq(Address)
      /\ IF Creates(Now) THEN Now.on \notin DOMAIN addr ELSE Now.on \in DOMAIN addr
      /\ \A k \in DOMAIN addr : addr[k] \in Address /\ At(k) = addr[k]
  BY <1>1, ThePresentStep
<1> DEFINE at == CASE Now.op = "deploy" -> <<Now.on, 0>>
                   [] Now.op = "create2" -> Predicted(Now.on, Given)
                   [] OTHER -> At(Now.on)
           tx == [op |-> Now.op, at |-> at, slot |-> Now.slot, args |-> Given, awaited |-> TRUE]
<1>4. Now.on \in STRING /\ Now.slot \in STRING BY <1>3 DEF StepRecord
<1>5. /\ Now.op = "deploy" => at = <<Now.on, 0>>
      /\ Now.op = "create2" => at = Predicted(Now.on, Given)
      /\ Now.op = "set" => at = At(Now.on)
  OBVIOUS
<1>6. at \in Address
  <2>1. <<Now.on, 0>> \in Address BY <1>4 DEF Address
  <2>2. Predicted(Now.on, Given) \in Address BY <1>4, PredictedIsOfItsKey
  <2>3. Now.op = "set" => At(Now.on) \in Address BY <1>3 DEF Creates
  <2> QED BY <1>2, <1>5, <2>1, <2>2, <2>3
<1>7. /\ mempool' = Append(mempool, tx)
      /\ contracts' = IF Now.op = "create2" /\ at \notin DOMAIN contracts
                      THEN Created(at, Given, FALSE) ELSE contracts
      /\ state' = "waiting" /\ UNCHANGED <<settings, link, pc, rpc, addr, receipt, operator>>
  BY Zenon DEF Send
<1> HIDE DEF at
<1>8. tx \in Transaction BY <1>2, <1>3, <1>4, <1>6 DEF Transaction
<1>9. Sent(tx) BY <1>2, <1>5, <1>7 DEF Sent
<1> QED BY <1>1, <1>2, <1>7, <1>8, <1>9

\* Sending announces at most a CREATE2 address, and builds nothing anew.
LEMMA SendingKeepsChain ==
  ASSUME ChainIsPacked, ProcessIsTyped, NEW tx \in Transaction, Sent(tx),
         Now.op \in {"deploy", "create2", "set"}, Now \in StepRecord, Given \in Seq(Address)
  PROVE  /\ ChainIsPacked' /\ ContractsRemain
         /\ Creates(Now) => tx.at[1] = Now.on
         /\ Now.op = "create2" => tx.at \in DOMAIN contracts' /\ contracts'[tx.at].args = Given
<1>1. Now.on \in STRING /\ artifact \in Builds BY DEF StepRecord, ProcessIsTyped
<1>2. CASE Now.op = "create2" /\ tx.at \notin DOMAIN contracts
  <2> DEFINE new == [args |-> Given, live |-> FALSE, build |-> artifact]
  <2>1. tx.at = Fresh(Now.on) /\ tx.at[1] = Now.on
    <3>1. tx.at = Predicted(Now.on, Given) BY <1>2 DEF Sent
    <3>2. /\ Predicted(Now.on, Given)[1] = Now.on
          /\ Predicted(Now.on, Given) \notin DOMAIN contracts
               => Predicted(Now.on, Given) = Fresh(Now.on)
      BY <1>1, PredictedIsOfItsKey, Zenon
    <3> QED BY <1>2, <3>1, <3>2
  <2>2. contracts' = With(contracts, Fresh(Now.on), new)
    BY <1>2, <2>1 DEF Sent, Created
  <2>3. new \in Contract /\ new.args = Given BY <1>1 DEF Contract
  <2> HIDE DEF new
  <2>4. /\ ChainIsPacked' /\ ContractsRemain
        /\ DOMAIN contracts' = DOMAIN contracts \cup {tx.at} /\ contracts'[tx.at] = new
    BY <1>1, <2>1, <2>2, <2>3, CreationKeepsChain
  <2> QED BY <2>1, <2>3, <2>4
<1>3. CASE ~(Now.op = "create2" /\ tx.at \notin DOMAIN contracts)
  <2>1. contracts' = contracts BY <1>3 DEF Sent
  <2>2. ChainIsPacked' BY <2>1 DEF ChainIsPacked, OfKey
  <2>3. ContractsRemain BY <2>1 DEF ContractsRemain
  <2>4. Now.op = "deploy" => tx.at[1] = Now.on BY DEF Sent
  <2>5. Now.op = "create2" => tx.at[1] = Now.on /\ contracts[tx.at].args = Given
    <3>1. Now.op = "create2" => tx.at = Predicted(Now.on, Given) /\ tx.at \in DOMAIN contracts
      BY <1>3 DEF Sent
    <3>2. /\ Predicted(Now.on, Given)[1] = Now.on
          /\ Predicted(Now.on, Given) \in DOMAIN contracts
               => contracts[Predicted(Now.on, Given)].args = Given
      BY <1>1, PredictedIsOfItsKey, Zenon
    <3> QED BY <3>1, <3>2
  <2> QED BY <1>3, <2>1, <2>2, <2>3, <2>4, <2>5 DEF Creates
<1> QED BY <1>2, <1>3

\* The value that the present step sends fits, and is not ahead of anything.
LEMMA TheSentValueFits ==
  ASSUME Sound(script), ChainInv, ProcessInv, state # "idle", pc \in DOMAIN Steps,
         Now.op = "set", NEW tx \in Transaction, Sent(tx)
  PROVE  /\ Len(tx.args) = 1 /\ tx.args[1] = addr[Now.to[1]] /\ tx.at = addr[Now.on]
         /\ Now.to[1] \in DOMAIN addr /\ Now.on \in DOMAIN addr
         /\ tx.args[1] \in DOMAIN contracts /\ tx.at \in DOMAIN contracts
         /\ FitsSlot(tx.at, tx.slot, tx.args[1]) /\ NotAhead(tx.args[1])
         /\ \A v : NotAhead(v) => NotAfter(v, tx.args[1])
<1>1. /\ Now = Steps[pc]
      /\ \A k \in DOMAIN addr :
           /\ addr[k] \in Address /\ addr[k] \in DOMAIN contracts
           /\ addr[k][1] = k /\ At(k) = addr[k]
      /\ Len(Given) = Len(Now.to)
      /\ \A j \in DOMAIN Now.to : Now.to[j] \in DOMAIN addr /\ Given[j] = addr[Now.to[j]]
      /\ Now.on \in DOMAIN addr
  BY ThePresentStep DEF ChainInv, ProcessInv, Creates
<1>2. FillsFromOneSource(script, pc) BY StepsAreSound
<1>3. /\ Len(Now.to) = 1
      /\ \A j \in DOMAIN Steps :
           Steps[j].op = "set" /\ Steps[j].on = Now.on /\ Steps[j].slot = Now.slot
             => Steps[j].to = Now.to
  BY <1>1, <1>2 DEF FillsFromOneSource, Steps
<1>4. 1 \in DOMAIN Now.to BY <1>1, <1>3, StepsAreTyped
<1> DEFINE k == Now.to[1]  v == addr[k]
<1>5. k \in DOMAIN addr /\ Given[1] = v /\ Len(Given) = 1 BY <1>1, <1>3, <1>4
<1>6. tx.args = Given /\ tx.at = addr[Now.on] /\ tx.slot = Now.slot BY <1>1 DEF Sent
<1>7. v \in Address /\ v \in DOMAIN contracts /\ v[1] = k BY <1>1, <1>5
<1>8. tx.at[1] = Now.on BY <1>1, <1>6
<1>9. FitsSlot(tx.at, tx.slot, v)
  <2> SUFFICES ASSUME NEW i \in DOMAIN Steps, Steps[i].op = "set", Steps[i].on = tx.at[1],
                      Steps[i].slot = tx.slot
               PROVE  v[1] = Steps[i].to[1] /\ (Steps[i].to[1] = Steps[i].on => v = tx.at)
    BY DEF FitsSlot
  <2>1. Steps[i].to = Now.to BY <1>3, <1>6, <1>8
  <2> QED BY <1>6, <1>7, <1>8, <2>1
<1>10. v[2] <= v[2] BY <1>7 DEF Address
<1>11. k \in DOMAIN env => env[k] = v BY <1>5 DEF ProcessInv, EnvironmentStands
<1>12. NotAhead(v) BY <1>5, <1>7, <1>10, <1>11 DEF NotAhead, NotAfter
<1>13. \A w : NotAhead(w) => NotAfter(w, v) BY <1>5, <1>7 DEF NotAhead, NotAfter
<1> QED BY <1>1, <1>5, <1>6, <1>7, <1>9, <1>12, <1>13

\* Sending keeps every value in its place and every order.
LEMMA SendingKeepsValues ==
  ASSUME Sound(script), ChainInv, ProcessInv, state # "idle", pc \in DOMAIN Steps,
         Now.op \in {"deploy", "create2", "set"}, NEW tx \in Transaction, Sent(tx),
         UNCHANGED <<script, link, addr, env>>
  PROVE  ValuesFit' /\ OrderHolds'
<1>1. Now \in StepRecord /\ Given \in Seq(Address)
  BY ThePresentStep DEF ChainInv, ProcessInv
<1>2. /\ ContractsRemain
      /\ Now.op = "create2" => tx.at \in DOMAIN contracts'
  BY <1>1, SendingKeepsChain DEF ChainInv, ProcessInv
<1>3. DOMAIN contracts \subseteq DOMAIN contracts' BY <1>2 DEF ContractsRemain
<1>4. tx.op = Now.op BY DEF Sent
<1>5. tx.op = "set" =>
        /\ Len(tx.args) = 1 /\ tx.args[1] \in DOMAIN contracts /\ tx.at \in DOMAIN contracts
        /\ FitsSlot(tx.at, tx.slot, tx.args[1]) /\ NotAhead(tx.args[1])
        /\ \A v : NotAhead(v) => NotAfter(v, tx.args[1])
  BY <1>4, TheSentValueFits
<1>6. /\ mempool' = Append(mempool, tx)
      /\ \A n \in DOMAIN mempool' :
           \/ n \in DOMAIN mempool /\ mempool'[n] = mempool[n]
           \/ n = Len(mempool) + 1 /\ mempool'[n] = tx
  BY AppendKeeps DEF Sent, ProcessInv, ProcessIsTyped
<1>7. \A n \in DOMAIN mempool' : \A m \in 1 .. n - 1 : m \in DOMAIN mempool /\ mempool'[m] = mempool[m]
  <2>1. /\ mempool \in Seq(Transaction) /\ mempool' \in Seq(Transaction)
        /\ Len(mempool') = Len(mempool) + 1
    BY <1>6, AppendKeeps DEF ProcessInv, ProcessIsTyped
  <2>2. DOMAIN mempool = 1 .. Len(mempool) /\ DOMAIN mempool' = 1 .. Len(mempool')
        /\ Len(mempool) \in Nat
    BY <2>1
  <2>3. \A k \in Nat : \A n \in 1 .. k + 1 : \A m \in 1 .. n - 1 :
          m \in 1 .. k /\ m \in 1 .. k + 1 /\ m # k + 1
    OBVIOUS
  <2>4. \A n \in DOMAIN mempool' : \A m \in 1 .. n - 1 :
          m \in DOMAIN mempool /\ m \in DOMAIN mempool' /\ m # Len(mempool) + 1
    BY <2>1, <2>2, <2>3, Zenon
  <2> QED BY <1>6, <2>4, Zenon
<1>8. ASSUME NEW n \in DOMAIN mempool'
      PROVE  LET next == mempool'[n] IN
             /\ next.op # "deploy" => next.at \in DOMAIN contracts'
             /\ next.op = "set" => /\ Len(next.args) = 1 /\ next.args[1] \in DOMAIN contracts'
                                   /\ FitsSlot(next.at, next.slot, next.args[1])
  <2>1. CASE n \in DOMAIN mempool /\ mempool'[n] = mempool[n]
    BY <1>3, <2>1 DEF ChainInv, ValuesFit, Sensible
  <2>2. CASE mempool'[n] = tx
    BY <1>2, <1>3, <1>4, <1>5, <2>2
  <2> QED BY <1>6, <2>1, <2>2
<1>9. ValuesFit'
  <2>1. \A l \in DOMAIN link' : link'[l] \in DOMAIN contracts' /\ FitsSlot(l[1], l[2], link[l])'
    BY <1>3 DEF ChainInv, ValuesFit, FitsSlot, Steps
  <2>2. \A n \in DOMAIN mempool' : Sensible(mempool[n])'
    BY <1>8 DEF Sensible, FitsSlot, Steps
  <2> QED BY <2>1, <2>2 DEF ValuesFit
<1>10. ASSUME NEW n \in DOMAIN mempool', mempool'[n].op = "set"
       PROVE  LET w == mempool'[n].args[1] l == <<mempool'[n].at, mempool'[n].slot>> IN
              /\ NotAhead(w)
              /\ l \in DOMAIN link => NotAfter(link[l], w)
              /\ \A m \in 1 .. n - 1 :
                   Fills(mempool'[m], mempool'[n].at, mempool'[n].slot)
                     => NotAfter(mempool'[m].args[1], w)
  <2>1. CASE n \in DOMAIN mempool /\ mempool'[n] = mempool[n]
    <3>1. \A m \in 1 .. n - 1 : mempool'[m] = mempool[m] BY <1>7
    <3> QED BY <1>10, <2>1, <3>1 DEF ChainInv, OrderHolds
  <2>2. CASE mempool'[n] = tx
    <3>1. NotAhead(tx.args[1]) /\ \A v : NotAhead(v) => NotAfter(v, tx.args[1])
      BY <1>5, <1>10, <2>2
    <3>2. \A l \in DOMAIN link : NotAhead(link[l]) BY DEF ChainInv, OrderHolds
    <3>3. ASSUME NEW m \in 1 .. n - 1, mempool'[m].op = "set"
          PROVE  NotAhead(mempool'[m].args[1])
      BY <1>7, <3>3 DEF ChainInv, OrderHolds
    <3> QED BY <2>2, <3>1, <3>2, <3>3 DEF Fills
  <2> QED BY <1>6, <2>1, <2>2
<1>11. OrderHolds'
  <2>1. \A l \in DOMAIN link' : NotAhead(link[l])'
    BY DEF ChainInv, OrderHolds, NotAhead, NotAfter
  <2>2. \A n \in DOMAIN mempool' : mempool'[n].op = "set" =>
          /\ NotAhead(mempool[n].args[1])'
          /\ <<mempool'[n].at, mempool'[n].slot>> \in DOMAIN link' =>
               NotAfter(link[<<mempool[n].at, mempool[n].slot>>], mempool[n].args[1])'
          /\ \A m \in 1 .. n - 1 :
               Fills(mempool[m], mempool[n].at, mempool[n].slot)' =>
                 NotAfter(mempool[m].args[1], mempool[n].args[1])'
    BY <1>10 DEF NotAhead, NotAfter, Fills
  <2> QED BY <2>1, <2>2 DEF OrderHolds
<1> QED BY <1>9, <1>11

\* What is pending is some of what was pending.
Shrunk ==
  /\ mempool' \in Seq(Transaction)
  /\ \A n \in DOMAIN mempool' :
       /\ n \in DOMAIN mempool
       /\ mempool'[n].op = mempool[n].op /\ mempool'[n].at = mempool[n].at
       /\ mempool'[n].slot = mempool[n].slot /\ mempool'[n].args = mempool[n].args

\* Losing transactions keeps every value in its place and every order.
LEMMA ShrinkingKeepsValues ==
  ASSUME ChainInv, Shrunk, UNCHANGED <<script, contracts, link, addr, env>>
  PROVE  ChainInv' /\ ContractsRemain /\ WiringRemains
<1>1. \A n \in DOMAIN mempool' : \A m \in 1 .. n - 1 : m \in DOMAIN mempool'
  <2>1. DOMAIN mempool' = 1 .. Len(mempool') /\ Len(mempool') \in Nat BY DEF Shrunk
  <2>2. \A k \in Nat : \A n \in 1 .. k : \A m \in 1 .. n - 1 : m \in 1 .. k OBVIOUS
  <2> QED BY <2>1, <2>2
<1>2. ChainIsPacked' BY DEF ChainInv, ChainIsPacked, OfKey
<1>3. ContractsRemain BY DEF ContractsRemain
<1>4. /\ \A c, slot, v : FitsSlot(c, slot, v)' = FitsSlot(c, slot, v)
      /\ \A v : NotAhead(v)' = NotAhead(v)
      /\ \A v, w : NotAfter(v, w)' = NotAfter(v, w)
  BY DEF FitsSlot, Steps, NotAhead, NotAfter
<1>5. ValuesFit'
  <2>1. \A l \in DOMAIN link' : link'[l] \in DOMAIN contracts' /\ FitsSlot(l[1], l[2], link[l])'
    BY DEF ChainInv, ValuesFit, FitsSlot, Steps
  <2>2. ASSUME NEW n \in DOMAIN mempool'
        PROVE  LET next == mempool'[n] IN
               /\ next.op # "deploy" => next.at \in DOMAIN contracts'
               /\ next.op = "set" => /\ Len(next.args) = 1 /\ next.args[1] \in DOMAIN contracts'
                                     /\ FitsSlot(next.at, next.slot, next.args[1])
    <3>1. n \in DOMAIN mempool /\ Sensible(mempool[n]) BY DEF ChainInv, ValuesFit, Shrunk
    <3> QED BY <3>1 DEF Sensible, Shrunk
  <2>3. \A n \in DOMAIN mempool' : Sensible(mempool[n])'
    BY <2>2 DEF Sensible, FitsSlot, Steps
  <2> QED BY <2>1, <2>3 DEF ValuesFit
<1>6. OrderHolds'
  <2>1. ASSUME NEW n \in DOMAIN mempool', mempool'[n].op = "set"
        PROVE  LET w == mempool'[n].args[1] l == <<mempool'[n].at, mempool'[n].slot>> IN
               /\ NotAhead(w)
               /\ l \in DOMAIN link => NotAfter(link[l], w)
               /\ \A m \in 1 .. n - 1 :
                    Fills(mempool'[m], mempool'[n].at, mempool'[n].slot)
                      => NotAfter(mempool'[m].args[1], w)
    <3>1. /\ n \in DOMAIN mempool /\ mempool[n].op = "set"
          /\ mempool'[n].at = mempool[n].at /\ mempool'[n].slot = mempool[n].slot
          /\ mempool'[n].args = mempool[n].args
      BY <2>1 DEF Shrunk
    <3>2. /\ NotAhead(mempool[n].args[1])
          /\ <<mempool[n].at, mempool[n].slot>> \in DOMAIN link =>
               NotAfter(link[<<mempool[n].at, mempool[n].slot>>], mempool[n].args[1])
          /\ \A m \in 1 .. n - 1 :
               Fills(mempool[m], mempool[n].at, mempool[n].slot) =>
                 NotAfter(mempool[m].args[1], mempool[n].args[1])
      BY <3>1 DEF ChainInv, OrderHolds
    <3>3. ASSUME NEW m \in 1 .. n - 1, Fills(mempool'[m], mempool'[n].at, mempool'[n].slot)
          PROVE  NotAfter(mempool'[m].args[1], mempool'[n].args[1])
      <4>1. /\ mempool'[m].op = mempool[m].op /\ mempool'[m].at = mempool[m].at
            /\ mempool'[m].slot = mempool[m].slot /\ mempool'[m].args = mempool[m].args
        BY <1>1 DEF Shrunk
      <4>2. Fills(mempool[m], mempool[n].at, mempool[n].slot)
        BY <3>1, <3>3, <4>1 DEF Fills
      <4> QED BY <3>1, <3>2, <4>1, <4>2
    <3> QED BY <3>1, <3>2, <3>3
  <2>2. \A l \in DOMAIN link' : NotAhead(link[l])'
    BY DEF ChainInv, OrderHolds, NotAhead, NotAfter
  <2>3. \A n \in DOMAIN mempool' : mempool'[n].op = "set" =>
          /\ NotAhead(mempool[n].args[1])'
          /\ <<mempool'[n].at, mempool'[n].slot>> \in DOMAIN link' =>
               NotAfter(link[<<mempool[n].at, mempool[n].slot>>], mempool[n].args[1])'
          /\ \A m \in 1 .. n - 1 :
               Fills(mempool[m], mempool[n].at, mempool[n].slot)' =>
                 NotAfter(mempool[m].args[1], mempool[n].args[1])'
    BY <2>1 DEF NotAhead, NotAfter, Fills
  <2> QED BY <2>2, <2>3 DEF OrderHolds
<1>7. WiringRemains
  <2> SUFFICES ASSUME NEW c, NEW slot, NEW v, WiredTo(c, slot, v)
               PROVE  WiredTo(c, slot, v)'
    BY DEF WiringRemains
  <2>1. Stored(c, slot)' = v BY DEF WiredTo, Stored
  <2>2. ASSUME slot \notin SetOnce, NEW n \in DOMAIN mempool', Fills(mempool'[n], c, slot)
        PROVE  mempool'[n].args[1] = v
    BY <2>2 DEF WiredTo, Shrunk, Fills
  <2>3. slot \notin SetOnce =>
          \A n \in DOMAIN mempool' : Fills(mempool[n], c, slot)' => mempool'[n].args[1] = v
    BY <2>2 DEF Fills
  <2> QED BY <2>1, <2>3 DEF WiredTo
<1> QED BY <1>2, <1>3, <1>5, <1>6, <1>7 DEF ChainInv

-----------------------------------------------------------------------------
(* The process stays where it is. *)

\* What the steps behind pc speak of is known.
LEMMA StepsBehind ==
  ASSUME Sound(script), ChainIsPacked, ProcessIsTyped, AddressesStand, state # "idle",
         NEW i \in 1 .. pc - 1
  PROVE  /\ i \in DOMAIN Steps /\ Steps[i].on \in DOMAIN addr
         /\ \A j \in DOMAIN Steps[i].to : Steps[i].to[j] \in DOMAIN addr
         /\ Steps[i].op = "set" => 1 \in DOMAIN Steps[i].to
         /\ Steps[i].op = "version" => "IMPL" \in DOMAIN addr
         /\ \A k \in DOMAIN addr : Stands(k, addr[k]) /\ addr[k] # None
<1>1. pc \in 1 .. Len(Steps) + 1 /\ pc \in Nat BY StepsAreTyped DEF ProcessIsTyped
<1>2. i \in DOMAIN Steps /\ i \in 1 .. pc /\ i < pc BY <1>1, StepsAreTyped
<1>3. DOMAIN addr = KnownBefore(script, pc) BY DEF AddressesStand
<1>4. /\ KnownBefore(script, i) \subseteq DOMAIN addr
      /\ Creates(Steps[i]) => Steps[i].on \in DOMAIN addr
  BY <1>1, <1>2, <1>3, KnownStays DEF Steps
<1>5. NamesKnownKeys(script, i) /\ FillsFromOneSource(script, i) BY <1>2, StepsAreSound
<1>6. /\ Steps[i].on \in DOMAIN addr
      /\ \A j \in DOMAIN Steps[i].to : Steps[i].to[j] \in DOMAIN addr
      /\ Steps[i].op = "version" => "IMPL" \in DOMAIN addr
  <2>1. /\ \A j \in DOMAIN Steps[i].to : Steps[i].to[j] \in KnownBefore(script, i)
        /\ ~Creates(Steps[i]) => Steps[i].on \in KnownBefore(script, i)
        /\ Steps[i].op = "version" => Steps[i].on = "IMPL"
    BY <1>5, Zenon DEF NamesKnownKeys, Steps
  <2> QED BY <1>4, <2>1
<1>7. Steps[i].op = "set" => 1 \in DOMAIN Steps[i].to
  BY <1>2, <1>5, StepsAreTyped DEF FillsFromOneSource, Steps
<1>8. \A k \in DOMAIN addr : Stands(k, addr[k]) /\ addr[k] # None
  <2>1. "none" \notin DOMAIN addr BY <1>1, <1>3, NoneIsUnknown
  <2>2. None[1] = "none" BY DEF None
  <2> QED BY <2>1, <2>2 DEF AddressesStand, Stands
<1> QED BY <1>2, <1>6, <1>7, <1>8

\* What the steps behind pc have wired stays wired.
LEMMA WiredStay ==
  ASSUME Sound(script), ChainIsPacked, ProcessIsTyped, AddressesStand, state # "idle",
         WiringRemains, UNCHANGED <<script, addr>>, NEW i \in 1 .. pc - 1, IsWired(i)
  PROVE  IsWired(i)'
<1>1. Steps' = Steps BY DEF Steps
<1> SUFFICES ASSUME Steps[i].op = "set"
             PROVE  WiredTo(addr[Steps[i].on], Steps[i].slot, addr[Steps[i].to[1]])'
  BY <1>1 DEF IsWired
<1> DEFINE c == addr[Steps[i].on]  slot == Steps[i].slot  v == addr[Steps[i].to[1]]
<1>2. v # None BY StepsBehind
<1>3. WiredTo(c, slot, v) BY DEF IsWired
<1>4. \A a, s, b : a = c /\ s = slot /\ b = v => WiredTo(a, s, b)'
  BY <1>2, <1>3 DEF WiringRemains
<1>5. c' = c /\ slot' = slot /\ v' = v BY <1>1
<1> QED BY <1>4, <1>5 DEF WiredTo, Stored, Fills

\* While the contracts remain and the wiring too, the work that is done is done.
LEMMA WorkRemains ==
  ASSUME Sound(script), ChainInv, ProcessInv, WorkInv, ContractsRemain,
         UNCHANGED <<script, diligent, addr, pc, env>>, nodes \in Nat, nodes' \in Nat, nodes' >= nodes,
         state' = "idle" <=> state = "idle",
         state # "idle" => \A i \in 1 .. pc - 1 : IsWired(i)'
  PROVE  AddressesStand' /\ EnvironmentStands' /\ StepsStand' /\ EnvironmentIsBuilt'
<1>1. \A k, c : Stands(k, c) => Stands(k, c)' BY DEF Stands, ContractsRemain
<1>2. AddressesStand' BY <1>1 DEF ProcessInv, AddressesStand, Stands, ContractsRemain
<1>3. EnvironmentStands' BY <1>1 DEF ProcessInv, EnvironmentStands, Stands, ContractsRemain
<1>4. Steps' = Steps BY DEF Steps
<1>5. StepsStand'
  <2> SUFFICES ASSUME state # "idle", NEW i \in 1 .. pc - 1 PROVE IsBuilt(i)' /\ IsVerified(i)'
    BY <1>4 DEF StepsStand
  <2>1. /\ i \in DOMAIN Steps /\ Steps[i].on \in DOMAIN addr
        /\ Steps[i].op = "version" => "IMPL" \in DOMAIN addr
        /\ \A k \in DOMAIN addr : addr[k] \in DOMAIN contracts
    BY StepsBehind DEF ChainInv, ProcessInv, Stands
  <2>2. IsBuilt(i) /\ IsVerified(i) BY DEF WorkInv, StepsStand
  <2>3. IsBuilt(i)' BY <1>4, <2>1, <2>2 DEF IsBuilt, ContractsRemain
  <2>4. IsVerified(i)'
    <3>1. Steps[i].op = "version" => contracts'[addr'["IMPL"]].build = "fresh"
      BY <2>1, <2>2 DEF IsVerified, ContractsRemain
    <3>2. Steps[i].op = "nodes" => nodes' >= NodesAsked[Steps[i].guard]
      <4> SUFFICES ASSUME Steps[i].op = "nodes" PROVE nodes' >= NodesAsked[Steps[i].guard]
        OBVIOUS
      <4>1. nodes >= NodesAsked[Steps[i].guard] BY <2>2 DEF IsVerified
      <4>2. Steps[i].guard \in DOMAIN NodesAsked
        BY <2>1, StepsAreSound DEF NamesKnownKeys, Steps
      <4>3. NodesAsked[Steps[i].guard] \in Nat BY <4>2 DEF NodesAsked
      <4> QED BY <4>1, <4>3
    <3> QED BY <1>4, <3>1, <3>2 DEF IsVerified
  <2> QED BY <2>3, <2>4
<1>6. EnvironmentIsBuilt'
  <2> SUFFICES ASSUME diligent, NEW i \in DOMAIN Steps, Steps[i].op = "deploy",
                      Steps[i].guard # "always", Steps[i].on \in DOMAIN env
               PROVE  /\ \A j \in DOMAIN Steps[i].to : Steps[i].to[j] \in DOMAIN env
                      /\ contracts'[env[Steps[i].on]].args =
                           [j \in DOMAIN Steps[i].to |-> env[Steps[i].to[j]]]
    BY <1>4 DEF EnvironmentIsBuilt
  <2>1. env[Steps[i].on] \in DOMAIN contracts BY DEF ProcessInv, EnvironmentStands, Stands
  <2> QED BY <2>1 DEF WorkInv, EnvironmentIsBuilt, ContractsRemain
<1> QED BY <1>2, <1>3, <1>5, <1>6

-----------------------------------------------------------------------------
(* Giving up, losing a transaction, waiting for nodes. *)

\* The step stays where it is, and the chain too.
LEMMA Standstill ==
  ASSUME Sound(script), RolloutInv, Shrunk,
         UNCHANGED <<script, diligent, artifact, contracts, link, addr, pc, env, published>>,
         nodes' \in Nat, nodes' >= nodes,
         state' = "idle" <=> state = "idle", published # <<>> => state' = state
  PROVE  ChainInv' /\ WorkInv' /\ ProcessIsTyped' /\ AddressesStand' /\ EnvironmentStands'
<1>1. ChainInv' /\ ContractsRemain /\ WiringRemains
  BY ShrinkingKeepsValues DEF RolloutInv
<1>2. ProcessIsTyped' BY DEF RolloutInv, ProcessInv, ProcessIsTyped, Shrunk, Steps
<1>3. state # "idle" => \A i \in 1 .. pc - 1 : IsWired(i)'
  <2> SUFFICES ASSUME state # "idle", NEW i \in 1 .. pc - 1 PROVE IsWired(i)'
    OBVIOUS
  <2>1. IsWired(i) BY DEF RolloutInv, WorkInv, StepsStand
  <2> QED BY <1>1, <2>1, WiredStay DEF RolloutInv, ChainInv, ProcessInv
<1>4. AddressesStand' /\ EnvironmentStands' /\ StepsStand' /\ EnvironmentIsBuilt'
  BY <1>1, <1>3, WorkRemains DEF RolloutInv, ProcessInv, ProcessIsTyped
<1>5. PublishedIsDone' BY DEF RolloutInv, WorkInv, PublishedIsDone, Steps
<1> QED BY <1>1, <1>2, <1>4, <1>5 DEF WorkInv

\* The script stops, or sends again, and waits for nothing.
LEMMA GivingUp ==
  ASSUME Sound(script), RolloutInv, Shrunk,
         UNCHANGED <<script, diligent, artifact, nodes, contracts, link, addr, pc, env, published>>,
         state \in {"running", "waiting"}, receipt' = <<>>,
         \A n \in DOMAIN mempool' : ~mempool'[n].awaited,
         state' \in {"failed", "refused"} \/ (state' = "running" /\ state = "waiting")
  PROVE  RolloutInv'
<1>1. published = <<>> BY DEF RolloutInv, WorkInv, PublishedIsDone
<1>2. nodes \in Nat BY DEF RolloutInv, ProcessInv, ProcessIsTyped
<1>3. ChainInv' /\ WorkInv' /\ ProcessIsTyped' /\ AddressesStand' /\ EnvironmentStands'
  BY <1>1, <1>2, Standstill
<1>4. Now' = Now BY DEF Now, Steps
<1>5. DeploysAreNew' BY <1>4 DEF RolloutInv, ProcessInv, DeploysAreNew
<1>6. Awaiting'
  <2>1. ~(state' = "waiting") OBVIOUS
  <2> QED BY <2>1 DEF Awaiting
<1> QED BY <1>3, <1>5, <1>6 DEF RolloutInv, ProcessInv

\* The whole mempool is some of it.
LEMMA AllIsShrunk ==
  ASSUME ProcessIsTyped, UNCHANGED mempool PROVE Shrunk
BY DEF Shrunk, ProcessIsTyped

\* So is the mempool nobody waits for.
LEMMA AbandonedIsShrunk ==
  ASSUME ProcessIsTyped, mempool' = Abandoned
  PROVE  Shrunk /\ \A n \in DOMAIN mempool' : ~mempool'[n].awaited
BY AbandonedKeeps DEF Shrunk, ProcessIsTyped

\* A strict script that cannot go on stops or takes the next endpoint.
LEMMA NextEndpointShape ==
  ASSUME Strict, pc \in DOMAIN Steps, NextEndpoint
  PROVE  UNCHANGED <<pc, addr>> /\ receipt' = <<>> /\ state' \in {"running", "failed"}
<1>1. Now.wait \in {"strict", "eachRpc"} BY DEF Strict, IsStrict, Now, Steps
<1>2. Now.wait # "anyHash" BY <1>1
<1> QED BY <1>2, Zenon DEF NextEndpoint, Stop

\* A read that disagrees.
LEMMA ReadFails ==
  ASSUME Sound(script), RolloutInv, Read, ~Agrees
  PROVE  RolloutInv'
<1>1. state = "running" /\ UNCHANGED <<settings, chain, operator>> BY DEF Read, Running
<1>2. /\ state' = "failed" \/ state' = "refused"
      /\ UNCHANGED <<pc, addr>> /\ receipt' = <<>>
  BY Zenon DEF Read, Stop
<1>3. \A n \in DOMAIN mempool' : ~mempool'[n].awaited
  BY <1>1 DEF RolloutInv, ProcessInv, Awaiting, chain
<1>4. Shrunk BY <1>1, AllIsShrunk DEF RolloutInv, ProcessInv, chain
<1> QED BY <1>1, <1>2, <1>3, <1>4, GivingUp DEF settings, chain, operator

\* A slot that somebody else has.
LEMMA RefuseKeeps ==
  ASSUME Sound(script), RolloutInv, Refuse
  PROVE  RolloutInv'
<1>1. state = "running" /\ UNCHANGED <<settings, chain, operator>> BY DEF Refuse, Running
<1>2. state' = "failed" /\ UNCHANGED <<pc, addr>> /\ receipt' = <<>> BY DEF Refuse, Stop
<1>3. \A n \in DOMAIN mempool' : ~mempool'[n].awaited
  BY <1>1 DEF RolloutInv, ProcessInv, Awaiting, chain
<1>4. Shrunk BY <1>1, AllIsShrunk DEF RolloutInv, ProcessInv, chain
<1> QED BY <1>1, <1>2, <1>3, <1>4, GivingUp DEF settings, chain, operator

\* A receipt that tells of a revert.
LEMMA RevertKeeps ==
  ASSUME Sound(script), Strict, RolloutInv, Observe, ~receipt[1].ok
  PROVE  RolloutInv'
<1>1. state = "waiting" /\ receipt # <<>> /\ UNCHANGED <<settings, chain, operator>>
  BY DEF Observe
<1>2. pc \in DOMAIN Steps BY <1>1 DEF RolloutInv, ProcessInv, Awaiting
<1>3. Now.wait \in {"strict", "eachRpc"} BY <1>2 DEF Strict, IsStrict, Now, Steps
<1>4. Now.wait # "lenient" BY <1>3
<1>5. NextEndpoint BY <1>4, Zenon DEF Observe
<1>6. UNCHANGED <<pc, addr>> /\ receipt' = <<>> /\ state' \in {"running", "failed"}
  BY <1>2, <1>5, NextEndpointShape
<1>7. mempool' = <<>> BY <1>1 DEF RolloutInv, ProcessInv, Awaiting, chain
<1>8. Shrunk BY <1>1, AllIsShrunk DEF RolloutInv, ProcessInv, chain
<1>9. \A n \in DOMAIN mempool' : ~mempool'[n].awaited BY <1>7
<1> QED BY <1>1, <1>6, <1>8, <1>9, GivingUp DEF settings, chain, operator

\* A wait that ends without a receipt.
LEMMA TimeOutKeeps ==
  ASSUME Sound(script), Strict, RolloutInv, TimeOut
  PROVE  RolloutInv'
<1>1. /\ state = "waiting" /\ mempool' = Abandoned /\ NextEndpoint
      /\ UNCHANGED <<settings, contracts, link, env, published>>
  BY DEF TimeOut
<1>2. pc \in DOMAIN Steps BY <1>1 DEF RolloutInv, ProcessInv, Awaiting
<1>3. UNCHANGED <<pc, addr>> /\ receipt' = <<>> /\ state' \in {"running", "failed"}
  BY <1>1, <1>2, NextEndpointShape
<1>4. Shrunk /\ \A n \in DOMAIN mempool' : ~mempool'[n].awaited
  BY <1>1, AbandonedIsShrunk DEF RolloutInv, ProcessInv
<1> QED BY <1>1, <1>3, <1>4, GivingUp DEF settings

\* A script that dies.
LEMMA CrashKeeps ==
  ASSUME Sound(script), RolloutInv, Crash
  PROVE  RolloutInv'
<1>1. /\ state \in {"running", "waiting"} /\ mempool' = Abandoned
      /\ state' = "failed" /\ UNCHANGED <<pc, addr>> /\ receipt' = <<>>
      /\ UNCHANGED <<settings, contracts, link, env, published>>
  BY DEF Crash, Stop
<1>2. Shrunk /\ \A n \in DOMAIN mempool' : ~mempool'[n].awaited
  BY <1>1, AbandonedIsShrunk DEF RolloutInv, ProcessInv
<1> QED BY <1>1, <1>2, GivingUp DEF settings

\* The newest transaction is lost.
LEMMA DropKeeps ==
  ASSUME Sound(script), RolloutInv, Drop
  PROVE  RolloutInv'
<1>1. /\ mempool # <<>> /\ mempool' = SubSeq(mempool, 1, Len(mempool) - 1)
      /\ UNCHANGED <<settings, contracts, link, process, env, published>>
  BY DEF Drop
<1>2. mempool \in Seq(Transaction) /\ Len(mempool) \in Nat
  BY DEF RolloutInv, ProcessInv, ProcessIsTyped
<1>3. /\ mempool' \in Seq(Transaction)
      /\ \A n \in DOMAIN mempool' : /\ n \in DOMAIN mempool /\ n < Len(mempool)
                                    /\ mempool'[n] = mempool[n]
  BY <1>1, <1>2, FrontKeeps, Zenon
<1>4. Shrunk BY <1>3 DEF Shrunk
<1>5. receipt = <<>> BY <1>1 DEF RolloutInv, ProcessInv, Awaiting
<1>6. \A n \in DOMAIN mempool' : ~mempool'[n].awaited
  BY <1>2, <1>3 DEF RolloutInv, ProcessInv, Awaiting
<1>7. nodes \in Nat BY DEF RolloutInv, ProcessInv, ProcessIsTyped
<1>8. ChainInv' /\ WorkInv' /\ ProcessIsTyped' /\ AddressesStand' /\ EnvironmentStands'
  BY <1>1, <1>4, <1>7, Standstill DEF settings, process
<1>9. Now' = Now /\ Steps' = Steps BY <1>1 DEF Now, Steps, settings, process
<1>10. DeploysAreNew' BY <1>1, <1>9 DEF RolloutInv, ProcessInv, DeploysAreNew, process
<1>11. Awaiting' BY <1>1, <1>5, <1>6, <1>9 DEF RolloutInv, ProcessInv, Awaiting, process
<1> QED BY <1>8, <1>10, <1>11 DEF RolloutInv, ProcessInv

\* A node more than there was.
LEMMA RegisterNodeKeeps ==
  ASSUME Sound(script), RolloutInv, RegisterNode
  PROVE  RolloutInv'
<1>1. nodes' = nodes + 1 /\ UNCHANGED <<script, diligent, artifact, chain, process, operator>>
  BY DEF RegisterNode
<1>2. nodes' \in Nat /\ nodes' >= nodes BY <1>1 DEF RolloutInv, ProcessInv, ProcessIsTyped
<1>3. Shrunk BY <1>1, AllIsShrunk DEF RolloutInv, ProcessInv, chain
<1>4. ChainInv' /\ WorkInv' /\ ProcessIsTyped' /\ AddressesStand' /\ EnvironmentStands'
  BY <1>1, <1>2, <1>3, Standstill DEF chain, process, operator
<1>5. DeploysAreNew'
  BY <1>1 DEF RolloutInv, ProcessInv, DeploysAreNew, Now, Steps, process, operator
<1>6. Awaiting'
  BY <1>1 DEF RolloutInv, ProcessInv, Awaiting, Outcome, OfThisStep, Stands, Stored, At, Given, Now,
              Steps, process, operator, chain
<1> QED BY <1>4, <1>5, <1>6 DEF RolloutInv, ProcessInv

-----------------------------------------------------------------------------
(* Sending. *)

\* A deployment that is sent is of a key the environment does not have.
LEMMA SentDeploysAreNew ==
  ASSUME Sound(script), RolloutInv, Send, Now.op = "deploy"
  PROVE  Now.on \notin DOMAIN env
<1>1. state = "running" /\ pc \in DOMAIN Steps /\ (Satisfied => rpc > 1) BY DEF Send, Running
<1>2. CASE rpc > 1 BY <1>1, <1>2 DEF RolloutInv, ProcessInv, DeploysAreNew
<1>3. CASE ~Satisfied
  <2>1. /\ NamesKnownKeys(script, pc) /\ TakesOverWhole(script, pc)
        /\ Now = Steps[pc] /\ Creates(Now)
    BY <1>1, StepsAreSound DEF Now, Creates
  <2>2. CASE Now.guard = "always"
    <3>1. Now.on \notin TakenOver(script) BY <1>1, <2>1, <2>2, WhoIsTakenOver
    <3>2. Now.on \notin script.inherited
      BY <2>1, KnownFirst, Zenon DEF NamesKnownKeys, Steps
    <3> QED BY <3>1, <3>2 DEF RolloutInv, ProcessInv, EnvironmentStands
  <2>3. CASE Now.guard # "always"
    <3>1. Now.guard = Now.on BY <2>1, <2>3 DEF TakesOverWhole, Steps
    <3>2. ~(Now.guard \in DOMAIN env /\ Live(env[Now.guard]))
      BY <1>3, <2>3, Zenon DEF Satisfied
    <3>3. \A k \in DOMAIN env : Live(env[k])
      BY DEF RolloutInv, ProcessInv, EnvironmentStands, Stands, Live
    <3> QED BY <3>1, <3>2, <3>3
  <2> QED BY <2>2, <2>3
<1> QED BY <1>1, <1>2, <1>3

\* What the present step sends is what an earlier step sent to the same slot.
LEMMA SentTwiceIsTheSame ==
  ASSUME Sound(script), RolloutInv, state # "idle", pc \in DOMAIN Steps, NEW i \in 1 .. pc - 1,
         Steps[i].op = "set", Now.op = "set", NEW tx \in Transaction, Sent(tx),
         tx.at = addr[Steps[i].on], tx.slot = Steps[i].slot
  PROVE  tx.args[1] = addr[Steps[i].to[1]]
<1>1. /\ tx.args[1] = addr[Now.to[1]] /\ tx.at = addr[Now.on] /\ Now.on \in DOMAIN addr
      /\ tx.slot = Now.slot
  BY TheSentValueFits DEF RolloutInv, Sent
<1>2. i \in DOMAIN Steps /\ Steps[i].on \in DOMAIN addr
  BY StepsBehind DEF RolloutInv, ChainInv, ProcessInv
<1>3. \A k \in DOMAIN addr : addr[k][1] = k
  BY DEF RolloutInv, ProcessInv, AddressesStand, Stands
<1>4. Steps[i].on = Now.on BY <1>1, <1>2, <1>3
<1>5. Steps[i].to = Now.to
  BY <1>1, <1>2, <1>4, StepsAreSound DEF FillsFromOneSource, Now, Steps
<1> QED BY <1>1, <1>5

\* A transaction more, and a script that waits for it.
LEMMA SendKeeps ==
  ASSUME Sound(script), RolloutInv, Send
  PROVE  RolloutInv'
<1>1. PICK tx \in Transaction : Sent(tx) BY SendShape DEF RolloutInv, ChainInv, ProcessInv
<1>2. /\ state = "running" /\ pc \in DOMAIN Steps /\ Now.op \in {"deploy", "create2", "set"}
      /\ state' = "waiting" /\ UNCHANGED <<settings, link, pc, rpc, addr, receipt, operator>>
  BY SendShape DEF RolloutInv, ChainInv, ProcessInv
<1>3. /\ UNCHANGED <<script, diligent, artifact, nodes, link, pc, rpc, addr, receipt, env, published>>
      /\ Steps' = Steps /\ Now' = Now /\ Given' = Given /\ At(Now.on)' = At(Now.on)
  BY <1>2 DEF settings, operator, Steps, Now, Given, At
<1>4. Now \in StepRecord /\ Given \in Seq(Address)
  BY <1>2, ThePresentStep DEF RolloutInv, ChainInv, ProcessInv
<1>5. /\ ChainIsPacked' /\ ContractsRemain
      /\ Creates(Now) => tx.at[1] = Now.on
      /\ Now.op = "create2" => contracts'[tx.at].args = Given
  BY <1>1, <1>2, <1>4, SendingKeepsChain DEF RolloutInv, ChainInv, ProcessInv
<1>6. ValuesFit' /\ OrderHolds'
  BY <1>1, <1>2, <1>3, SendingKeepsValues DEF RolloutInv
<1>7. /\ mempool' \in Seq(Transaction) /\ Len(mempool') = Len(mempool) + 1
      /\ \A n \in DOMAIN mempool' :
           \/ n \in DOMAIN mempool /\ mempool'[n] = mempool[n]
           \/ n = Len(mempool) + 1 /\ mempool'[n] = tx
  BY <1>1, AppendKeeps DEF Sent, RolloutInv, ProcessInv, ProcessIsTyped
<1>8. ProcessIsTyped' BY <1>3, <1>7 DEF RolloutInv, ProcessInv, ProcessIsTyped
<1>9. ASSUME NEW i \in 1 .. pc - 1 PROVE IsWired(i)'
  <2> SUFFICES ASSUME Steps[i].op = "set"
               PROVE  WiredTo(addr[Steps[i].on], Steps[i].slot, addr[Steps[i].to[1]])'
    BY <1>3 DEF IsWired
  <2> DEFINE c == addr[Steps[i].on]  slot == Steps[i].slot  v == addr[Steps[i].to[1]]
  <2>1. WiredTo(c, slot, v) BY <1>2 DEF RolloutInv, WorkInv, StepsStand, IsWired
  <2>2. ASSUME slot \notin SetOnce, NEW n \in DOMAIN mempool', Fills(mempool'[n], c, slot)
        PROVE  mempool'[n].args[1] = v
    <3>1. CASE n \in DOMAIN mempool /\ mempool'[n] = mempool[n]
      BY <2>1, <2>2, <3>1 DEF WiredTo
    <3>2. CASE mempool'[n] = tx
      <4>1. tx.op = "set" /\ tx.at = c /\ tx.slot = slot BY <2>2, <3>2 DEF Fills
      <4>2. Now.op = "set" BY <1>1, <4>1 DEF Sent
      <4> QED BY <1>1, <1>2, <3>2, <4>1, <4>2, SentTwiceIsTheSame
    <3> QED BY <1>7, <3>1, <3>2
  <2>3. c' = c /\ slot' = slot /\ v' = v BY <1>3
  <2>4. Stored(c, slot) = v BY <2>1 DEF WiredTo
  <2> QED BY <1>3, <2>2, <2>3, <2>4 DEF WiredTo, Stored, Fills
<1>10. AddressesStand' /\ EnvironmentStands' /\ StepsStand' /\ EnvironmentIsBuilt'
  <2>1. nodes \in Nat BY DEF RolloutInv, ProcessInv, ProcessIsTyped
  <2> QED BY <1>2, <1>3, <1>5, <1>9, <2>1, WorkRemains DEF RolloutInv
<1>11. PublishedIsDone' BY <1>2, <1>3 DEF RolloutInv, WorkInv, PublishedIsDone
<1>12. DeploysAreNew' BY <1>3, SentDeploysAreNew DEF DeploysAreNew
<1>13. Awaiting'
  <2>1. \A n \in DOMAIN mempool : ~mempool[n].awaited BY <1>2 DEF RolloutInv, ProcessInv, Awaiting
  <2>2. receipt' = <<>> BY <1>2, <1>3 DEF RolloutInv, ProcessInv, Awaiting
  <2>3. Now.op \notin Reads BY <1>2 DEF Reads
  <2>4. /\ tx.op = Now.op /\ tx.slot = Now.slot /\ tx.args = Given
        /\ Now.op = "set" => tx.at = At(Now.on)
    BY <1>1 DEF Sent
  <2>5. ASSUME NEW n \in DOMAIN mempool', mempool'[n].awaited
        PROVE  n = Len(mempool') /\ OfThisStep(mempool[n])'
    <3>1. n = Len(mempool) + 1 /\ mempool'[n] = tx BY <1>7, <2>1, <2>5
    <3> QED BY <1>3, <1>5, <1>7, <2>4, <3>1 DEF OfThisStep, Creates
  <2> QED BY <1>2, <1>3, <2>2, <2>3, <2>5 DEF Awaiting
<1> QED BY <1>5, <1>6, <1>8, <1>10, <1>11, <1>12, <1>13 DEF RolloutInv, ChainInv, ProcessInv, WorkInv

-----------------------------------------------------------------------------
(* Mining, seen from the script. *)

\* A success of the awaited transaction is the outcome that the step is after.
LEMMA MinedOutcome ==
  ASSUME Sound(script), RolloutInv, NEW tx \in Transaction, NEW at, Mined(tx, at, TRUE),
         pc \in DOMAIN Steps, state # "idle", Now.op \in {"deploy", "create2", "set"},
         OfThisStep(tx), UNCHANGED <<script, pc, addr>>
  PROVE  Outcome(at)'
<1>1. Now' = Now /\ Given' = Given /\ At(Now.on)' = At(Now.on)
  BY DEF Now, Given, At, Steps
<1>2. /\ ContractsRemain
      /\ tx.op = "deploy" => Stands(tx.at[1], at)' /\ contracts'[at].args = tx.args
      /\ tx.op = "create2" => contracts'[at].live
  BY MiningKeepsChain DEF RolloutInv, ChainInv, ProcessInv
<1>3. tx.op = Now.op /\ tx.args = Given /\ (Creates(Now) => tx.at[1] = Now.on)
  BY DEF OfThisStep
<1>4. tx = mempool[1] /\ 1 \in DOMAIN mempool BY MinedQueue DEF RolloutInv, ProcessInv
<1>5. CASE Now.op = "deploy"
  <2>1. at = Fresh(Now.on) /\ link' = link BY <1>3, <1>5 DEF Mined, Creates
  <2>2. Stands(Now.on, at)' /\ contracts'[at].args = Given
    BY <1>1, <1>2, <1>3, <1>5 DEF Stands, Creates
  <2>3. Now.on \in STRING /\ ChainIsPacked
    BY ThePresentStep DEF StepRecord, RolloutInv, ChainInv, ProcessInv
  <2>4. at \in Address /\ \A c \in DOMAIN contracts : c[1] = Now.on => c[2] < at[2]
    BY <2>1, <2>3, FreshIsNew
  <2>5. \A l \in DOMAIN link : link[l] \in DOMAIN contracts /\ link[l] \in Address
    BY <2>3 DEF RolloutInv, ChainInv, ValuesFit, ChainIsPacked
  <2>6. \A m, n \in Nat : m < n => m <= n OBVIOUS
  <2>7. \A l \in DOMAIN link : link[l][1] = Now.on => link[l][2] <= at[2]
    <3> SUFFICES ASSUME NEW l \in DOMAIN link, link[l][1] = Now.on
                 PROVE  link[l][2] <= at[2]
      OBVIOUS
    <3>1. link[l][2] < at[2] BY <2>4, <2>5
    <3>2. link[l][2] \in Nat /\ at[2] \in Nat BY <2>4, <2>5 DEF Address
    <3> QED BY <3>1, <3>2
  <2>8. Stands(Now.on, at)' /\ Now.op # "set" BY <2>2, <1>5
  <2> QED BY <1>1, <2>1, <2>2, <2>7, <2>8 DEF Outcome, Stands
<1>6. CASE Now.op = "create2"
  <2>1. at = tx.at /\ tx.at[1] = Now.on BY <1>3, <1>6 DEF Mined, Creates
  <2>2. at \in DOMAIN contracts
    BY <1>3, <1>4, <1>6, <2>1 DEF RolloutInv, ChainInv, ValuesFit, Sensible
  <2>3. contracts[at].args = Given BY <1>6, <2>1 DEF OfThisStep
  <2>4. contracts'[at].live /\ at \in DOMAIN contracts' /\ contracts'[at].args = Given
    BY <1>2, <1>3, <1>6, <2>2, <2>3 DEF ContractsRemain
  <2> QED BY <1>1, <1>6, <2>1, <2>4 DEF Outcome, Stands
<1>7. CASE Now.op = "set"
  <2>1. at = At(Now.on) /\ at = tx.at /\ tx.slot = Now.slot
    BY <1>3, <1>7 DEF Mined, OfThisStep
  <2>2. Live(at)
    <3>1. Now.on \in DOMAIN addr /\ At(Now.on) = addr[Now.on]
      BY <1>7, ThePresentStep DEF Creates, RolloutInv, ChainInv, ProcessInv
    <3> QED BY <2>1, <3>1 DEF RolloutInv, ProcessInv, AddressesStand, Stands, Live
  <2>3. link' = With(link, <<at, Now.slot>>, Given[1])
    BY <1>3, <1>7, <2>1, <2>2 DEF Mined
  <2>4. <<at, Now.slot>> \in DOMAIN link' /\ link'[<<at, Now.slot>>] = Given[1]
    <3>1. \A l, v : l \in DOMAIN With(link, l, v) /\ With(link, l, v)[l] = v BY DEF With
    <3> QED BY <2>3, <3>1, Zenon
  <2>5. Stored(At(Now.on), Now.slot)' = Given[1] BY <1>1, <2>1, <2>4 DEF Stored
  <2> QED BY <1>1, <1>7, <2>5 DEF Outcome, Creates
<1> QED BY <1>5, <1>6, <1>7

\* The script learns what came out, and nothing else.
LEMMA MineKeeps ==
  ASSUME Sound(script), RolloutInv, NEW gas \in BOOLEAN, Mine(gas)
  PROVE  RolloutInv'
<1>1. PICK tx \in Transaction, ok \in BOOLEAN : \E at : Mined(tx, at, ok)
  BY MineShape DEF RolloutInv, ProcessInv
<1>2. PICK at : Mined(tx, at, ok) BY <1>1
<1>3. UNCHANGED <<settings, state, pc, rpc, addr, env, published, runs>>
  BY MineShape DEF RolloutInv, ProcessInv
<1>4. /\ UNCHANGED <<script, diligent, artifact, nodes, state, pc, rpc, addr, env, published>>
      /\ Steps' = Steps /\ Now' = Now /\ Given' = Given /\ At(Now.on)' = At(Now.on)
  BY <1>3 DEF settings, Steps, Now, Given, At
<1>5. ChainInv' /\ ContractsRemain /\ WiringRemains
  BY <1>2, <1>4, MiningKeepsChain, MiningKeepsValues DEF RolloutInv, ChainInv, ProcessInv
<1>6. /\ 1 \in DOMAIN mempool /\ tx = mempool[1] /\ mempool' \in Seq(Transaction)
      /\ Len(mempool) \in Nat /\ Len(mempool') = Len(mempool) - 1
      /\ \A n \in DOMAIN mempool' : /\ n \in Nat /\ n >= 1 /\ n + 1 \in DOMAIN mempool
                                    /\ mempool'[n] = mempool[n + 1]
  BY <1>2, MinedQueue DEF RolloutInv, ProcessInv
<1>7. ProcessIsTyped' BY <1>4, <1>6 DEF RolloutInv, ProcessInv, ProcessIsTyped
<1>8. state # "idle" => \A i \in 1 .. pc - 1 : IsWired(i)'
  <2> SUFFICES ASSUME state # "idle", NEW i \in 1 .. pc - 1 PROVE IsWired(i)'
    OBVIOUS
  <2>1. IsWired(i) BY DEF RolloutInv, WorkInv, StepsStand
  <2> QED BY <1>4, <1>5, <2>1, WiredStay DEF RolloutInv, ChainInv, ProcessInv
<1>9. AddressesStand' /\ EnvironmentStands' /\ StepsStand' /\ EnvironmentIsBuilt'
  <2>1. nodes \in Nat BY DEF RolloutInv, ProcessInv, ProcessIsTyped
  <2> QED BY <1>4, <1>5, <1>8, <2>1, WorkRemains DEF RolloutInv
<1>10. PublishedIsDone' BY <1>4 DEF RolloutInv, WorkInv, PublishedIsDone
<1>11. DeploysAreNew' BY <1>4 DEF RolloutInv, ProcessInv, DeploysAreNew
<1>12. receipt = <<>> /\ receipt' = IF tx.awaited THEN <<[ok |-> ok, at |-> at]>> ELSE <<>>
  BY <1>2 DEF Mined, RolloutInv, ProcessInv, Awaiting
<1>13. ASSUME tx.awaited
       PROVE  mempool' = <<>> /\ state = "waiting" /\ (ok => Outcome(at)')
  <2>1. Len(mempool) = 1 /\ state = "waiting" /\ OfThisStep(tx)
    BY <1>6, <1>13 DEF RolloutInv, ProcessInv, Awaiting
  <2>2. mempool' = <<>> BY <1>6, <2>1
  <2>3. pc \in DOMAIN Steps /\ Now.op \notin Reads
    BY <2>1 DEF RolloutInv, ProcessInv, Awaiting
  <2>4. Now.op \in {"deploy", "create2", "set"}
    BY <2>3, StepsAreSound DEF NamesKnownKeys, Now, Steps
  <2>5. ok => Mined(tx, at, TRUE)
    <3>1. ok => ok = TRUE OBVIOUS
    <3> QED BY <1>2, <3>1
  <2>6. ok => Outcome(at)' BY <1>4, <2>1, <2>3, <2>4, <2>5, MinedOutcome
  <2> QED BY <2>1, <2>2, <2>6
<1>14. ASSUME NEW n \in DOMAIN mempool', mempool'[n].awaited
       PROVE  n = Len(mempool') /\ state = "waiting" /\ receipt' = <<>> /\ OfThisStep(mempool[n])'
  <2>1. n + 1 \in DOMAIN mempool /\ mempool'[n] = mempool[n + 1] /\ n >= 1 /\ n \in Nat
    BY <1>6
  <2>2. n + 1 = Len(mempool) /\ state = "waiting" /\ OfThisStep(mempool[n + 1])
    BY <1>14, <2>1 DEF RolloutInv, ProcessInv, Awaiting
  <2>3. ~tx.awaited
    <3>1. tx.awaited => 1 = Len(mempool) BY <1>6 DEF RolloutInv, ProcessInv, Awaiting
    <3> QED BY <2>1, <2>2, <3>1
  <2> DEFINE next == mempool[n + 1]
  <2>4. Now.op = "create2" => contracts'[next.at].args = Given
    <3>1. Now.op = "create2" => next.op = "create2" /\ contracts[next.at].args = Given
      BY <2>2 DEF OfThisStep
    <3>2. next.op = "create2" => next.at \in DOMAIN contracts
      BY <2>1 DEF RolloutInv, ChainInv, ValuesFit, Sensible
    <3> QED BY <1>5, <3>1, <3>2 DEF ContractsRemain
  <2>5. OfThisStep(mempool[n])' BY <1>4, <2>1, <2>2, <2>4 DEF OfThisStep, Creates
  <2> QED BY <1>6, <1>12, <2>1, <2>2, <2>3, <2>5
<1>15. Awaiting'
  <2>1. state' = "waiting" => pc' \in DOMAIN Steps' /\ Now'.op \notin Reads
    BY <1>4 DEF RolloutInv, ProcessInv, Awaiting
  <2>2. receipt' # <<>> =>
          /\ state' = "waiting" /\ mempool' = <<>>
          /\ receipt'[1].ok => Outcome(receipt[1].at)'
    <3> SUFFICES ASSUME receipt' # <<>>
                 PROVE  /\ state' = "waiting" /\ mempool' = <<>>
                        /\ receipt'[1].ok => Outcome(receipt[1].at)'
      OBVIOUS
    <3>1. tx.awaited /\ receipt'[1].ok = ok /\ receipt'[1].at = at BY <1>12
    <3>2. Outcome(at)' => Outcome(receipt[1].at)'
      BY <3>1 DEF Outcome, Stands
    <3> QED BY <1>4, <1>13, <3>1, <3>2
  <2> QED BY <1>4, <1>14, <2>1, <2>2 DEF Awaiting
<1> QED BY <1>5, <1>7, <1>9, <1>10, <1>11, <1>15 DEF RolloutInv, ProcessInv, WorkInv

-----------------------------------------------------------------------------
(* Going on to the next step. *)

\* No slot and no pending transaction has a later contract of the key than a.
NothingAfter(a) ==
  /\ \A l \in DOMAIN link : NotAfter(link[l], a)
  /\ \A n \in DOMAIN mempool : mempool[n].op = "set" => NotAfter(mempool[n].args[1], a)

\* What a step has to establish before the script goes on.
Established(a) ==
  /\ Creates(Now) =>
       /\ Stands(Now.on, a) /\ NothingAfter(a) /\ (Now.on \in DOMAIN env => env[Now.on] = a)
       /\ diligent => contracts[a].args = Given
  /\ Now.op = "set" => WiredTo(At(Now.on), Now.slot, Given[1])
  /\ Now.op = "version" => contracts[At("IMPL")].build = "fresh"
  /\ Now.op = "nodes" => nodes >= NodesAsked[Now.guard]

\* The addresses after a step: those before it, and the one it created.
LEMMA AddressesAfter ==
  ASSUME Sound(script), ChainInv, ProcessInv, state # "idle", pc \in DOMAIN Steps,
         UNCHANGED script, NEW a, Advance(Now.on, a)
  PROVE  /\ pc' = pc + 1 /\ pc' \in 1 .. Len(Steps) + 1 /\ (1 .. pc' - 1) = (1 .. pc - 1) \cup {pc}
         /\ DOMAIN addr' = KnownBefore(script, pc')
         /\ \A k \in DOMAIN addr : k \in DOMAIN addr' /\ addr'[k] = addr[k]
         /\ IF Creates(Now) THEN DOMAIN addr' = DOMAIN addr \cup {Now.on} /\ addr'[Now.on] = a
                            ELSE addr' = addr
<1>1. /\ Now = Steps[pc] /\ DOMAIN addr = KnownBefore(script, pc) /\ pc \in Nat \ {0}
      /\ Creates(Now) => Now.on \notin DOMAIN addr
  BY ThePresentStep DEF ChainInv, ProcessInv
<1>2. pc' = pc + 1 /\ addr' = IF Creates(Now) THEN With(addr, Now.on, a) ELSE addr
  BY <1>1, Zenon DEF Advance, Creates
<1>3. pc' \in 1 .. Len(Steps) + 1 /\ (1 .. pc' - 1) = (1 .. pc - 1) \cup {pc}
  <2>1. Len(Steps) \in Nat /\ pc \in 1 .. Len(Steps) BY StepsAreTyped
  <2> QED BY <1>2, <2>1
<1>4. IF Creates(Now) THEN DOMAIN addr' = DOMAIN addr \cup {Now.on} /\ addr'[Now.on] = a
                      ELSE addr' = addr
  BY <1>2 DEF With
<1>5. \A k \in DOMAIN addr : k \in DOMAIN addr' /\ addr'[k] = addr[k]
  BY <1>1, <1>2 DEF With
<1>6. DOMAIN addr' = KnownBefore(script, pc')
  <2>1. KnownBefore(script, pc + 1) = DOMAIN addr \cup (IF Creates(Now) THEN {Now.on} ELSE {})
    BY <1>1, KnownGrows DEF Steps
  <2> QED BY <1>2, <1>4, <2>1
<1> QED BY <1>2, <1>3, <1>4, <1>5, <1>6

\* The work behind pc is not undone by going on, and the present step adds to it.
LEMMA WorkGrows ==
  ASSUME Sound(script), RolloutInv, state # "idle", pc \in DOMAIN Steps,
         NEW a, Advance(Now.on, a), Established(a), UNCHANGED <<settings, chain, operator>>
  PROVE  StepsStand'
<1>1. /\ UNCHANGED <<script, diligent, nodes, contracts, link, mempool>> /\ Steps' = Steps
  BY DEF settings, chain, Steps
<1>2. /\ (1 .. pc' - 1) = (1 .. pc - 1) \cup {pc}
      /\ \A k \in DOMAIN addr : k \in DOMAIN addr' /\ addr'[k] = addr[k]
      /\ IF Creates(Now) THEN DOMAIN addr' = DOMAIN addr \cup {Now.on} /\ addr'[Now.on] = a
                         ELSE addr' = addr
  BY <1>1, AddressesAfter DEF RolloutInv
<1>3. ASSUME NEW i \in 1 .. pc - 1
      PROVE  IsWired(i)' /\ IsBuilt(i)' /\ IsVerified(i)'
  <2>1. /\ i \in DOMAIN Steps /\ Steps[i].on \in DOMAIN addr
        /\ \A j \in DOMAIN Steps[i].to : Steps[i].to[j] \in DOMAIN addr
        /\ Steps[i].op = "set" => 1 \in DOMAIN Steps[i].to
        /\ Steps[i].op = "version" => "IMPL" \in DOMAIN addr
    BY StepsBehind DEF RolloutInv, ChainInv, ProcessInv
  <2>2. IsWired(i) /\ IsBuilt(i) /\ IsVerified(i) BY DEF RolloutInv, WorkInv, StepsStand
  <2>3. IsWired(i)' BY <1>1, <1>2, <2>1, <2>2 DEF IsWired, WiredTo, Stored, Fills
  <2>4. [j \in DOMAIN Steps[i].to |-> addr'[Steps[i].to[j]]] =
          [j \in DOMAIN Steps[i].to |-> addr[Steps[i].to[j]]]
    BY <1>2, <2>1
  <2>5. IsBuilt(i)' BY <1>1, <1>2, <2>1, <2>2, <2>4 DEF IsBuilt
  <2>6. IsVerified(i)' BY <1>1, <1>2, <2>1, <2>2 DEF IsVerified
  <2> QED BY <2>3, <2>5, <2>6
<1>4. \A i : i = pc => IsWired(i)' /\ IsBuilt(i)' /\ IsVerified(i)'
  <2>1. /\ Now = Steps[pc]
        /\ \A k \in DOMAIN addr : At(k) = addr[k]
        /\ Len(Given) = Len(Now.to)
        /\ \A j \in DOMAIN Now.to : Now.to[j] \in DOMAIN addr /\ Given[j] = addr[Now.to[j]]
        /\ ~Creates(Now) => Now.on \in DOMAIN addr
    BY ThePresentStep DEF RolloutInv, ChainInv, ProcessInv
  <2>2. Now.op = "set" => WiredTo(addr[Now.on], Now.slot, addr[Now.to[1]])
    <3>1. Now.op = "set" => 1 \in DOMAIN Now.to /\ ~Creates(Now)
      BY <2>1, StepsAreSound, StepsAreTyped DEF FillsFromOneSource, Steps, Creates
    <3> QED BY <2>1, <3>1 DEF Established
  <2>3. Given = [j \in DOMAIN Now.to |-> addr'[Now.to[j]]]
    <3>1. Given = [j \in DOMAIN Now.to |-> At(Now.to[j])] BY DEF Given
    <3> QED BY <1>2, <2>1, <3>1
  <2>4. Creates(Now) /\ diligent => contracts[addr'[Now.on]].args = Given
    BY <1>2 DEF Established
  <2>5. Now.op = "version" => contracts[addr'["IMPL"]].build = "fresh"
    <3> SUFFICES ASSUME Now.op = "version" PROVE contracts[addr'["IMPL"]].build = "fresh"
      OBVIOUS
    <3>1. Now.on = "IMPL" /\ ~Creates(Now)
      BY <2>1, StepsAreSound DEF NamesKnownKeys, Steps, Creates
    <3> QED BY <1>2, <2>1, <3>1 DEF Established
  <2>6. Now.op = "nodes" => nodes >= NodesAsked[Now.guard] BY DEF Established
  <2> SUFFICES ASSUME NEW i, i = pc PROVE IsWired(i)' /\ IsBuilt(i)' /\ IsVerified(i)'
    OBVIOUS
  <2>7. Steps'[i] = Now BY <1>1, <2>1
  <2>8. IsWired(i)'
    <3>1. Now.op = "set" => addr' = addr BY <1>2 DEF Creates
    <3> QED BY <1>1, <2>2, <2>7, <3>1 DEF IsWired, WiredTo, Stored, Fills
  <2>9. IsBuilt(i)' BY <1>1, <2>3, <2>4, <2>7 DEF IsBuilt
  <2>10. IsVerified(i)' BY <1>1, <2>5, <2>6, <2>7 DEF IsVerified
  <2> QED BY <2>8, <2>9, <2>10
<1> QED BY <1>2, <1>3, <1>4 DEF StepsStand

\* Going on keeps the invariant, when the step has established what it has to.
LEMMA AdvanceKeeps ==
  ASSUME Sound(script), RolloutInv, state \in {"running", "waiting"}, pc \in DOMAIN Steps,
         NEW a, Advance(Now.on, a), Established(a), UNCHANGED <<settings, chain, operator>>,
         \A n \in DOMAIN mempool : ~mempool[n].awaited
  PROVE  RolloutInv'
<1>1. /\ UNCHANGED <<script, diligent, artifact, nodes, contracts, link, mempool, env, published>>
      /\ Steps' = Steps
  BY DEF settings, chain, operator, Steps
<1>2. /\ pc' \in 1 .. Len(Steps) + 1
      /\ DOMAIN addr' = KnownBefore(script, pc')
      /\ \A k \in DOMAIN addr : k \in DOMAIN addr' /\ addr'[k] = addr[k]
      /\ IF Creates(Now) THEN DOMAIN addr' = DOMAIN addr \cup {Now.on} /\ addr'[Now.on] = a
                         ELSE addr' = addr
  BY <1>1, AddressesAfter DEF RolloutInv
<1>3. state' = "running" /\ rpc' = 1 /\ receipt' = <<>> BY DEF Advance
<1>4. \A k \in DOMAIN addr' :
        \/ k \in DOMAIN addr /\ addr'[k] = addr[k]
        \/ Creates(Now) /\ k = Now.on /\ addr'[k] = a
  BY <1>2
<1>5. ChainInv'
  <2>1. ChainIsPacked' BY <1>1 DEF RolloutInv, ChainInv, ChainIsPacked, OfKey
  <2>2. ValuesFit'
    BY <1>1 DEF RolloutInv, ChainInv, ValuesFit, Sensible, FitsSlot
  <2>3. ASSUME NEW v, NotAhead(v), Creates(Now) => NotAfter(v, a)
        PROVE  NotAhead(v)'
    BY <1>1, <1>4, <2>3 DEF NotAhead, NotAfter, RolloutInv, ProcessInv
  <2>4. Creates(Now) => NothingAfter(a) BY DEF Established
  <2>5. ASSUME NEW l \in DOMAIN link PROVE \A v : v = link[l] => NotAhead(v)'
    BY <2>3, <2>4 DEF RolloutInv, ChainInv, OrderHolds, NothingAfter
  <2>6. ASSUME NEW n \in DOMAIN mempool, mempool[n].op = "set"
        PROVE  \A v : v = mempool[n].args[1] => NotAhead(v)'
    BY <2>3, <2>4, <2>6 DEF RolloutInv, ChainInv, OrderHolds, NothingAfter
  <2>7. \A l \in DOMAIN link' : NotAhead(link[l])'
    BY <1>1, <2>5 DEF NotAhead, NotAfter
  <2>8. \A n \in DOMAIN mempool' : mempool'[n].op = "set" => NotAhead(mempool[n].args[1])'
    BY <1>1, <2>6 DEF NotAhead, NotAfter
  <2>9. \A n \in DOMAIN mempool' : mempool'[n].op = "set" =>
          /\ <<mempool'[n].at, mempool'[n].slot>> \in DOMAIN link' =>
               NotAfter(link[<<mempool[n].at, mempool[n].slot>>], mempool[n].args[1])'
          /\ \A m \in 1 .. n - 1 :
               Fills(mempool[m], mempool[n].at, mempool[n].slot)' =>
                 NotAfter(mempool[m].args[1], mempool[n].args[1])'
    BY <1>1 DEF RolloutInv, ChainInv, OrderHolds, NotAfter, Fills
  <2>10. OrderHolds' BY <2>7, <2>8, <2>9, Zenon DEF OrderHolds
  <2> QED BY <2>1, <2>2, <2>10 DEF ChainInv
<1>6. ProcessIsTyped' BY <1>1, <1>2 DEF RolloutInv, ProcessInv, ProcessIsTyped
<1>7. AddressesStand'
  BY <1>1, <1>2, <1>3, <1>4 DEF AddressesStand, Stands, Established, RolloutInv, ProcessInv
<1>8. EnvironmentStands'
  BY <1>1, <1>4 DEF EnvironmentStands, Stands, Established, RolloutInv, ProcessInv
<1>9. DeploysAreNew'
  <2>1. ~(1 > 1) OBVIOUS
  <2> QED BY <1>3, <2>1 DEF DeploysAreNew
<1>10. Awaiting'
  <2>1. state' # "waiting" BY <1>3
  <2> QED BY <1>1, <1>3, <2>1 DEF Awaiting
<1>11. StepsStand' BY WorkGrows
<1>12. EnvironmentIsBuilt' BY <1>1 DEF RolloutInv, WorkInv, EnvironmentIsBuilt
<1>13. PublishedIsDone' BY <1>1 DEF RolloutInv, WorkInv, PublishedIsDone
<1> QED BY <1>5, <1>6, <1>7, <1>8, <1>9, <1>10, <1>11, <1>12, <1>13
        DEF RolloutInv, ProcessInv, WorkInv

\* A read that agrees.
LEMMA ReadAgrees ==
  ASSUME Sound(script), RolloutInv, Read, Agrees
  PROVE  RolloutInv'
<1>1. /\ state = "running" /\ pc \in DOMAIN Steps /\ Now.op \in Reads
      /\ UNCHANGED <<settings, chain, operator>>
  BY DEF Read, Running
<1>2. PICK a : a = At(Now.on) OBVIOUS
<1>3. Advance(Now.on, a) BY <1>2, Zenon DEF Read
<1>4. ~Creates(Now) /\ Now.op # "set" BY <1>1 DEF Reads, Creates
<1>5. Now.op = "version" => contracts[At("IMPL")].build = "fresh"
  <2> SUFFICES ASSUME Now.op = "version" PROVE contracts[At("IMPL")].build = "fresh"
    OBVIOUS
  <2>1. Now.on = "IMPL" BY <1>1, StepsAreSound DEF NamesKnownKeys, Steps, Now
  <2>2. contracts[At(Now.on)].build = "fresh" BY DEF Agrees
  <2> QED BY <2>1, <2>2
<1>6. Now.op = "nodes" => nodes >= NodesAsked[Now.guard] BY DEF Agrees
<1>7. Established(a) BY <1>4, <1>5, <1>6 DEF Established
<1>8. \A n \in DOMAIN mempool : ~mempool[n].awaited
  BY <1>1 DEF RolloutInv, ProcessInv, Awaiting
<1> QED BY <1>1, <1>3, <1>7, <1>8, AdvanceKeeps

\* A key that the script creates and does not take over is not in the environment,
\* and the order says nothing of it.
LEMMA NewKeysAreNew ==
  ASSUME Sound(script), RolloutInv, pc \in DOMAIN Steps, Creates(Now),
         ~(Now.op = "deploy" /\ Now.guard # "always")
  PROVE  Now.on \notin DOMAIN env /\ Now.on \notin TakenOver(script)
<1>1. Now = Steps[pc] BY DEF Now
<1>2. Now.on \notin TakenOver(script) BY <1>1, WhoIsTakenOver
<1>3. Now.on \notin script.inherited
  BY <1>1, StepsAreSound, KnownFirst, Zenon DEF NamesKnownKeys, Steps
<1> QED BY <1>2, <1>3 DEF RolloutInv, ProcessInv, EnvironmentStands

\* A receipt that tells of a success.
LEMMA SuccessKeeps ==
  ASSUME Sound(script), RolloutInv, Observe, receipt[1].ok
  PROVE  RolloutInv'
<1>1. state = "waiting" /\ receipt # <<>> /\ UNCHANGED <<settings, chain, operator>>
  BY DEF Observe
<1>2. PICK a : a = receipt[1].at OBVIOUS
<1>3. Advance(Now.on, a) BY <1>2, Zenon DEF Observe
<1>4. pc \in DOMAIN Steps /\ mempool = <<>> /\ Outcome(a) /\ Now.op \notin Reads
  BY <1>1, <1>2 DEF RolloutInv, ProcessInv, Awaiting
<1>5. ASSUME Creates(Now)
      PROVE  Stands(Now.on, a) /\ NothingAfter(a) /\ Now.on \notin DOMAIN env
             /\ contracts[a].args = Given
  <2>1. Stands(Now.on, a) /\ contracts[a].args = Given BY <1>4, <1>5 DEF Outcome
  <2>2. Now.on \notin DOMAIN env
    BY <1>1, <1>4, <1>5, NewKeysAreNew DEF RolloutInv, ProcessInv, DeploysAreNew
  <2>3. NothingAfter(a)
    <3>1. a[1] = Now.on BY <2>1 DEF Stands
    <3>2. Now.op # "deploy" => Now.on \notin TakenOver(script) BY <1>4, <1>5, NewKeysAreNew
    <3>3. \A l \in DOMAIN link : NotAfter(link[l], a)
      BY <1>4, <3>1, <3>2 DEF NotAfter, Outcome
    <3> QED BY <1>4, <3>3 DEF NothingAfter
  <2> QED BY <2>1, <2>2, <2>3
<1>6. Now.op = "set" => WiredTo(At(Now.on), Now.slot, Given[1])
  BY <1>4 DEF WiredTo, Outcome
<1>7. Now.op # "version" /\ Now.op # "nodes" BY <1>4 DEF Reads
<1>8. Established(a) BY <1>5, <1>6, <1>7 DEF Established
<1>9. \A n \in DOMAIN mempool : ~mempool[n].awaited BY <1>4
<1> QED BY <1>1, <1>3, <1>4, <1>8, <1>9, AdvanceKeeps

-----------------------------------------------------------------------------
(* Skipping. *)

\* A deployment is skipped for what the environment has.
LEMMA SkippedDeploy ==
  ASSUME Sound(script), RolloutInv, state # "idle", pc \in DOMAIN Steps, Satisfied,
         Now.op = "deploy"
  PROVE  Established(env[Now.on]) /\ Now.guard = Now.on
<1> DEFINE a == env[Now.on]
<1>1. Now = Steps[pc] /\ Creates(Now) BY DEF Now, Creates
<1>2. Now.guard # "always" /\ Now.guard \in DOMAIN env BY Zenon DEF Satisfied
<1>3. Now.guard = Now.on BY <1>1, <1>2, StepsAreSound DEF TakesOverWhole, Steps
<1>4. Now.on \in DOMAIN env /\ Stands(Now.on, a)
  BY <1>2, <1>3 DEF RolloutInv, ProcessInv, EnvironmentStands
<1>5. NothingAfter(a)
  <2>1. a[1] = Now.on BY <1>4 DEF Stands
  <2>2. ASSUME NEW v, NotAhead(v) PROVE NotAfter(v, a)
    BY <1>4, <2>1, <2>2 DEF NotAhead, NotAfter
  <2> QED BY <2>2 DEF NothingAfter, RolloutInv, ChainInv, OrderHolds
<1>6. diligent => contracts[a].args = Given
  <2> SUFFICES ASSUME diligent PROVE contracts[a].args = Given
    OBVIOUS
  <2>1. /\ \A j \in DOMAIN Now.to : Now.to[j] \in DOMAIN env
        /\ contracts[a].args = [j \in DOMAIN Now.to |-> env[Now.to[j]]]
    BY <1>1, <1>2, <1>4 DEF RolloutInv, WorkInv, EnvironmentIsBuilt
  <2>2. \A j \in DOMAIN Now.to : Now.to[j] \in DOMAIN addr /\ At(Now.to[j]) = addr[Now.to[j]]
    BY ThePresentStep DEF RolloutInv, ChainInv, ProcessInv
  <2>3. \A j \in DOMAIN Now.to : At(Now.to[j]) = env[Now.to[j]]
    BY <2>1, <2>2 DEF RolloutInv, ProcessInv, EnvironmentStands
  <2>4. Given = [j \in DOMAIN Now.to |-> env[Now.to[j]]] BY <2>3 DEF Given
  <2> QED BY <2>1, <2>4
<1>7. Now.op # "set" /\ Now.op # "version" /\ Now.op # "nodes" OBVIOUS
<1> QED BY <1>3, <1>4, <1>5, <1>6, <1>7 DEF Established

\* A CREATE2 is skipped for the code at the predicted address.
LEMMA SkippedCreate2 ==
  ASSUME Sound(script), RolloutInv, state # "idle", pc \in DOMAIN Steps, Satisfied,
         Now.op = "create2"
  PROVE  Established(Predicted(Now.on, Given))
<1> DEFINE a == Predicted(Now.on, Given)
<1>1. Live(a) BY Zenon, "create2" # "deploy" DEF Satisfied
<1>2. Now.on \in STRING /\ ChainIsPacked
  BY ThePresentStep DEF StepRecord, RolloutInv, ChainInv, ProcessInv
<1>3. a[1] = Now.on /\ (a \in DOMAIN contracts => contracts[a].args = Given)
  BY <1>2, PredictedIsOfItsKey, Zenon
<1> HIDE DEF a
<1>4. Stands(Now.on, a) /\ contracts[a].args = Given BY <1>1, <1>3 DEF Live, Stands
<1>5. Creates(Now) /\ Now.op # "deploy" BY DEF Creates
<1>6. Now.on \notin DOMAIN env /\ Now.on \notin TakenOver(script) BY <1>5, NewKeysAreNew
<1>7. NothingAfter(a)
  <2>1. \A v : NotAfter(v, a) BY <1>3, <1>6 DEF NotAfter
  <2> QED BY <2>1 DEF NothingAfter
<1>8. Now.op # "set" /\ Now.op # "version" /\ Now.op # "nodes" OBVIOUS
<1>9. Established(a) BY <1>4, <1>6, <1>7, <1>8 DEF Established
<1> QED BY <1>9 DEF a

\* A call is skipped when the slot holds the address, and what is pending agrees.
LEMMA SkippedSet ==
  ASSUME Sound(script), RolloutInv, state # "idle", pc \in DOMAIN Steps, Satisfied,
         Now.op = "set", NEW a
  PROVE  Established(a)
<1> DEFINE k == Now.to[1]  c == addr[Now.on]  v == addr[k]  slot == Now.slot
<1>1. /\ Now = Steps[pc]
      /\ \A x \in DOMAIN addr :
           /\ addr[x] \in Address /\ addr[x][1] = x /\ At(x) = addr[x] /\ addr[x] # None
      /\ Len(Given) = Len(Now.to)
      /\ \A j \in DOMAIN Now.to : Now.to[j] \in DOMAIN addr /\ Given[j] = addr[Now.to[j]]
      /\ Now.on \in DOMAIN addr
  BY ThePresentStep DEF Creates, RolloutInv, ChainInv, ProcessInv
<1>2. FillsFromOneSource(script, pc) BY StepsAreSound
<1>3. 1 \in DOMAIN Now.to BY <1>1, <1>2, StepsAreTyped DEF FillsFromOneSource, Steps
<1>4. k \in DOMAIN addr /\ Given[1] = v /\ At(Now.on) = c BY <1>1, <1>3
<1>5. v \in Address /\ v[1] = k /\ v # None /\ c[1] = Now.on BY <1>1, <1>4
<1>6. \A w : FitsSlot(c, slot, w) => w[1] = k /\ (k = Now.on => w = c)
  BY <1>1, <1>5 DEF FitsSlot
<1>7. ASSUME NEW n \in DOMAIN mempool, Fills(mempool[n], c, slot)
      PROVE  /\ mempool[n].args[1] \in Address /\ FitsSlot(c, slot, mempool[n].args[1])
             /\ NotAhead(mempool[n].args[1])
             /\ <<c, slot>> \in DOMAIN link => NotAfter(link[<<c, slot>>], mempool[n].args[1])
  <2>1. mempool[n].op = "set" /\ mempool[n].at = c /\ mempool[n].slot = slot BY <1>7 DEF Fills
  <2>2. Sensible(mempool[n]) BY DEF RolloutInv, ChainInv, ValuesFit
  <2>3. mempool[n].args[1] \in Address
    BY <2>1, <2>2 DEF Sensible, RolloutInv, ChainInv, ChainIsPacked
  <2> QED BY <2>1, <2>2, <2>3 DEF Sensible, RolloutInv, ChainInv, OrderHolds
<1>8. CASE Now.guard \in {"unlessEqual", "unlessSet"}
  <2>1. Stored(c, slot) = v
    <3>1. Now.guard # "always" BY <1>8
    <3>2. Stored(At(Now.on), Now.slot) = Given[1]
      BY <1>8, <3>1, Zenon, "set" # "deploy", "set" # "create2" DEF Satisfied
    <3> QED BY <1>4, <3>2
  <2>2. slot \in SetOnce \/ k \in {Now.on} \cup TakenOver(script)
    BY <1>1, <1>2, <1>8 DEF FillsFromOneSource, Steps
  <2>3. ASSUME slot \notin SetOnce, NEW n \in DOMAIN mempool, Fills(mempool[n], c, slot)
        PROVE  mempool[n].args[1] = v
    <3> DEFINE w == mempool[n].args[1]
    <3>1. w[1] = k /\ (k = Now.on => w = c) /\ w \in Address BY <1>6, <1>7, <2>3
    <3>2. CASE k = Now.on BY <3>1, <3>2
    <3>3. CASE k \in TakenOver(script)
      <4>1. NotAfter(w, v) BY <1>4, <1>7, <2>3, <3>1 DEF NotAhead
      <4>2. NotAfter(v, w)
        <5>1. <<c, slot>> \in DOMAIN link /\ link[<<c, slot>>] = v
          BY <1>5, <2>1 DEF Stored
        <5> QED BY <1>7, <2>3, <5>1
      <4>3. w[2] <= v[2] /\ v[2] <= w[2] BY <1>5, <3>1, <3>3, <4>1, <4>2 DEF NotAfter
      <4>4. w = <<w[1], w[2]>> /\ v = <<v[1], v[2]>> /\ w[2] \in Nat /\ v[2] \in Nat
        BY <1>5, <3>1 DEF Address
      <4>5. w[2] = v[2]
        <5> HIDE DEF w, v
        <5>1. \A x, y \in Nat : x <= y /\ y <= x => x = y OBVIOUS
        <5> QED BY <4>3, <4>4, <5>1
      <4> QED BY <1>5, <3>1, <4>4, <4>5
    <3> QED BY <2>2, <2>3, <3>2, <3>3
  <2>4. WiredTo(c, slot, v) BY <2>1, <2>3 DEF WiredTo
  <2> QED BY <1>4, <2>4 DEF Established, Creates
<1>9. CASE Now.guard \notin {"unlessEqual", "unlessSet"}
  <2>1. Now.guard # "always" /\ Stored(c, Now.guard) # None
    <3>1. Now.guard # "always"
      BY Zenon, "set" # "deploy", "set" # "create2" DEF Satisfied
    <3>2. Stored(At(Now.on), Now.guard) # None
      BY <1>9, <3>1, Zenon, "set" # "deploy", "set" # "create2" DEF Satisfied
    <3> QED BY <1>4, <3>1, <3>2
  <2>2. Now.guard = slot /\ k = Now.on
    BY <1>1, <1>2, <1>9, <2>1 DEF FillsFromOneSource, Steps
  <2>3. Stored(c, slot) = v
    <3>1. <<c, slot>> \in DOMAIN link /\ Stored(c, slot) = link[<<c, slot>>]
      BY <2>1, <2>2 DEF Stored
    <3>2. \A l \in DOMAIN link : FitsSlot(l[1], l[2], link[l])
      BY DEF RolloutInv, ChainInv, ValuesFit
    <3>3. FitsSlot(c, slot, link[<<c, slot>>]) BY <3>1, <3>2
    <3> QED BY <1>6, <2>2, <3>1, <3>3
  <2>4. ASSUME NEW n \in DOMAIN mempool, Fills(mempool[n], c, slot)
        PROVE  mempool[n].args[1] = v
    BY <1>6, <1>7, <2>2, <2>4
  <2>5. WiredTo(c, slot, v) BY <2>3, <2>4 DEF WiredTo
  <2> QED BY <1>4, <2>5 DEF Established, Creates
<1> QED BY <1>8, <1>9

\* Nothing to send.
LEMMA SkipKeeps ==
  ASSUME Sound(script), RolloutInv, Skip
  PROVE  RolloutInv'
<1>1. /\ state = "running" /\ pc \in DOMAIN Steps /\ Satisfied
      /\ UNCHANGED <<settings, chain, operator>>
      /\ Advance(Now.on, IF Now.op = "set" THEN None ELSE Kept)
  BY DEF Skip, Running
<1>2. \A n \in DOMAIN mempool : ~mempool[n].awaited
  BY <1>1 DEF RolloutInv, ProcessInv, Awaiting
<1>3. CASE Now.op = "deploy"
  <2>1. Established(env[Now.on]) /\ Now.guard = Now.on BY <1>1, <1>3, SkippedDeploy
  <2>2. Kept = env[Now.on]
    BY <1>3, <2>1, Zenon, "deploy" # "create2" DEF Kept
  <2>3. PICK a : a = env[Now.on] OBVIOUS
  <2>4. Advance(Now.on, a) BY <1>1, <1>3, <2>2, <2>3, Zenon, "deploy" # "set"
  <2> QED BY <1>1, <1>2, <2>1, <2>3, <2>4, AdvanceKeeps
<1>4. CASE Now.op = "create2"
  <2>1. Established(Predicted(Now.on, Given)) BY <1>1, <1>4, SkippedCreate2
  <2>2. Kept = Predicted(Now.on, Given) BY <1>4, Zenon DEF Kept
  <2>3. PICK a : a = Predicted(Now.on, Given) OBVIOUS
  <2>4. Advance(Now.on, a) BY <1>1, <1>4, <2>2, <2>3, Zenon, "create2" # "set"
  <2> QED BY <1>1, <1>2, <2>1, <2>3, <2>4, AdvanceKeeps
<1>5. CASE Now.op = "set"
  <2>1. PICK a : a = None OBVIOUS
  <2>2. Advance(Now.on, a) BY <1>1, <1>5, <2>1, Zenon
  <2>3. Established(a) BY <1>1, <1>5, SkippedSet
  <2> QED BY <1>1, <1>2, <2>2, <2>3, AdvanceKeeps
<1>6. Now.op = "deploy" \/ Now.op = "create2" \/ Now.op = "set"
  BY <1>1, Zenon DEF Satisfied
<1> QED BY <1>3, <1>4, <1>5, <1>6

-----------------------------------------------------------------------------
(* Starting and finishing. *)

\* The environment of the next start: what it was, and what was pasted.
Pasted(forgotten) ==
  /\ forgotten \subseteq Printed /\ (diligent => forgotten = {})
  /\ env' = [k \in DOMAIN env \cup (Printed \ forgotten) |->
               IF k \in Printed \ forgotten THEN addr[k] ELSE env[k]]
  /\ addr' = [k \in script.inherited |-> <<k, 0>>]
  /\ UNCHANGED <<script, diligent, nodes, contracts, link, mempool, published>>
  /\ artifact' \in {artifact, "fresh"}
  /\ state \in {"idle", "failed", "refused"}
  /\ state' = "running" /\ pc' = 1 /\ rpc' = 1 /\ receipt' = <<>>

\* Every start is of this form.
LEMMA RestartShape ==
  ASSUME Restart PROVE \E forgotten : Pasted(forgotten)
<1>1. PICK forgotten \in {{}} \cup (IF diligent THEN {} ELSE {{k} : k \in Printed} \cup {Printed}) :
        Start(forgotten)
  BY Zenon DEF Restart
<1>2. forgotten \subseteq Printed /\ (diligent => forgotten = {}) BY <1>1
<1>3. artifact' \in {artifact, "fresh"} BY <1>1, Zenon DEF Start
<1>4. Pasted(forgotten) BY <1>1, <1>2, <1>3, Zenon DEF Start, Pasted, chain
<1> QED BY <1>4

\* What is in the environment was there or was printed, and both agree.
LEMMA EnvironmentAfter ==
  ASSUME RolloutInv, NEW forgotten, Pasted(forgotten)
  PROVE  /\ \A k \in DOMAIN env' :
              \/ k \in DOMAIN env /\ env'[k] = env[k]
              \/ k \in DOMAIN addr /\ k \in TakenOver(script) /\ env'[k] = addr[k]
         /\ \A k \in DOMAIN env : k \in DOMAIN env' /\ env'[k] = env[k]
         /\ diligent => \A k \in DOMAIN addr \cap TakenOver(script) :
                          k \in DOMAIN env' /\ env'[k] = addr[k]
         /\ DOMAIN addr' = script.inherited /\ \A k \in DOMAIN addr' : addr'[k] = env[k]
<1>1. Printed = TakenOver(script) \cap DOMAIN addr BY DEF Printed, ReusableKeys
<1>2. \A k \in DOMAIN addr \cap DOMAIN env : addr[k] = env[k]
  BY DEF RolloutInv, ProcessInv, EnvironmentStands
<1>3. \A k \in script.inherited : k \in DOMAIN env /\ env[k] = <<k, 0>>
  BY DEF RolloutInv, ProcessInv, EnvironmentStands
<1>4. \A k \in DOMAIN env : k \in DOMAIN env' /\ env'[k] = env[k]
  BY <1>1, <1>2 DEF Pasted
<1> QED BY <1>1, <1>3, <1>4 DEF Pasted

\* A start keeps the chain as it is, and forgets the running script.
LEMMA RestartKeeps ==
  ASSUME Sound(script), RolloutInv, Restart
  PROVE  RolloutInv'
<1>1. PICK forgotten : Pasted(forgotten) BY RestartShape
<1>2. /\ UNCHANGED <<script, diligent, nodes, contracts, link, mempool, published>>
      /\ Steps' = Steps /\ state \in {"idle", "failed", "refused"}
      /\ state' = "running" /\ pc' = 1 /\ rpc' = 1 /\ receipt' = <<>>
  BY <1>1 DEF Pasted, Steps
<1>3. /\ \A k \in DOMAIN env' :
           \/ k \in DOMAIN env /\ env'[k] = env[k]
           \/ k \in DOMAIN addr /\ k \in TakenOver(script) /\ env'[k] = addr[k]
      /\ \A k \in DOMAIN env : k \in DOMAIN env' /\ env'[k] = env[k]
      /\ diligent => \A k \in DOMAIN addr \cap TakenOver(script) :
                       k \in DOMAIN env' /\ env'[k] = addr[k]
      /\ DOMAIN addr' = script.inherited /\ \A k \in DOMAIN addr' : addr'[k] = env[k]
  BY <1>1, EnvironmentAfter
<1>4. \A k \in script.inherited : k \in DOMAIN env /\ env[k] = <<k, 0>>
  BY DEF RolloutInv, ProcessInv, EnvironmentStands
<1>5. Len(Steps) \in Nat BY StepsAreTyped
<1>6. ChainInv'
  <2>1. ChainIsPacked' BY <1>2 DEF RolloutInv, ChainInv, ChainIsPacked, OfKey
  <2>2. ValuesFit' BY <1>2 DEF RolloutInv, ChainInv, ValuesFit, Sensible, FitsSlot
  <2>3. ASSUME NEW v, NotAhead(v) PROVE NotAhead(v)'
    BY <1>2, <1>3, <1>4, <2>3 DEF NotAhead, NotAfter
  <2>4. ASSUME NEW l \in DOMAIN link PROVE \A v : v = link[l] => NotAhead(v)'
    BY <2>3 DEF RolloutInv, ChainInv, OrderHolds
  <2>5. ASSUME NEW n \in DOMAIN mempool, mempool[n].op = "set"
        PROVE  \A v : v = mempool[n].args[1] => NotAhead(v)'
    BY <2>3, <2>5 DEF RolloutInv, ChainInv, OrderHolds
  <2>6. \A l \in DOMAIN link' : NotAhead(link[l])'
    BY <1>2, <2>4 DEF NotAhead, NotAfter
  <2>7. \A n \in DOMAIN mempool' : mempool'[n].op = "set" => NotAhead(mempool[n].args[1])'
    BY <1>2, <2>5 DEF NotAhead, NotAfter
  <2>8. \A n \in DOMAIN mempool' : mempool'[n].op = "set" =>
          /\ <<mempool'[n].at, mempool'[n].slot>> \in DOMAIN link' =>
               NotAfter(link[<<mempool[n].at, mempool[n].slot>>], mempool[n].args[1])'
          /\ \A m \in 1 .. n - 1 :
               Fills(mempool[m], mempool[n].at, mempool[n].slot)' =>
                 NotAfter(mempool[m].args[1], mempool[n].args[1])'
    BY <1>2 DEF RolloutInv, ChainInv, OrderHolds, NotAfter, Fills
  <2>9. OrderHolds' BY <2>6, <2>7, <2>8, Zenon DEF OrderHolds
  <2> QED BY <2>1, <2>2, <2>9 DEF ChainInv
<1>7. ProcessIsTyped'
  <2>1. artifact' \in Builds
    <3>1. artifact' = artifact \/ artifact' = "fresh" BY <1>1 DEF Pasted
    <3>2. artifact \in Builds BY DEF RolloutInv, ProcessInv, ProcessIsTyped
    <3> QED BY <3>1, <3>2 DEF Builds
  <2>2. pc' \in 1 .. Len(Steps) + 1 BY <1>2, <1>5
  <2> QED BY <1>2, <2>1, <2>2 DEF RolloutInv, ProcessInv, ProcessIsTyped
<1>8. AddressesStand'
  <2>1. KnownBefore(script, 1) = script.inherited BY KnownFirst
  <2> QED BY <1>2, <1>3, <1>4, <2>1 DEF AddressesStand, RolloutInv, ProcessInv, EnvironmentStands, Stands
<1>9. EnvironmentStands'
  BY <1>2, <1>3, <1>4 DEF EnvironmentStands, AddressesStand, Stands, RolloutInv, ProcessInv
<1>10. DeploysAreNew'
  <2>1. ~(1 > 1) OBVIOUS
  <2> QED BY <1>2, <2>1 DEF DeploysAreNew
<1>11. Awaiting' BY <1>2 DEF Awaiting, RolloutInv, ProcessInv
<1>12. StepsStand'
  <2>1. 1 .. 1 - 1 = {} OBVIOUS
  <2> QED BY <1>2, <2>1 DEF StepsStand
<1>13. EnvironmentIsBuilt'
  <2> SUFFICES ASSUME diligent, NEW i \in DOMAIN Steps, Steps[i].op = "deploy",
                      Steps[i].guard # "always", Steps[i].on \in DOMAIN env'
               PROVE  /\ \A j \in DOMAIN Steps[i].to : Steps[i].to[j] \in DOMAIN env'
                      /\ contracts[env'[Steps[i].on]].args =
                           [j \in DOMAIN Steps[i].to |-> env'[Steps[i].to[j]]]
    BY <1>2 DEF EnvironmentIsBuilt
  <2>1. CASE Steps[i].on \in DOMAIN env
    <3>1. /\ \A j \in DOMAIN Steps[i].to : Steps[i].to[j] \in DOMAIN env
          /\ contracts[env[Steps[i].on]].args =
               [j \in DOMAIN Steps[i].to |-> env[Steps[i].to[j]]]
      BY <2>1 DEF RolloutInv, WorkInv, EnvironmentIsBuilt
    <3>2. [j \in DOMAIN Steps[i].to |-> env[Steps[i].to[j]]] =
            [j \in DOMAIN Steps[i].to |-> env'[Steps[i].to[j]]]
      BY <1>3, <3>1
    <3> QED BY <1>3, <2>1, <3>1, <3>2
  <2>2. CASE Steps[i].on \notin DOMAIN env
    <3>1. Steps[i].on \in DOMAIN addr /\ env'[Steps[i].on] = addr[Steps[i].on]
      BY <1>3, <2>2
    <3>2. state # "idle" /\ DOMAIN addr = KnownBefore(script, pc)
      BY <3>1 DEF RolloutInv, ProcessInv, AddressesStand
    <3>3. i \in 1 .. pc - 1
      <4>1. Creates(Steps[i]) /\ NamesKnownKeys(script, i) BY StepsAreSound DEF Creates
      <4>2. Steps[i].on \notin KnownBefore(script, i) BY <4>1 DEF NamesKnownKeys, Steps
      <4>3. ASSUME pc <= i PROVE FALSE
        <5>1. i \in Nat /\ pc \in 1 .. i
          BY <4>3, StepsAreTyped DEF RolloutInv, ProcessInv, ProcessIsTyped
        <5>2. KnownBefore(script, pc) \subseteq KnownBefore(script, i) BY <5>1, KnownStays
        <5> QED BY <3>1, <3>2, <4>2, <5>2
      <4> QED BY <4>3, StepsAreTyped DEF RolloutInv, ProcessInv, ProcessIsTyped
    <3>4. \A j \in DOMAIN Steps[i].to : Steps[i].to[j] \in DOMAIN addr
      BY <3>2, <3>3, StepsBehind DEF RolloutInv, ChainInv, ProcessInv
    <3>5. IsBuilt(i) BY <3>2, <3>3 DEF RolloutInv, WorkInv, StepsStand
    <3>6. contracts[addr[Steps[i].on]].args =
            [j \in DOMAIN Steps[i].to |-> addr[Steps[i].to[j]]]
      BY <3>5 DEF IsBuilt, Creates
    <3>7. \A j \in DOMAIN Steps[i].to : Steps[i].to[j] \in script.inherited \cup TakenOver(script)
      BY StepsAreSound DEF TakesOverWhole, Steps
    <3>8. \A k \in DOMAIN addr \cap script.inherited : k \in DOMAIN env' /\ env'[k] = addr[k]
      BY <1>3, <1>4 DEF RolloutInv, ProcessInv, EnvironmentStands
    <3>9. \A j \in DOMAIN Steps[i].to :
            Steps[i].to[j] \in DOMAIN env' /\ env'[Steps[i].to[j]] = addr[Steps[i].to[j]]
      BY <1>3, <3>4, <3>7, <3>8
    <3>10. [j \in DOMAIN Steps[i].to |-> addr[Steps[i].to[j]]] =
             [j \in DOMAIN Steps[i].to |-> env'[Steps[i].to[j]]]
      BY <3>9
    <3> QED BY <3>1, <3>6, <3>9, <3>10
  <2> QED BY <2>1, <2>2
<1>14. PublishedIsDone'
  <2>1. published = <<>> BY <1>2 DEF RolloutInv, WorkInv, PublishedIsDone
  <2> QED BY <1>2, <2>1 DEF PublishedIsDone
<1> QED BY <1>6, <1>7, <1>8, <1>9, <1>10, <1>11, <1>12, <1>13, <1>14
        DEF RolloutInv, ProcessInv, WorkInv

\* The script is done, and prints its addresses.
LEMMA FinishKeeps ==
  ASSUME Sound(script), RolloutInv, Finish
  PROVE  RolloutInv'
<1>1. /\ state = "running" /\ pc = Len(Steps) + 1 /\ state' = "done" /\ published' = addr
      /\ receipt' = <<>> /\ UNCHANGED <<settings, chain, pc, rpc, addr, env>>
  BY DEF Finish, Stop
<1>2. /\ UNCHANGED <<script, diligent, artifact, nodes, contracts, link, mempool>> /\ Steps' = Steps
      /\ Now' = Now
  BY <1>1 DEF settings, chain, Steps, Now
<1>3. ChainInv'
  <2>1. ChainIsPacked' BY <1>2 DEF RolloutInv, ChainInv, ChainIsPacked, OfKey
  <2>2. ValuesFit' BY <1>2 DEF RolloutInv, ChainInv, ValuesFit, Sensible, FitsSlot
  <2>3. OrderHolds' BY <1>1, <1>2 DEF RolloutInv, ChainInv, OrderHolds, NotAhead, NotAfter, Fills
  <2> QED BY <2>1, <2>2, <2>3 DEF ChainInv
<1>4. ProcessIsTyped' BY <1>1, <1>2 DEF RolloutInv, ProcessInv, ProcessIsTyped
<1>5. AddressesStand' BY <1>1, <1>2 DEF RolloutInv, ProcessInv, AddressesStand, Stands
<1>6. EnvironmentStands' BY <1>1, <1>2 DEF RolloutInv, ProcessInv, EnvironmentStands, Stands
<1>7. DeploysAreNew' BY <1>1 DEF DeploysAreNew
<1>8. Awaiting' BY <1>1, <1>2 DEF RolloutInv, ProcessInv, Awaiting
<1>9. StepsStand'
  <2>1. ASSUME NEW i \in 1 .. pc - 1
        PROVE  IsWired(i)' /\ IsBuilt(i)' /\ IsVerified(i)'
    <3>1. IsWired(i) /\ IsBuilt(i) /\ IsVerified(i)
      BY <1>1 DEF RolloutInv, WorkInv, StepsStand
    <3>2. IsWired(i)' BY <1>1, <1>2, <3>1 DEF IsWired, WiredTo, Stored, Fills
    <3>3. IsBuilt(i)' BY <1>1, <1>2, <3>1 DEF IsBuilt
    <3>4. IsVerified(i)' BY <1>1, <1>2, <3>1 DEF IsVerified
    <3> QED BY <3>2, <3>3, <3>4
  <2> QED BY <1>1, <2>1 DEF StepsStand
<1>10. EnvironmentIsBuilt' BY <1>1, <1>2 DEF RolloutInv, WorkInv, EnvironmentIsBuilt
<1>11. PublishedIsDone' BY <1>1, <1>2 DEF PublishedIsDone
<1> QED BY <1>3, <1>4, <1>5, <1>6, <1>7, <1>8, <1>9, <1>10, <1>11
        DEF RolloutInv, ProcessInv, WorkInv

-----------------------------------------------------------------------------
(* The initial states. *)

\* The contracts an earlier release left, one for each key that is inherited.
LEMMA InheritedContracts ==
  ASSUME Init, Sound(script)
  PROVE  /\ ChainIsPacked
         /\ \A k \in script.inherited : Stands(k, <<k, 0>>)
<1> DEFINE old == {<<k, 0>> : k \in script.inherited}
           made == [args |-> <<>>, live |-> TRUE, build |-> "fresh"]
<1>1. contracts = [c \in old |-> made] BY DEF Init
<1>2. script.inherited \subseteq STRING /\ IsFiniteSet(script.inherited) BY DEF Sound
<1>3. IsFiniteSet(old)
  <2> DEFINE f == [k \in script.inherited |-> <<k, 0>>]
  <2>1. f \in Surjection(script.inherited, old) BY DEF Surjection
  <2> QED BY <1>2, <2>1, FS_Surjection
<1>4. made \in Contract /\ made.live
  <2>1. <<>> \in Seq(Address) /\ TRUE \in BOOLEAN OBVIOUS
  <2> QED BY <2>1 DEF Contract, Builds
<1>5. \A c \in old : c \in Address /\ c = <<c[1], 0>> /\ c[2] = 0 BY <1>2 DEF Address
<1> HIDE DEF made
<1>6. /\ IsFiniteSet(DOMAIN contracts)
      /\ \A c \in DOMAIN contracts : c \in Address /\ contracts[c] \in Contract
  BY <1>1, <1>3, <1>4, <1>5
<1>7. ASSUME NEW key, NEW c \in OfKey(key) PROVE c[2] < Cardinality(OfKey(key))
  <2>1. OfKey(key) = {<<key, 0>>} /\ c[2] = 0 BY <1>1, <1>5, <1>7 DEF OfKey
  <2>2. Cardinality(OfKey(key)) = 1 BY <2>1, FS_Singleton
  <2> QED BY <2>1, <2>2
<1>8. \A k \in script.inherited : Stands(k, <<k, 0>>) BY <1>1, <1>4 DEF Stands
<1> QED BY <1>6, <1>7, <1>8 DEF ChainIsPacked

\* The router an earlier release left has its two algorithms.
LEMMA InheritedSlots ==
  ASSUME Init, Sound(script), NEW l \in DOMAIN link
  PROVE  \E k, r \in script.inherited : l[1] = <<r, 0>> /\ link[l] = <<k, 0>>
<1>1. link = IF {BLS, ROUTER, SKV} \subseteq script.inherited
             THEN With(With(<<>>, <<<<ROUTER, 0>>, "0x01">>, <<BLS, 0>>),
                       <<<<ROUTER, 0>>, "0x08">>, <<SKV, 0>>)
             ELSE <<>>
  BY DEF Init
<1>2. DOMAIN <<>> = {} OBVIOUS
<1>3. {BLS, ROUTER, SKV} \subseteq script.inherited BY <1>1, <1>2, Zenon
<1> DEFINE first == With(<<>>, <<<<ROUTER, 0>>, "0x01">>, <<BLS, 0>>)
           a == <<<<ROUTER, 0>>, "0x01">>  b == <<<<ROUTER, 0>>, "0x08">>
<1>4. DOMAIN first = {a} /\ first[a] = <<BLS, 0>> BY <1>2 DEF With
<1>5. link = With(first, b, <<SKV, 0>>) BY <1>1, <1>3, Zenon
<1> HIDE DEF first
<1>6. a # b /\ a[1] = <<ROUTER, 0>> /\ b[1] = <<ROUTER, 0>> OBVIOUS
<1> HIDE DEF a, b
<1>7. DOMAIN link = {a, b} /\ link[a] = <<BLS, 0>> /\ link[b] = <<SKV, 0>>
  BY <1>4, <1>5, <1>6 DEF With
<1> QED BY <1>3, <1>6, <1>7

\* The invariant holds before the first start.
LEMMA InitHolds ==
  ASSUME Init, Sound(script)
  PROVE  RolloutInv
<1>1. ChainIsPacked /\ \A k \in script.inherited : Stands(k, <<k, 0>>) BY InheritedContracts
<1>2. /\ mempool = <<>> /\ state = "idle" /\ pc = 1 /\ rpc = 1 /\ addr = <<>> /\ receipt = <<>>
      /\ env = [k \in script.inherited |-> <<k, 0>>] /\ published = <<>>
  BY DEF Init
<1>3. DOMAIN addr = {} /\ DOMAIN mempool = {} BY <1>2
<1>4. \A i \in DOMAIN Steps : Creates(Steps[i]) \/ Steps[i].op = "set" =>
        Steps[i].on \notin script.inherited
  <2> SUFFICES ASSUME NEW i \in DOMAIN Steps, Creates(Steps[i]) \/ Steps[i].op = "set"
               PROVE  Steps[i].on \notin script.inherited
    OBVIOUS
  <2>1. script.inherited \subseteq KnownBefore(script, i) BY KnownFirst
  <2> QED BY <2>1, StepsAreSound DEF NamesKnownKeys, FillsFromOneSource, Steps
<1>5. ValuesFit
  <2> SUFFICES ASSUME NEW l \in DOMAIN link
               PROVE  link[l] \in DOMAIN contracts /\ FitsSlot(l[1], l[2], link[l])
    BY <1>3 DEF ValuesFit
  <2>1. PICK k, r \in script.inherited : l[1] = <<r, 0>> /\ link[l] = <<k, 0>> BY InheritedSlots
  <2>2. link[l] \in DOMAIN contracts BY <1>1, <2>1 DEF Stands
  <2>3. FitsSlot(l[1], l[2], link[l]) BY <1>4, <2>1 DEF FitsSlot
  <2> QED BY <2>2, <2>3
<1>6. OrderHolds
  <2> SUFFICES ASSUME NEW l \in DOMAIN link PROVE NotAhead(link[l])
    BY <1>3 DEF OrderHolds
  <2>1. PICK k, r \in script.inherited : l[1] = <<r, 0>> /\ link[l] = <<k, 0>> BY InheritedSlots
  <2>2. env[k] = <<k, 0>> /\ link[l][1] = k /\ link[l][2] = 0 /\ <<k, 0>>[2] = 0 BY <1>2, <2>1
  <2> QED BY <1>3, <2>1, <2>2 DEF NotAhead, NotAfter
<1>7. ProcessIsTyped
  <2>1. nodes \in Nat
    <3>1. nodes \in 0 .. 3 \/ nodes \in {3} BY Zenon DEF Init
    <3> QED BY <3>1
  <2>2. artifact \in Builds
    <3>1. artifact = "fresh" \/ artifact = "stale" BY Zenon DEF Init
    <3> QED BY <3>1 DEF Builds
  <2>3. 1 \in 1 .. Len(Steps) + 1 BY StepsAreTyped
  <2> QED BY <1>2, <2>1, <2>2, <2>3 DEF ProcessIsTyped
<1>8. AddressesStand BY <1>2, <1>3 DEF AddressesStand
<1>9. EnvironmentStands BY <1>1, <1>2, <1>3 DEF EnvironmentStands
<1>10. DeploysAreNew /\ Awaiting BY <1>2, <1>3 DEF DeploysAreNew, Awaiting
<1>11. StepsStand /\ PublishedIsDone BY <1>2 DEF StepsStand, PublishedIsDone
<1>12. EnvironmentIsBuilt BY <1>2, <1>4 DEF EnvironmentIsBuilt, Creates
<1> QED BY <1>1, <1>5, <1>6, <1>7, <1>8, <1>9, <1>10, <1>11, <1>12
        DEF RolloutInv, ChainInv, ProcessInv, WorkInv

-----------------------------------------------------------------------------
(* Every step, and what follows. *)

Inv == Strict => Sound(script) /\ RolloutInv

\* Where nothing changes, nothing changes.
LEMMA StutterKeeps ==
  ASSUME Sound(script), RolloutInv, UNCHANGED vars
  PROVE  RolloutInv'
<1>1. UNCHANGED <<settings, chain, process, operator>> BY DEF vars
<1>2. nodes' \in Nat /\ nodes' >= nodes
  BY <1>1 DEF settings, RolloutInv, ProcessInv, ProcessIsTyped
<1>3. Shrunk BY <1>1, AllIsShrunk DEF RolloutInv, ProcessInv, chain
<1>4. ChainInv' /\ WorkInv' /\ ProcessIsTyped' /\ AddressesStand' /\ EnvironmentStands'
  BY <1>1, <1>2, <1>3, Standstill DEF settings, chain, process, operator
<1>5. DeploysAreNew'
  BY <1>1 DEF RolloutInv, ProcessInv, DeploysAreNew, Now, Steps, settings, process, operator
<1>6. Awaiting'
  BY <1>1 DEF RolloutInv, ProcessInv, Awaiting, Outcome, OfThisStep, Stands, Stored, At, Given, Now,
              Steps, settings, process, operator, chain
<1> QED BY <1>4, <1>5, <1>6 DEF RolloutInv, ProcessInv

\* No step changes the script.
LEMMA ScriptStays ==
  ASSUME [Next]_vars PROVE script' = script
<1>1. CASE UNCHANGED vars BY <1>1 DEF vars, settings
<1>2. CASE Restart BY <1>2 DEF Restart, Start
<1>3. CASE Read BY <1>3 DEF Read, settings
<1>4. CASE Skip BY <1>4 DEF Skip, settings
<1>5. CASE Refuse BY <1>5 DEF Refuse, settings
<1>6. CASE Send BY <1>6 DEF Send, settings
<1>7. CASE Observe BY <1>7 DEF Observe, settings
<1>8. CASE TimeOut BY <1>8 DEF TimeOut, settings
<1>9. CASE Crash BY <1>9 DEF Crash, settings
<1>10. CASE Finish BY <1>10 DEF Finish, settings
<1>11. CASE \E gas \in BOOLEAN : Mine(gas) BY <1>11 DEF Mine, settings
<1>12. CASE Drop BY <1>12 DEF Drop, settings
<1>13. CASE RegisterNode BY <1>13 DEF RegisterNode
<1> QED BY <1>1, <1>2, <1>3, <1>4, <1>5, <1>6, <1>7, <1>8, <1>9, <1>10, <1>11, <1>12, <1>13 DEF Next

\* The invariant is kept by whatever happens to a strict script.
LEMMA NextKeeps ==
  ASSUME Inv, [Next]_vars PROVE Inv'
<1>1. script' = script BY ScriptStays
<1> SUFFICES ASSUME Strict, Sound(script), RolloutInv PROVE RolloutInv'
  BY <1>1 DEF Inv, Strict
<1>2. CASE UNCHANGED vars BY <1>2, StutterKeeps
<1>3. CASE Restart BY <1>3, RestartKeeps
<1>4. CASE Read BY <1>4, ReadAgrees, ReadFails
<1>5. CASE Skip BY <1>5, SkipKeeps
<1>6. CASE Refuse BY <1>6, RefuseKeeps
<1>7. CASE Send BY <1>7, SendKeeps
<1>8. CASE Observe BY <1>8, SuccessKeeps, RevertKeeps
<1>9. CASE TimeOut BY <1>9, TimeOutKeeps
<1>10. CASE Crash BY <1>10, CrashKeeps
<1>11. CASE Finish BY <1>11, FinishKeeps
<1>12. CASE \E gas \in BOOLEAN : Mine(gas) BY <1>12, MineKeeps
<1>13. CASE Drop BY <1>13, DropKeeps
<1>14. CASE RegisterNode BY <1>14, RegisterNodeKeeps
<1> QED BY <1>2, <1>3, <1>4, <1>5, <1>6, <1>7, <1>8, <1>9, <1>10, <1>11, <1>12, <1>13, <1>14 DEF Next

\* The invariant of every strict script, whatever is lost, times out or fails: the
\* chain, the running script and the environment agree (Rollout's header).
THEOREM InvHolds == Spec => []Inv
<1>1. Init => Inv
  <2> SUFFICES ASSUME Init, Strict PROVE Sound(script) /\ RolloutInv
    BY DEF Inv
  <2>1. Sound(script)
    <3>1. PICK r \in Rollouts : script = Plan[r] BY DEF Init
    <3>2. r \in DOMAIN Plan BY RolloutAssumption DEF RolloutAssumption
    <3> QED BY <3>1, <3>2, PlansAreSound DEF PlansAreSound, Strict
  <2> QED BY <2>1, InitHolds
<1>2. Inv /\ [Next]_vars => Inv' BY NextKeeps
<1> QED BY <1>1, <1>2, PTL DEF Spec

\* What a printed block is: the addresses of a script that is done.
LEMMA PublishedIsTheWork ==
  ASSUME Inv, published # <<>>, Strict
  PROVE  /\ Sound(script) /\ RolloutInv /\ published = addr /\ state # "idle"
         /\ \A i \in DOMAIN Steps : i \in 1 .. pc - 1 /\ IsWired(i) /\ IsBuilt(i) /\ IsVerified(i)
<1>1. /\ Sound(script) /\ RolloutInv /\ state = "done" /\ published = addr
      /\ pc = Len(Steps) + 1
  BY DEF Inv, RolloutInv, WorkInv, PublishedIsDone
<1>2. \A i \in DOMAIN Steps : i \in 1 .. pc - 1 BY <1>1, StepsAreTyped
<1> QED BY <1>1, <1>2 DEF RolloutInv, WorkInv, StepsStand

\* PublishedAsVerified for every number of starts, faults and endpoints.
THEOREM PublishedIsVerified == Spec => []PublishedAsVerified
<1>1. Inv => PublishedAsVerified
  <2> SUFFICES ASSUME Inv, published # <<>>, Strict
               PROVE  /\ \A k \in DOMAIN published : Live(Published(k))
                      /\ Has({"version"}) => contracts[Published("IMPL")].build = "fresh"
                      /\ \A i \in DOMAIN Steps : Steps[i].op = "nodes"
                           => nodes >= NodesAsked[Steps[i].guard]
    BY DEF PublishedAsVerified
  <2>1. \A k \in DOMAIN published : Live(Published(k))
    BY PublishedIsTheWork DEF Published, Live, RolloutInv, ProcessInv, AddressesStand, Stands
  <2>2. Has({"version"}) => contracts[Published("IMPL")].build = "fresh"
    BY PublishedIsTheWork DEF Has, Published, IsVerified
  <2>3. \A i \in DOMAIN Steps : Steps[i].op = "nodes" => nodes >= NodesAsked[Steps[i].guard]
    BY PublishedIsTheWork DEF IsVerified
  <2> QED BY <2>1, <2>2, <2>3
<1> QED BY <1>1, InvHolds, PTL

\* ReleasesAreWired for every number of starts, faults and endpoints.
THEOREM PrintedIsWired == Spec => []ReleasesAreWired
<1>1. Inv => ReleasesAreWired
  BY PublishedIsTheWork DEF ReleasesAreWired, IsWired, WiredTo, Published
<1> QED BY <1>1, InvHolds, PTL

\* BuiltFromThePublished for every number of starts, faults and endpoints.
THEOREM PrintedIsBuilt == Spec => []BuiltFromThePublished
<1>1. Inv => BuiltFromThePublished
  <2> SUFFICES ASSUME Inv, published # <<>>, Strict, diligent, NEW i \in DOMAIN Steps,
                      Steps[i].op \in {"deploy", "create2"}
               PROVE  contracts[Published(Steps[i].on)].args =
                        [j \in DOMAIN Steps[i].to |-> Published(Steps[i].to[j])]
    BY DEF BuiltFromThePublished
  <2>1. IsBuilt(i) /\ published = addr BY PublishedIsTheWork
  <2> QED BY <2>1 DEF IsBuilt, Creates, Published
<1> QED BY <1>1, InvHolds, PTL

=============================================================================
