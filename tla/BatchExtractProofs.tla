-------------------------- MODULE BatchExtractProofs --------------------------
(***************************************************************************)
(* Theorems about BatchExtractTransaction, for any number of calls at once *)
(* (even infinitely many), blocks of any length and any number of tokens.  *)
(***************************************************************************)
EXTENDS BatchExtract, FiniteSetTheorems, TLAPS

Offered(b) == {i \in Transfers(b) : offered[b][i] = 1}

\* Where the transfers of call b are.  One that is not started, being extracted,
\* queued or in saveWork's hands has not been offered, and is in one place only.
Places(b) ==
  /\ spawned[b] <= Size[b]
  /\ sending[b] \subseteq 1..spawned[b]
  /\ \A k \in 1..Len(values[b]) :
       /\ values[b][k] \in 1..spawned[b] /\ values[b][k] \notin sending[b]
       /\ offered[b][values[b][k]] = 0
       /\ \A l \in 1..Len(values[b]) : values[b][k] = values[b][l] => k = l
  /\ saver[b] = "notify" =>
       /\ held[b] \in 1..spawned[b] /\ held[b] \notin sending[b]
       /\ offered[b][held[b]] = 0
       /\ \A k \in 1..Len(values[b]) : values[b][k] # held[b]
  /\ \A i \in Transfers(b) :
       /\ offered[b][i] \in {0, 1}
       /\ i > spawned[b] \/ i \in sending[b] => offered[b][i] = 0

\* saveWork counts what was offered, and quit is closed when that is all.
Counts(b) ==
  /\ Cardinality(Offered(b)) = done[b] + (IF saver[b] = "count" THEN 1 ELSE 0)
  /\ quit[b] <= 1
  /\ quit[b] > 0 => done[b] = Size[b]

\* Where a call stands when its saveWork has begun, and when quit is closed.
Phases(b) ==
  /\ main[b] = "idle" \/ Size[b] = 0 => saver[b] = "none"
  /\ main[b] \in {"runtime", "closeWorker", "closeProducer"} => Size[b] > 0
  /\ main[b] \in {"closeWorker", "closeProducer", "returned"} /\ Size[b] > 0 => quit[b] > 0

CallInv(b) == Places(b) /\ Counts(b) /\ Phases(b)

IInv == Types /\ \A b \in Batch : CallInv(b)

\* One token for each extractor that runs.
Running == {p \in Batch \X Nat : p[2] \in sending[p[1]] \cup releasing[p[1]]}

TokenInv ==
  /\ \A b \in Batch : releasing[b] \subseteq 1..spawned[b] /\ sending[b] \cap releasing[b] = {}
  /\ IsFiniteSet(Running)
  /\ tokens = Cardinality(Running)
  /\ tokens <= MaxExtractingSize
-----------------------------------------------------------------------------
LEMMA TypeInit == Init => Types
  BY BatchAssumption DEF Init, Types, Main, Saver, Transfers

\* One element of a function into Nat raised by one.
LEMMA OneMore ==
  ASSUME NEW S, NEW f \in [S -> Nat], NEW x
  PROVE  [f EXCEPT ![x] = @ + 1] \in [S -> Nat]
<1>1. \A y \in S : f[y] \in Nat /\ f[y] + 1 \in Nat
  OBVIOUS
<1>2. [f EXCEPT ![x] = @ + 1] = [y \in S |-> IF y = x THEN f[y] + 1 ELSE f[y]]
  BY Zenon
<1> QED
  BY <1>1, <1>2

LEMMA TypeStep == Types /\ [Next]_vars => Types'
<1> SUFFICES ASSUME Types, [Next]_vars PROVE Types'
  OBVIOUS
<1> USE BatchAssumption DEF Types, Main, Saver, Transfers
<1>1. ASSUME NEW b \in Batch, Begin(b) PROVE Types'
  BY <1>1 DEF Begin
<1>2. ASSUME NEW b \in Batch, Spawn(b) PROVE Types'
  BY <1>2 DEF Spawn
<1>3. ASSUME NEW b \in Batch, Consume(b) PROVE Types'
  BY <1>3 DEF Consume, Dequeue
<1>4. ASSUME NEW b \in Batch, Notify(b) PROVE Types'
  <2>1. ASSUME NEW c \in Batch PROVE offered'[c] \in [Transfers(c) -> Nat]
    <3>1. /\ c = b => offered'[c] = [offered[c] EXCEPT ![held[c]] = @ + 1]
          /\ c # b => offered'[c] = offered[c]
      BY <1>4 DEF Notify
    <3>2. offered[c] \in [Transfers(c) -> Nat]
      OBVIOUS
    <3>3. [offered[c] EXCEPT ![held[c]] = @ + 1] \in [Transfers(c) -> Nat]
      BY ONLY <3>2, OneMore
    <3> QED
      BY <3>1, <3>2, <3>3
  <2>2. refused' \subseteq Batch
    BY <1>4 DEF Notify
  <2>3. DOMAIN offered' = Batch
    BY <1>4 DEF Notify
  <2> QED
    BY <1>4, <2>1, <2>2, <2>3 DEF Notify
<1>5. ASSUME NEW b \in Batch, Count(b) PROVE Types'
  BY <1>5 DEF Count
<1>6. ASSUME NEW b \in Batch, Quit(b) \/ CloseWorker(b) \/ CloseProducer(b) \/ SaverEnds(b)
      PROVE Types'
  BY <1>6 DEF Quit, CloseWorker, CloseProducer, SaverEnds
<1>7. ASSUME NEW b \in Batch, NEW i \in Transfers(b), Produce(b, i) PROVE Types'
  <2>1. i \in Nat
    BY <1>7
  <2>2. values' \in [Batch -> Seq(Nat)]
    BY <1>7, <2>1 DEF Produce
  <2>3. sending' \in [Batch -> SUBSET Nat] /\ releasing' \in [Batch -> SUBSET Nat]
    BY <1>7, <2>1 DEF Produce
  <2> QED
    BY <1>7, <2>2, <2>3 DEF Produce
<1>8. ASSUME NEW b \in Batch, NEW i \in Transfers(b), Release(b, i) PROVE Types'
  <2>1. tokens' \in Int
    BY <1>8 DEF Release, TakeOne
  <2>2. releasing' \in [Batch -> SUBSET Nat]
    BY <1>8 DEF Release
  <2> QED
    BY <1>8, <2>1, <2>2 DEF Release
<1>9. CASE UNCHANGED vars
  BY <1>9 DEF vars
<1> QED
  BY <1>1, <1>2, <1>3, <1>4, <1>5, <1>6, <1>7, <1>8, <1>9 DEF Next, Step, Stop
-----------------------------------------------------------------------------
\* A call that a step leaves alone keeps its invariant.
LEMMA Frame ==
  ASSUME NEW c \in Batch, CallInv(c),
         main'[c] = main[c], spawned'[c] = spawned[c], sending'[c] = sending[c],
         values'[c] = values[c], saver'[c] = saver[c], held'[c] = held[c],
         done'[c] = done[c], quit'[c] = quit[c], offered'[c] = offered[c]
  PROVE  CallInv(c)'
<1>1. Offered(c)' = Offered(c)
  BY DEF Offered, Transfers
<1>2. Counts(c)'
  BY <1>1 DEF CallInv, Counts
<1>3. Places(c)' /\ Phases(c)'
  BY DEF CallInv, Places, Phases, Transfers
<1> QED
  BY <1>2, <1>3 DEF CallInv

\* As many transfers were offered as the set of them says, and all of them were
\* when it says Size.
LEMMA OfferedCounted ==
  ASSUME Types, NEW b \in Batch
  PROVE  /\ IsFiniteSet(Offered(b)) /\ Cardinality(Offered(b)) \in Nat
         /\ Cardinality(Offered(b)) <= Size[b]
         /\ Cardinality(Offered(b)) = Size[b] => Offered(b) = Transfers(b)
<1>1. Size[b] \in Nat /\ Offered(b) \in SUBSET Transfers(b)
  BY BatchAssumption DEF Offered
<1>2. IsFiniteSet(Transfers(b)) /\ Cardinality(Transfers(b)) = Size[b]
  <2>1. IsFiniteSet(1..Size[b]) /\ Cardinality(1..Size[b]) = IF 1 > Size[b] THEN 0 ELSE Size[b] - 1 + 1
    BY ONLY <1>1, FS_Interval, SMTT(30)
  <2>2. 1 > Size[b] => Size[b] = 0
    BY ONLY <1>1
  <2> QED
    BY ONLY <1>1, <2>1, <2>2 DEF Transfers
<1> QED
  BY <1>1, <1>2, FS_Subset, FS_CardinalityType

\* What is left of a queue when its head is taken.
LEMMA TailElements ==
  ASSUME NEW q \in Seq(Nat), q # <<>>
  PROVE  /\ Len(q) \in Nat /\ 1 \in 1..Len(q) /\ Head(q) = q[1]
         /\ \A k \in 1..Len(Tail(q)) :
              k \in Nat /\ k + 1 \in 1..Len(q) /\ k + 1 # 1 /\ Tail(q)[k] = q[k + 1]
  OBVIOUS

\* Once quit is closed nothing of the call is on its way any more.
LEMMA QuitMeansDone ==
  ASSUME Types, NEW b \in Batch, CallInv(b), quit[b] > 0
  PROVE  /\ spawned[b] = Size[b] /\ sending[b] = {} /\ values[b] = <<>>
         /\ saver[b] \notin {"notify", "count"}
         /\ \A i \in Transfers(b) : offered[b][i] = 1
<1> USE DEF CallInv
<1>1. Size[b] \in Nat /\ spawned[b] \in Nat /\ done[b] \in Nat /\ spawned[b] <= Size[b]
      /\ sending[b] \subseteq 1..spawned[b]
  BY BatchAssumption DEF Types, Places
<1>2. done[b] = Size[b] /\ saver[b] # "count" /\ Cardinality(Offered(b)) = Size[b]
  BY <1>1, OfferedCounted DEF Counts
<1>3. \A i \in Transfers(b) : offered[b][i] = 1
  BY <1>2, OfferedCounted DEF Offered
<1>4. saver[b] # "notify" /\ sending[b] = {}
  BY <1>1, <1>3 DEF Places, Transfers
<1>5. spawned[b] = Size[b]
  <2>1. SUFFICES ASSUME spawned[b] < Size[b] PROVE FALSE
    BY <1>1
  <2>2. Size[b] \in Transfers(b) /\ Size[b] > spawned[b]
    BY <1>1, <2>1 DEF Transfers
  <2> QED
    BY <1>3, <2>2 DEF Places
<1>6. values[b] = <<>>
  <2> SUFFICES ASSUME values[b] # <<>> PROVE FALSE
    OBVIOUS
  <2>1. values[b] \in Seq(Nat)
    BY DEF Types
  <2>2. 1 \in 1..Len(values[b])
    BY ONLY <2>1, values[b] # <<>>, TailElements
  <2>3. values[b][1] \in 1..spawned[b] /\ offered[b][values[b][1]] = 0
    BY <2>2 DEF Places
  <2> QED
    BY <1>1, <1>3, <2>3 DEF Transfers
<1> QED
  BY <1>2, <1>3, <1>4, <1>5, <1>6
-----------------------------------------------------------------------------
LEMMA CallInit == Init => \A b \in Batch : CallInv(b)
<1> SUFFICES ASSUME Init, NEW b \in Batch PROVE CallInv(b)
  OBVIOUS
<1>1. Size[b] \in Nat /\ offered[b] = [i \in Transfers(b) |-> 0]
  BY BatchAssumption DEF Init
<1>2. Offered(b) = {}
  BY <1>1 DEF Offered
<1>3. Counts(b)
  BY <1>2, FS_EmptySet DEF Init, Counts
<1>4. Places(b)
  BY <1>1 DEF Init, Places
<1> QED
  BY <1>3, <1>4 DEF Init, CallInv, Phases

\* Steps that move no transfer and offer none.
LEMMA MoveStep ==
  ASSUME Types, NEW b \in Batch, CallInv(b),
         Begin(b) \/ Quit(b) \/ CloseWorker(b) \/ CloseProducer(b) \/ SaverEnds(b)
  PROVE  CallInv(b)'
<1> USE DEF CallInv, Begin, Quit, CloseWorker, CloseProducer, SaverEnds
<1>1. Offered(b)' = Offered(b)
  BY DEF Offered, Transfers
<1>2. saver'[b] = saver[b] \/ (saver[b] \in {"none", "receive"} /\ saver'[b] \in {"receive", "ended"})
  BY DEF Types, Phases
<1>3. Counts(b)'
  BY <1>1, <1>2 DEF Counts
<1>4. Places(b)'
  BY <1>2 DEF Places, Transfers
<1>5. Phases(b)'
  <2>1. Size[b] \in Nat /\ (Size[b] = 0 \/ Size[b] > 0)
    BY BatchAssumption
  <2> QED
    BY <2>1 DEF Phases, Types
<1> QED
  BY <1>3, <1>4, <1>5

LEMMA SpawnStep ==
  ASSUME Types, NEW b \in Batch, CallInv(b), Spawn(b)
  PROVE  CallInv(b)'
<1> USE DEF CallInv, Spawn
<1>1. spawned[b] \in Nat /\ Size[b] \in Nat /\ spawned[b] < Size[b]
  BY BatchAssumption DEF Types
<1>2. spawned'[b] = spawned[b] + 1 /\ sending'[b] = sending[b] \cup {spawned[b] + 1}
  BY DEF Types
<1>3. Counts(b)' /\ Phases(b)'
  BY DEF Counts, Phases, Offered, Transfers
<1>4. Places(b)'
  BY <1>1, <1>2 DEF Places, Transfers
<1> QED
  BY <1>3, <1>4

LEMMA ProduceStep ==
  ASSUME Types, NEW b \in Batch, CallInv(b), NEW i \in Transfers(b), Produce(b, i)
  PROVE  CallInv(b)'
<1> USE DEF CallInv, Produce
<1>1. spawned[b] \in Nat /\ Size[b] \in Nat /\ values[b] \in Seq(Nat) /\ i \in Nat
  BY BatchAssumption DEF Types, Transfers
<1>2. values'[b] = Append(values[b], i) /\ sending'[b] = sending[b] \ {i}
  BY DEF Types
<1>3. Counts(b)' /\ Phases(b)'
  BY DEF Counts, Phases, Offered, Transfers
<1>4. i \in 1..spawned[b] /\ offered[b][i] = 0 /\ \A k \in 1..Len(values[b]) : values[b][k] # i
  BY DEF Places
<1>5. saver[b] = "notify" => held[b] # i
  BY DEF Places
<1>6. Places(b)'
  BY <1>1, <1>2, <1>4, <1>5 DEF Places, Transfers
<1> QED
  BY <1>3, <1>6

LEMMA ConsumeStep ==
  ASSUME Types, NEW b \in Batch, CallInv(b), Consume(b)
  PROVE  CallInv(b)'
<1> USE DEF CallInv, Consume, Dequeue
<1>1. values[b] \in Seq(Nat) /\ values[b] # <<>>
  BY DEF Types
<1>2. values'[b] = Tail(values[b]) /\ held'[b] = Head(values[b]) /\ saver'[b] = "notify"
  BY DEF Types
<1>3. Counts(b)' /\ Phases(b)'
  BY <1>2 DEF Counts, Phases, Offered, Transfers
<1>4. /\ Len(values[b]) \in Nat /\ 1 \in 1..Len(values[b]) /\ held'[b] = values[b][1]
      /\ \A k \in 1..Len(values'[b]) :
           /\ k \in Nat /\ k + 1 \in 1..Len(values[b]) /\ k + 1 # 1
           /\ values'[b][k] = values[b][k + 1]
  BY ONLY <1>1, <1>2, TailElements
<1>5. \A k \in 1..Len(values'[b]) :
        /\ values'[b][k] \in 1..spawned[b] /\ values'[b][k] \notin sending[b]
        /\ offered[b][values'[b][k]] = 0 /\ values'[b][k] # held'[b]
        /\ \A l \in 1..Len(values'[b]) : values'[b][k] = values'[b][l] => k = l
  <2>1. SUFFICES ASSUME NEW k \in 1..Len(values'[b]), NEW l \in 1..Len(values'[b])
                 PROVE  /\ values'[b][k] \in 1..spawned[b] /\ values'[b][k] \notin sending[b]
                        /\ offered[b][values'[b][k]] = 0 /\ values'[b][k] # held'[b]
                        /\ values'[b][k] = values'[b][l] => k = l
    OBVIOUS
  <2>2. k + 1 = l + 1 => k = l
    BY <1>4
  <2>3. values'[b][k] = values[b][k + 1] /\ values'[b][l] = values[b][l + 1]
    BY <1>4
  <2>4. k + 1 \in 1..Len(values[b]) /\ l + 1 \in 1..Len(values[b])
    BY <1>4
  <2>5. values[b][k + 1] # values[b][1]
    BY <1>4, <2>4 DEF Places
  <2>6. values[b][k + 1] = values[b][l + 1] => k + 1 = l + 1
    BY <2>4 DEF Places
  <2> QED
    BY <1>4, <2>2, <2>3, <2>4, <2>5, <2>6 DEF Places
<1>6. /\ held'[b] \in 1..spawned[b] /\ held'[b] \notin sending[b]
      /\ offered[b][held'[b]] = 0
  BY <1>4 DEF Places
<1>7. Places(b)'
  BY <1>5, <1>6 DEF Places, Transfers
<1> QED
  BY <1>3, <1>7

LEMMA NotifyStep ==
  ASSUME Types, NEW b \in Batch, CallInv(b), Notify(b)
  PROVE  /\ CallInv(b)'
         /\ held[b] \in Transfers(b) /\ offered[b][held[b]] = 0
         /\ offered'[b] = [offered[b] EXCEPT ![held[b]] = 1]
<1> USE DEF CallInv, Notify
<1>1. spawned[b] \in Nat /\ Size[b] \in Nat /\ offered[b] \in [Transfers(b) -> Nat]
  BY BatchAssumption DEF Types
<1>2. /\ held[b] \in 1..spawned[b] /\ held[b] \notin sending[b] /\ offered[b][held[b]] = 0
      /\ \A k \in 1..Len(values[b]) : values[b][k] # held[b]
      /\ held[b] \in Transfers(b)
  BY <1>1 DEF Places, Transfers
<1>3. offered'[b] = [offered[b] EXCEPT ![held[b]] = 1] /\ saver'[b] = "count"
  BY <1>2 DEF Types
<1>4. Counts(b)'
  <2>1. Offered(b)' = Offered(b) \cup {held[b]} /\ held[b] \notin Offered(b)
    BY <1>1, <1>2, <1>3 DEF Offered, Transfers
  <2>2. Cardinality(Offered(b)') = Cardinality(Offered(b)) + 1
    BY <2>1, OfferedCounted, FS_AddElement
  <2> QED
    BY <1>3, <2>2 DEF Counts, Types
<1>5. Places(b)'
  BY <1>1, <1>2, <1>3 DEF Places, Transfers
<1>6. Phases(b)'
  BY <1>3 DEF Phases
<1> QED
  BY <1>2, <1>3, <1>4, <1>5, <1>6

LEMMA CountStep ==
  ASSUME Types, NEW b \in Batch, CallInv(b), Count(b)
  PROVE  CallInv(b)'
<1> USE DEF CallInv, Count, LastOne
<1>1. Size[b] \in Nat /\ done[b] \in Nat /\ quit[b] \in Nat
  BY BatchAssumption DEF Types
<1>2. /\ done'[b] = done[b] + 1 /\ saver'[b] = "receive"
      /\ quit'[b] = IF done[b] + 1 = Size[b] THEN quit[b] + 1 ELSE quit[b]
  BY DEF Types
<1>3. Cardinality(Offered(b)) = done[b] + 1 /\ Cardinality(Offered(b)) <= Size[b]
  BY OfferedCounted DEF Counts
<1>4. quit[b] = 0
  BY <1>1, <1>3 DEF Counts
<1>5. Offered(b)' = Offered(b)
  BY DEF Offered, Transfers
<1>6. Counts(b)'
  BY <1>1, <1>2, <1>3, <1>4, <1>5 DEF Counts
<1>7. Places(b)' /\ Phases(b)'
  BY <1>1, <1>2, <1>4 DEF Places, Phases, Transfers
<1> QED
  BY <1>6, <1>7
-----------------------------------------------------------------------------
\* What one call's own step does.
Act(b) == Begin(b) \/ Step(b)

\* A step of call b keeps the invariant of call b ...
LEMMA OwnStep ==
  ASSUME Types, NEW b \in Batch, CallInv(b), Act(b)
  PROVE  CallInv(b)'
<1>1. CASE Begin(b) \/ Quit(b) \/ CloseWorker(b) \/ CloseProducer(b) \/ SaverEnds(b)
  BY <1>1, MoveStep
<1>2. CASE Spawn(b)
  BY <1>2, SpawnStep
<1>3. CASE Consume(b)
  BY <1>3, ConsumeStep
<1>4. CASE Notify(b)
  BY <1>4, NotifyStep
<1>5. CASE Count(b)
  BY <1>5, CountStep
<1>6. ASSUME NEW i \in Transfers(b), Produce(b, i) PROVE CallInv(b)'
  BY <1>6, ProduceStep
<1>7. ASSUME NEW i \in Transfers(b), Release(b, i) PROVE CallInv(b)'
  BY <1>7, Frame DEF Release
<1> QED
  BY <1>1, <1>2, <1>3, <1>4, <1>5, <1>6, <1>7 DEF Act, Step

\* ... and touches no other call.
LEMMA OtherStep ==
  ASSUME Types, NEW b \in Batch, Act(b), NEW c \in Batch, c # b, CallInv(c)
  PROVE  CallInv(c)'
<1> USE DEF Types
<1>1. CASE Begin(b) \/ Quit(b) \/ CloseWorker(b) \/ CloseProducer(b) \/ SaverEnds(b)
  BY <1>1, Frame DEF Begin, Quit, CloseWorker, CloseProducer, SaverEnds
<1>2. CASE Spawn(b)
  BY <1>2, Frame DEF Spawn
<1>3. CASE Consume(b)
  BY <1>3, Frame DEF Consume
<1>4. CASE Notify(b)
  BY <1>4, Frame DEF Notify
<1>5. CASE Count(b)
  BY <1>5, Frame DEF Count
<1>6. ASSUME NEW i \in Transfers(b), Produce(b, i) PROVE CallInv(c)'
  BY <1>6, Frame DEF Produce
<1>7. ASSUME NEW i \in Transfers(b), Release(b, i) PROVE CallInv(c)'
  BY <1>7, Frame DEF Release
<1> QED
  BY <1>1, <1>2, <1>3, <1>4, <1>5, <1>6, <1>7 DEF Act, Step

LEMMA CallStepInv == IInv /\ [Next]_vars => IInv'
<1> SUFFICES ASSUME IInv, [Next]_vars PROVE IInv'
  OBVIOUS
<1>1. Types'
  BY TypeStep DEF IInv
<1>2. ASSUME NEW b \in Batch, Act(b), NEW c \in Batch PROVE CallInv(c)'
  BY <1>2, OwnStep, OtherStep DEF IInv
<1>3. ASSUME UNCHANGED vars, NEW c \in Batch PROVE CallInv(c)'
  BY <1>3, Frame DEF IInv, vars
<1> QED
  BY <1>1, <1>2, <1>3 DEF IInv, Next, Act, Stop

\* The inductive invariant holds in every reachable state.
THEOREM CallsInvariant == Spec => []IInv
<1>1. Init => IInv
  BY TypeInit, CallInit DEF IInv
<1> QED
  BY <1>1, CallStepInv, PTL DEF Spec

\* Go's channel rules are kept in every call: quit is closed once, and when the
\* deferred closes run no goroutine is left that would send to producer or worker.
THEOREM ChannelsAlwaysQuiet == Spec => []ChannelsQuiet
<1>1. IInv => ChannelsQuiet
  <2> SUFFICES ASSUME IInv, NEW b \in Batch
               PROVE  /\ quit[b] <= 1
                      /\ main[b] \in {"closeWorker", "closeProducer", "returned"} =>
                           /\ spawned[b] = Size[b] /\ sending[b] = {} /\ values[b] = <<>>
                           /\ saver[b] \in {"none", "receive", "ended"}
    BY DEF ChannelsQuiet
  <2> USE DEF IInv, CallInv
  <2>1. Size[b] \in Nat /\ saver[b] \in Saver /\ spawned[b] \in Nat /\ values[b] \in Seq(Nat)
    BY BatchAssumption DEF Types
  <2>2. CASE quit[b] > 0
    BY <2>1, <2>2, QuitMeansDone DEF Counts, Saver
  <2>3. CASE Size[b] = 0
    <3>1. spawned[b] = 0 /\ saver[b] = "none" /\ sending[b] = {}
      BY <2>1, <2>3 DEF Places, Phases
    <3>2. values[b] = <<>>
      BY <2>1, <3>1 DEF Places
    <3> QED
      BY <2>3, <3>1, <3>2 DEF Counts
  <2> QED
    BY <2>1, <2>2, <2>3 DEF Phases, Counts
<1> QED
  BY <1>1, CallsInvariant, PTL
-----------------------------------------------------------------------------
\* A call's own step is a step of the promise, or none: only Begin, Notify and
\* the last deferred close are seen from outside.
LEMMA ActKeepsPromise ==
  ASSUME IInv, NEW b \in Batch, Act(b)
  PROVE  Promise!Next \/ UNCHANGED <<status, offered, refused>>
<1> USE DEF IInv, Types
<1>1. CASE Begin(b)
  <2>1. status' = [status EXCEPT ![b] = IF Size[b] = 0 THEN "returned" ELSE "running"]
    BY <1>1 DEF Begin, status
  <2>2. Promise!Begin(b)
    BY <1>1, <2>1 DEF Begin, status, Promise!Begin
  <2> QED
    BY <2>2 DEF Promise!Next
<1>2. CASE Notify(b)
  <2>1. /\ held[b] \in Transfers(b) /\ offered[b][held[b]] = 0
        /\ offered'[b] = [offered[b] EXCEPT ![held[b]] = 1]
    BY <1>2, NotifyStep
  <2>2. main[b] \notin {"idle", "returned"}
    <3>1. ~(quit[b] > 0)
      BY <1>2, QuitMeansDone DEF Notify
    <3>2. main[b] # "idle" /\ Size[b] \in Nat /\ Size[b] # 0
      BY <1>2, BatchAssumption DEF Notify, CallInv, Phases
    <3> QED
      BY <3>1, <3>2 DEF CallInv, Phases
  <2>3. status' = status /\ status[b] = "running"
    BY <1>2, <2>2 DEF Notify, status
  <2>4. offered' = [offered EXCEPT ![b][held[b]] = 1]
    BY <1>2, <2>1 DEF Notify
  <2>5. Promise!Offer(b, held[b])
    BY <1>2, <2>1, <2>3, <2>4 DEF Notify, Promise!Offer
  <2> QED
    BY <2>1, <2>5 DEF Promise!Next, Promise!Transfers, Transfers
<1>3. CASE CloseProducer(b)
  <2>1. quit[b] > 0
    BY <1>3 DEF CloseProducer, CallInv, Phases
  <2>2. \A i \in Transfers(b) : offered[b][i] = 1
    BY <2>1, QuitMeansDone
  <2>3. status[b] = "running" /\ status' = [status EXCEPT ![b] = "returned"]
    BY <1>3 DEF CloseProducer, status
  <2>4. Promise!Return(b)
    BY <1>3, <2>2, <2>3 DEF CloseProducer, Promise!Return, Promise!Transfers, Transfers
  <2> QED
    BY <2>4 DEF Promise!Next
<1>4. CASE Quit(b) \/ CloseWorker(b)
  <2>1. \A c \in Batch : status'[c] = status[c]
    BY <1>4 DEF Quit, CloseWorker, status
  <2>2. status' = status
    BY <2>1 DEF status
  <2> QED
    BY <1>4, <2>2 DEF Quit, CloseWorker
<1>5. CASE Spawn(b) \/ Consume(b) \/ Count(b) \/ SaverEnds(b)
  BY <1>5 DEF Spawn, Consume, Count, SaverEnds, status
<1>6. ASSUME NEW i \in Transfers(b), Produce(b, i) \/ Release(b, i)
      PROVE  UNCHANGED <<status, offered, refused>>
  BY <1>6 DEF Produce, Release, status
<1> QED
  BY <1>1, <1>2, <1>3, <1>4, <1>5, <1>6 DEF Act, Step

\* BatchExtractTransaction implements its promise: every transfer is offered to
\* the observers exactly once, and no call returns before its last offer.
THEOREM KeepsPromise == Spec => PromiseKept
<1>1. Init => Promise!Init
  BY DEF Init, Promise!Init, status, Promise!Transfers, Transfers
<1>2. IInv /\ [Next]_vars => [Promise!Next]_(Promise!vars)
  <2>1. ASSUME IInv, NEW b \in Batch, Act(b) PROVE [Promise!Next]_(Promise!vars)
    BY <2>1, ActKeepsPromise DEF Promise!vars
  <2>2. UNCHANGED vars => UNCHANGED Promise!vars
    BY DEF vars, status, Promise!vars
  <2> QED
    BY <2>1, <2>2 DEF Next, Act, Stop
<1> QED
  BY <1>1, <1>2, CallsInvariant, PTL DEF Spec, PromiseKept, Promise!Spec
-----------------------------------------------------------------------------
LEMMA TokenInit == Init => TokenInv
<1> SUFFICES ASSUME Init PROVE TokenInv
  OBVIOUS
<1>1. Running = {}
  BY DEF Init, Running
<1> QED
  BY <1>1, FS_EmptySet, BatchAssumption DEF Init, TokenInv

\* Only Spawn and Release change the extractors that run, Spawn by one that did
\* not run yet and Release by one that did.
LEMMA TokenStep == IInv /\ TokenInv /\ [Next]_vars => TokenInv'
<1> SUFFICES ASSUME IInv, TokenInv, [Next]_vars PROVE TokenInv'
  OBVIOUS
<1> USE DEF IInv, Types
<1>1. ASSUME NEW b \in Batch, Spawn(b) PROVE TokenInv'
  <2>1. /\ spawned[b] \in Nat /\ tokens < MaxExtractingSize /\ tokens' = tokens + 1
        /\ spawned' = [spawned EXCEPT ![b] = @ + 1] /\ releasing' = releasing
        /\ sending' = [sending EXCEPT ![b] = @ \cup {spawned[b] + 1}]
    BY <1>1 DEF Spawn, FreeToken
  <2>2. sending[b] \subseteq 1..spawned[b] /\ releasing[b] \subseteq 1..spawned[b]
    BY DEF CallInv, Places, TokenInv
  <2>3. Running' = Running \cup {<<b, spawned[b] + 1>>} /\ <<b, spawned[b] + 1>> \notin Running
    <3>1. spawned[b] + 1 \in Nat /\ spawned[b] + 1 \notin sending[b] \cup releasing[b]
      BY <2>1, <2>2
    <3>2. \A p \in Batch \X Nat :
            p \in Running' <=> p \in Running \/ (p[1] = b /\ p[2] = spawned[b] + 1)
      BY <2>1 DEF Running
    <3> QED
      BY <3>1, <3>2 DEF Running
  <2>4. IsFiniteSet(Running') /\ Cardinality(Running') = Cardinality(Running) + 1
    BY <2>3, FS_AddElement DEF TokenInv
  <2>5. ASSUME NEW c \in Batch
        PROVE  releasing'[c] \subseteq 1..spawned'[c] /\ sending'[c] \cap releasing'[c] = {}
    BY <2>1, <2>2 DEF TokenInv
  <2> QED
    BY <2>1, <2>4, <2>5, BatchAssumption DEF TokenInv
<1>2. ASSUME NEW b \in Batch, NEW i \in Transfers(b), Release(b, i) PROVE TokenInv'
  <2>1. /\ i \in releasing[b] /\ i \in Nat /\ tokens' = tokens - 1
        /\ releasing' = [releasing EXCEPT ![b] = @ \ {i}]
        /\ spawned' = spawned /\ sending' = sending /\ i \notin sending[b]
    BY <1>2 DEF Release, TakeOne, TokenInv, Transfers
  <2>2. Running' = Running \ {<<b, i>>} /\ <<b, i>> \in Running
    BY <2>1, SMTT(30) DEF Running
  <2>3. IsFiniteSet(Running') /\ Cardinality(Running') = Cardinality(Running) - 1
    <3>1. IsFiniteSet(Running)
      BY DEF TokenInv
    <3> QED
      BY ONLY <2>2, <3>1, FS_RemoveElement
  <2>4. ASSUME NEW c \in Batch
        PROVE  releasing'[c] \subseteq 1..spawned'[c] /\ sending'[c] \cap releasing'[c] = {}
    BY <2>1 DEF TokenInv
  <2> QED
    <3>1. tokens - 1 <= MaxExtractingSize /\ tokens = Cardinality(Running)
      BY BatchAssumption DEF TokenInv
    <3> QED
      BY <2>1, <2>3, <2>4, <3>1 DEF TokenInv
<1>3. ASSUME NEW b \in Batch, NEW i \in Transfers(b), Produce(b, i) PROVE TokenInv'
  <2>1. /\ i \in sending[b] /\ tokens' = tokens /\ spawned' = spawned
        /\ sending' = [sending EXCEPT ![b] = @ \ {i}]
        /\ releasing' = [releasing EXCEPT ![b] = @ \cup {i}]
    BY <1>3 DEF Produce
  <2>2. Running' = Running
    BY <2>1 DEF Running
  <2>3. sending[b] \subseteq 1..spawned[b]
    BY DEF CallInv, Places
  <2>4. ASSUME NEW c \in Batch
        PROVE  releasing'[c] \subseteq 1..spawned'[c] /\ sending'[c] \cap releasing'[c] = {}
    BY <2>1, <2>3 DEF TokenInv
  <2> QED
    BY <2>1, <2>2, <2>4 DEF TokenInv
<1>4. CASE UNCHANGED <<spawned, sending, releasing, tokens>>
  BY <1>4 DEF TokenInv, Running
<1> QED
  BY <1>1, <1>2, <1>3, <1>4
     DEF Next, Step, Stop, vars, Begin, Consume, Notify, Count, Quit, CloseWorker,
         CloseProducer, SaverEnds

\* tokens counts the extractors that run.
THEOREM TokensCounted == Spec => [](IInv /\ TokenInv)
  BY TokenInit, TokenStep, CallsInvariant, PTL DEF Spec

\* The variables keep their types, and tokens is never negative: it is the
\* cardinality of a set.
THEOREM TypeCorrect == Spec => []TypeOK
<1>1. IInv /\ TokenInv => TypeOK
  BY FS_CardinalityType DEF IInv, TypeOK, TokenInv
<1> QED
  BY <1>1, TokensCounted, PTL

\* However many calls are in progress, the extractors of all of them together
\* are never more than extractingCH has room for.
THEOREM ExtractorsAlwaysBounded == Spec => []ExtractorsBounded
<1>1. IInv /\ TokenInv => ExtractorsBounded
  <2> SUFFICES ASSUME IInv, TokenInv PROVE ExtractorsBounded
    OBVIOUS
  <2>1. \A b \in Batch : sending[b] \cup releasing[b] \subseteq Nat
    BY DEF IInv, Types
  <2>2. UNION {{b} \X (sending[b] \cup releasing[b]) : b \in Batch} = Running
    BY <2>1 DEF Running
  <2> QED
    BY <2>2 DEF ExtractorsBounded, TokenInv
<1> QED
  BY <1>1, TokensCounted, PTL
=============================================================================
