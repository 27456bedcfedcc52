---------------------------- MODULE LiftCacheProofs ----------------------------
(***************************************************************************)
(* Lifts share their results safely where nobody stores to code and no     *)
(* lift sets how it is decoded, for every number of contexts, address      *)
(* space and length of instructions.  The invariant goes by way of the     *)
(* map: contexts agree on the bytes nobody stored to and on modes nobody   *)
(* set, so an entry of such addresses is right for every context.          *)
(***************************************************************************)
EXTENDS LiftCache, TLAPS

\* Contexts were forked from one another and differ only where one stored; a
\* context database differs from a new one only where a lift set it.
MemoriesAgree ==
    \A a \in Addresses \ touched : \A c \in Contexts :
        /\ \A k \in Contexts : code[c][a] = code[k][a]
        /\ context[c][a] = Fresh[a]

\* The instruction s at a is the one every context would lift.
Everywhere(s, a) == \A c \in Contexts : Decodes(Seen(c), a) /\ s = Decoded(Seen(c), a)

EntriesFaithful ==
    \A a \in Addresses : cache[a] # None /\ Untouched(cache[a]) => Everywhere(cache[a], a)

StepsEverywhere ==
    \A c \in Contexts : step[c] # None /\ Untouched(step[c]) => Everywhere(step[c], target[c])

\* What waits to be inserted was lifted.
LiftedPending == \A c \in Contexts : phase[c] = "WriteLock" => step[c] # None

LiftInv == TypeOK /\ MemoriesAgree /\ EntriesFaithful /\ StepsEverywhere /\ LiftedPending

Memories == [Addresses -> Contents]

\* An instruction covers its own address, and is not None.
LEMMA SpanHolds ==
    ASSUME NEW m \in Memories, NEW a \in Addresses
    PROVE  a \in Span(m, a) /\ DOMAIN Decoded(m, a) = Span(m, a) /\ Decoded(m, a) # None
  <1>1. a \in Nat /\ Length[m[a]] \in Nat \ {0} BY LiftAssumption DEF Memories
  <1>2. a \in Span(m, a) BY <1>1 DEF Span
  <1>3. DOMAIN Decoded(m, a) = Span(m, a) BY DEF Decoded
  <1>4. DOMAIN None = {} BY DEF None
  <1> QED BY <1>2, <1>3, <1>4

\* Lifting gives a step.
LEMMA DecodedType ==
    ASSUME NEW m \in Memories, NEW a \in Addresses, Decodes(m, a)
    PROVE  Decoded(m, a) \in Steps
  BY DEF Decodes, Decoded, Steps, Memories

LEMMA NoneType == None \in Steps
  <1>1. None \in [{} -> Contents] BY DEF None
  <1> QED BY <1>1 DEF Steps

\* Memories that agree on an instruction of one agree on the instruction.
LEMMA SameInstruction ==
    ASSUME NEW m \in Memories, NEW n \in Memories, NEW a \in Addresses,
           \A b \in Span(m, a) : n[b] = m[b]
    PROVE  Decoded(n, a) = Decoded(m, a) /\ (Decodes(m, a) => Decodes(n, a))
  <1>1. n[a] = m[a] BY SpanHolds
  <1>2. Span(n, a) = Span(m, a) BY <1>1 DEF Span
  <1> QED BY <1>2 DEF Decoded, Decodes

LEMMA SeenType == ASSUME TypeOK, NEW c \in Contexts PROVE Seen(c) \in Memories
  BY DEF TypeOK, Seen, Memories, Contents

\* A step nobody touched that is right for one context is right for all.
LEMMA RightEverywhere ==
    ASSUME TypeOK, MemoriesAgree, NEW c \in Contexts, NEW a \in Addresses,
           Decodes(Seen(c), a), Untouched(Decoded(Seen(c), a))
    PROVE  Everywhere(Decoded(Seen(c), a), a)
  <1> SUFFICES ASSUME NEW k \in Contexts
               PROVE  Decodes(Seen(k), a) /\ Decoded(Seen(c), a) = Decoded(Seen(k), a)
    BY DEF Everywhere
  <1>1. Seen(c) \in Memories /\ Seen(k) \in Memories BY SeenType
  <1>2. ASSUME NEW b \in Span(Seen(c), a) PROVE Seen(k)[b] = Seen(c)[b]
    <2>1. b \in Addresses \ touched BY <1>1, SpanHolds DEF Untouched, Decodes
    <2> QED BY <2>1 DEF MemoriesAgree, Seen
  <1> QED BY <1>1, <1>2, SameInstruction

\* Nothing changes but at addresses counted as touched.
Steady ==
    /\ touched \subseteq touched'
    /\ \A c \in Contexts : \A b \in Addresses \ touched' :
          code'[c][b] = code[c][b] /\ context'[c][b] = context[c][b]

\* Then contexts still agree where nobody touched anything ...
LEMMA StayAgreed ==
    ASSUME MemoriesAgree, Steady
    PROVE  MemoriesAgree'
  BY DEF MemoriesAgree, Steady

\* ... and what was right everywhere and is still untouched stays so.
LEMMA StaysEverywhere ==
    ASSUME TypeOK, TypeOK', Steady,
           NEW s, NEW a \in Addresses, Everywhere(s, a), DOMAIN s \cap touched' = {}
    PROVE  \A c \in Contexts : Decodes(Seen(c)', a) /\ s = Decoded(Seen(c)', a)
  <1> SUFFICES ASSUME NEW c \in Contexts
               PROVE  Decodes(Seen(c)', a) /\ s = Decoded(Seen(c)', a)
    OBVIOUS
  <1>1. Seen(c) \in Memories BY SeenType
  <1>2. Seen(c)' \in Memories BY DEF TypeOK, Seen, Memories, Contents
  <1>3. Decodes(Seen(c), a) /\ s = Decoded(Seen(c), a) BY DEF Everywhere
  <1>4. ASSUME NEW b \in Span(Seen(c), a) PROVE Seen(c)'[b] = Seen(c)[b]
    <2>1. b \in Addresses \ touched' BY <1>1, <1>3, SpanHolds DEF Decodes
    <2> QED BY <2>1 DEF Steady, Seen
  <1> QED BY <1>1, <1>2, <1>3, <1>4, SameInstruction

-----------------------------------------------------------------------------
(* Type correctness.                                                       *)

LEMMA InitType == Init => TypeOK
  <1> SUFFICES ASSUME Init PROVE TypeOK OBVIOUS
  <1>1. (CHOOSE a \in Addresses : TRUE) \in Addresses BY LiftAssumption
  <1>2. target \in [Contexts -> Addresses] BY <1>1 DEF Init
  <1>3. code \in [Contexts -> [Addresses -> Codes]] /\ context \in [Contexts -> [Addresses -> Modes]]
    BY LiftAssumption DEF Init
  <1>4. cache \in [Addresses -> Steps] /\ step \in [Contexts -> Steps] BY NoneType DEF Init
  <1> QED BY <1>2, <1>3, <1>4 DEF Init, TypeOK, Phases

LEMMA TypeStep == TypeOK /\ [Next]_vars => TypeOK'
  <1> SUFFICES ASSUME TypeOK, [Next]_vars PROVE TypeOK' OBVIOUS
  <1> USE DEF TypeOK, Goes, Phases
  <1>1. ASSUME NEW c \in Contexts, NEW a \in Addresses, Begin(c, a) PROVE TypeOK'
    BY <1>1, NoneType DEF Begin
  <1>2. ASSUME NEW c \in Contexts, ReadLock(c) PROVE TypeOK'
    BY <1>2 DEF ReadLock
  <1>3. ASSUME NEW c \in Contexts, Lookup(c) PROVE TypeOK'
    BY <1>3 DEF Lookup, Released
  <1>4. ASSUME NEW c \in Contexts, Decode(c) PROVE TypeOK'
    <2>1. Seen(c) \in Memories BY SeenType
    <2>2. PICK modes \in [Marked -> Modes] : Commit(c, modes) BY <1>4 DEF Decode
    <2>3. /\ context' \in [Contexts -> [Addresses -> Modes]]
          /\ touched' \in SUBSET Addresses
      BY <2>2, LiftAssumption DEF Commit
    <2>4. CASE Decodes(Seen(c), target[c]) /\ phase' = [phase EXCEPT ![c] = "WriteLock"]
      <3>1. Decoded(Seen(c), target[c]) \in Steps BY <2>1, <2>4, DecodedType
      <3> QED BY <1>4, <2>3, <2>4, <3>1 DEF Decode
    <2>5. CASE ~Decodes(Seen(c), target[c])
      BY <1>4, <2>3, <2>5 DEF Decode, Failed
    <2> QED BY <1>4, <2>4, <2>5 DEF Decode
  <1>5. ASSUME NEW c \in Contexts, Insert(c) PROVE TypeOK'
    BY <1>5 DEF Insert, Cached
  <1>6. ASSUME NEW c \in Contexts, Hooks(c) PROVE TypeOK'
    BY <1>6, NoneType DEF Hooks
  <1>7. ASSUME NEW c \in Contexts, Inspect(c) PROVE TypeOK'
    BY <1>7 DEF Inspect
  <1>11. ASSUME NEW c \in Contexts, EndInspect(c) PROVE TypeOK'
    BY <1>11 DEF EndInspect
  <1>8. ASSUME NEW c \in Contexts, NEW a \in Stores, NEW v \in Codes, Write(c, a, v)
        PROVE  TypeOK'
    BY <1>8, NoneType, LiftAssumption DEF Write
  <1>9. ASSUME NEW c \in Contexts, NEW k \in Contexts, Restore(c, k) \/ Fork(c, k) PROVE TypeOK'
    <2>1. Take(c, k) BY <1>9 DEF Restore, Fork
    <2>2. context' \in [Contexts -> [Addresses -> Modes]]
      BY <1>9, LiftAssumption DEF Restore, Fork
    <2>3. /\ code' \in [Contexts -> [Addresses -> Codes]]
          /\ pc' \in [Contexts -> Addresses]
          /\ step' \in [Contexts -> Steps]
      BY <2>1, NoneType DEF Take
    <2> QED BY <2>1, <2>2, <2>3 DEF Take
  <1>10. CASE UNCHANGED vars
    BY <1>10 DEF vars
  <1> QED
    BY <1>1, <1>2, <1>3, <1>4, <1>5, <1>6, <1>7, <1>8, <1>9, <1>10, <1>11
       DEF Next, Lift

-----------------------------------------------------------------------------
(* The invariant.                                                          *)

LEMMA InitLift == Init => LiftInv
  <1> SUFFICES ASSUME Init PROVE LiftInv OBVIOUS
  <1>1. TypeOK BY InitType
  <1>2. MemoriesAgree BY DEF Init, MemoriesAgree
  <1> QED BY <1>1, <1>2 DEF Init, LiftInv, EntriesFaithful, StepsEverywhere, LiftedPending

\* A step that changes no memory keeps what is right right.
LEMMA QuietStep ==
    ASSUME TypeOK, UNCHANGED <<code, context, touched>>
    PROVE  /\ MemoriesAgree => MemoriesAgree'
           /\ \A s : Untouched(s)' = Untouched(s)
           /\ \A s, a : Everywhere(s, a)' = Everywhere(s, a)
  BY DEF MemoriesAgree, Untouched, Everywhere, Seen

\* A step of one context that changes neither memories nor the map, and leaves
\* the context the step it had, or none.
LEMMA LocalStep ==
    ASSUME LiftInv, UNCHANGED <<code, context, cache, target, touched>>,
           NEW c \in Contexts,
           \A k \in Contexts : step'[k] = step[k] \/ step'[k] = None,
           \A k \in Contexts : phase'[k] = "WriteLock" =>
               phase[k] = "WriteLock" /\ step'[k] = step[k]
    PROVE  MemoriesAgree' /\ EntriesFaithful' /\ StepsEverywhere' /\ LiftedPending'
  <1> USE DEF LiftInv
  <1>1. MemoriesAgree' BY QuietStep
  <1>2. EntriesFaithful' BY QuietStep DEF EntriesFaithful
  <1>3. StepsEverywhere' BY QuietStep DEF StepsEverywhere
  <1>4. LiftedPending' BY DEF LiftedPending
  <1> QED BY <1>1, <1>2, <1>3, <1>4

\* Memories or context databases change, and a context is left with the step it
\* had, none, or one that was right everywhere before.
LEMMA MemoryStep ==
    ASSUME LiftInv, TypeOK', Steady, UNCHANGED <<cache, target>>,
           \A k \in Contexts :
               \/ step'[k] = step[k]
               \/ step'[k] = None
               \/ Untouched(step'[k]) => Everywhere(step'[k], target[k])
    PROVE  MemoriesAgree' /\ EntriesFaithful' /\ StepsEverywhere'
  <1> USE DEF LiftInv
  <1>1. MemoriesAgree' BY StayAgreed
  <1>2. ASSUME NEW s PROVE DOMAIN s \cap touched' = {} => Untouched(s)
    BY DEF Steady, Untouched
  <1>3. EntriesFaithful'
    <2> SUFFICES ASSUME NEW a \in Addresses, cache[a] # None, DOMAIN cache[a] \cap touched' = {}
                 PROVE  \A c \in Contexts : Decodes(Seen(c)', a) /\ cache[a] = Decoded(Seen(c)', a)
      BY DEF EntriesFaithful, Untouched, Everywhere
    <2>1. Everywhere(cache[a], a) BY <1>2 DEF EntriesFaithful
    <2> QED BY <2>1, StaysEverywhere
  <1>4. StepsEverywhere'
    <2> SUFFICES ASSUME NEW k \in Contexts, step'[k] # None, DOMAIN step'[k] \cap touched' = {}
                 PROVE  \A c \in Contexts : Decodes(Seen(c)', target[k])
                                             /\ step'[k] = Decoded(Seen(c)', target[k])
      BY DEF StepsEverywhere, Untouched, Everywhere
    <2>1. target[k] \in Addresses BY DEF TypeOK
    <2>2. Untouched(step'[k]) BY <1>2
    <2>3. Everywhere(step'[k], target[k]) BY <2>2 DEF StepsEverywhere
    <2> QED BY <2>1, <2>3, StaysEverywhere
  <1> QED BY <1>1, <1>3, <1>4

LEMMA DecodeInv == ASSUME LiftInv, NEW c \in Contexts, Decode(c) PROVE LiftInv'
  <1> USE DEF LiftInv
  <1>1. TypeOK' BY TypeStep DEF Next, Lift
  <1>2. UNCHANGED <<code, cache, target>> BY DEF Decode
  <1>3. Steady
    <2>1. PICK modes \in [Marked -> Modes] : Commit(c, modes) BY DEF Decode
    <2> QED BY <1>2, <2>1 DEF Commit, Steady, TypeOK
  <1>4. CASE /\ Decodes(Seen(c), target[c])
             /\ Goes(c, "Decode", "WriteLock")
             /\ step' = [step EXCEPT ![c] = Decoded(Seen(c), target[c])]
    <2>1. Seen(c) \in Memories /\ target[c] \in Addresses BY SeenType DEF TypeOK
    <2>2. step'[c] = Decoded(Seen(c), target[c]) /\ \A k \in Contexts \ {c} : step'[k] = step[k]
      BY <1>4 DEF TypeOK
    <2>3. Untouched(step'[c]) => Everywhere(step'[c], target[c])
      BY <1>4, <2>1, <2>2, RightEverywhere
    <2>4. MemoriesAgree' /\ EntriesFaithful' /\ StepsEverywhere'
      BY <1>1, <1>2, <1>3, <2>2, <2>3, MemoryStep
    <2>5. LiftedPending'
      <3>1. step'[c] # None BY <2>1, <2>2, SpanHolds
      <3>2. \A k \in Contexts \ {c} : phase'[k] = phase[k] BY <1>4 DEF Goes, TypeOK
      <3> QED BY <2>2, <3>1, <3>2 DEF LiftedPending
    <2> QED BY <1>1, <2>4, <2>5
  <1>5. CASE Goes(c, "Decode", Failed) /\ UNCHANGED step
    <2>1. \A k \in Contexts : phase'[k] = "WriteLock" => phase[k] = "WriteLock"
      BY <1>5 DEF Goes, Failed, TypeOK
    <2>2. MemoriesAgree' /\ EntriesFaithful' /\ StepsEverywhere'
      BY <1>1, <1>2, <1>3, <1>5, MemoryStep
    <2>3. LiftedPending' BY <1>5, <2>1 DEF LiftedPending
    <2> QED BY <1>1, <2>2, <2>3
  <1> QED BY <1>4, <1>5 DEF Decode

LEMMA InsertInv == ASSUME LiftInv, NEW c \in Contexts, Insert(c) PROVE LiftInv'
  <1> USE DEF LiftInv
  <1>1. TypeOK' BY TypeStep DEF Next, Lift
  <1>2. UNCHANGED <<code, context, target, touched, step>> BY DEF Insert
  <1>3. MemoriesAgree' /\ StepsEverywhere' BY <1>2, QuietStep DEF StepsEverywhere
  <1>4. LiftedPending'
    <2>1. \A k \in Contexts : phase'[k] = "WriteLock" => phase[k] = "WriteLock"
      BY DEF Insert, Goes, TypeOK
    <2> QED BY <1>2, <2>1 DEF LiftedPending
  <1>5. EntriesFaithful'
    <2> SUFFICES ASSUME NEW a \in Addresses, cache'[a] # None, Untouched(cache'[a])
                 PROVE  Everywhere(cache'[a], a)
      BY <1>2, QuietStep DEF EntriesFaithful
    <2>1. CASE a = target[c]
      <3>1. cache'[a] = step[c] BY <2>1 DEF Insert, Cached, TypeOK
      <3> QED BY <2>1, <3>1 DEF StepsEverywhere
    <2>2. CASE a # target[c]
      <3>1. cache'[a] = cache[a] BY <2>2 DEF Insert, Cached, TypeOK
      <3> QED BY <3>1 DEF EntriesFaithful
    <2> QED BY <2>1, <2>2
  <1> QED BY <1>1, <1>3, <1>4, <1>5

LEMMA LookupInv == ASSUME LiftInv, NEW c \in Contexts, Lookup(c) PROVE LiftInv'
  <1> USE DEF LiftInv
  <1>1. TypeOK' BY TypeStep DEF Next, Lift
  <1>2. UNCHANGED <<code, context, cache, target, touched>> BY DEF Lookup
  <1>3. step'[c] = cache[target[c]] /\ \A k \in Contexts \ {c} : step'[k] = step[k]
    BY DEF Lookup, TypeOK
  <1>4. MemoriesAgree' /\ EntriesFaithful' BY <1>2, QuietStep DEF EntriesFaithful
  <1>5. StepsEverywhere'
    <2> SUFFICES ASSUME NEW k \in Contexts, step'[k] # None, Untouched(step'[k])
                 PROVE  Everywhere(step'[k], target[k])
      BY <1>2, QuietStep DEF StepsEverywhere
    <2>1. target[k] \in Addresses BY DEF TypeOK
    <2>2. CASE k = c BY <1>3, <2>1, <2>2 DEF EntriesFaithful
    <2>3. CASE k # c BY <1>3, <2>3 DEF StepsEverywhere
    <2> QED BY <2>2, <2>3
  <1>6. LiftedPending'
    <2>1. \A k \in Contexts : phase'[k] = "WriteLock" => phase[k] = "WriteLock" /\ k # c
      BY DEF Lookup, Goes, TypeOK
    <2> QED BY <1>3, <2>1 DEF LiftedPending
  <1> QED BY <1>1, <1>4, <1>5, <1>6

LEMMA LiftStep == LiftInv /\ [Next]_vars => LiftInv'
  <1> SUFFICES ASSUME LiftInv, [Next]_vars PROVE LiftInv' OBVIOUS
  <1>1. TypeOK' BY TypeStep DEF LiftInv
  <1>2. ASSUME NEW c \in Contexts, NEW a \in Addresses, Begin(c, a) PROVE LiftInv'
    <2> USE DEF LiftInv
    <2>1. UNCHANGED <<code, context, cache, touched>> BY <1>2 DEF Begin
    <2>2. step'[c] = None /\ \A k \in Contexts \ {c} : step'[k] = step[k] /\ target'[k] = target[k]
      BY <1>2 DEF Begin, TypeOK
    <2>3. MemoriesAgree' /\ EntriesFaithful' BY <2>1, QuietStep DEF EntriesFaithful
    <2>4. StepsEverywhere'
      <3> SUFFICES ASSUME NEW k \in Contexts, step'[k] # None, Untouched(step'[k])
                   PROVE  Everywhere(step'[k], target'[k])
        BY <2>1, QuietStep DEF StepsEverywhere
      <3> QED BY <2>2 DEF StepsEverywhere
    <2>5. LiftedPending'
      <3>1. \A k \in Contexts : phase'[k] = "WriteLock" => phase[k] = "WriteLock" /\ k # c
        BY <1>2 DEF Begin, Goes, TypeOK
      <3> QED BY <2>2, <3>1 DEF LiftedPending
    <2> QED BY <1>1, <2>3, <2>4, <2>5
  <1>3. ASSUME NEW c \in Contexts, ReadLock(c) \/ Inspect(c) \/ EndInspect(c) PROVE LiftInv'
    <2>1. UNCHANGED <<code, context, cache, target, step, touched>>
      BY <1>3 DEF ReadLock, Inspect, EndInspect
    <2>2. PICK p \in {"Lookup", "Inspecting", "Idle"} : phase' = [phase EXCEPT ![c] = p]
      BY <1>3 DEF ReadLock, Inspect, EndInspect, Goes
    <2>3. \A k \in Contexts : phase'[k] = IF k = c THEN p ELSE phase[k]
      BY <2>2 DEF TypeOK, LiftInv
    <2>4. \A k \in Contexts : phase'[k] = "WriteLock" => phase[k] = "WriteLock"
      BY <2>3
    <2> QED BY <1>1, <2>1, <2>4, LocalStep DEF LiftInv
  <1>4. ASSUME NEW c \in Contexts, Hooks(c) PROVE LiftInv'
    <2>1. UNCHANGED <<code, context, cache, target, touched>> BY <1>4 DEF Hooks
    <2>2. \A k \in Contexts : step'[k] = step[k] \/ (k = c /\ step'[k] = None)
      BY <1>4 DEF Hooks, TypeOK, LiftInv
    <2>3. \A k \in Contexts : phase'[k] = "WriteLock" => phase[k] = "WriteLock" /\ k # c
      BY <1>4 DEF Hooks, Goes, TypeOK, LiftInv
    <2> QED BY <1>1, <2>1, <2>2, <2>3, LocalStep DEF LiftInv
  <1>5. ASSUME NEW c \in Contexts, NEW a \in Stores, NEW v \in Codes, Write(c, a, v)
        PROVE  LiftInv'
    <2> USE DEF LiftInv
    <2>1. UNCHANGED <<context, cache, target, phase>> /\ phase[c] = "Idle" BY <1>5 DEF Write
    <2>2. Steady BY <1>5 DEF Write, TypeOK, Steady
    <2>3. \A k \in Contexts : step'[k] = step[k] \/ (k = c /\ step'[k] = None)
      BY <1>5 DEF Write, TypeOK
    <2>4. MemoriesAgree' /\ EntriesFaithful' /\ StepsEverywhere'
      BY <1>1, <2>1, <2>2, <2>3, MemoryStep
    <2>5. LiftedPending' BY <2>1, <2>3 DEF LiftedPending
    <2> QED BY <1>1, <2>4, <2>5
  <1>6. ASSUME NEW c \in Contexts, NEW k \in Contexts, Restore(c, k) \/ Fork(c, k)
        PROVE  LiftInv'
    <2> USE DEF LiftInv
    <2>1. Take(c, k) BY <1>6 DEF Restore, Fork
    <2>2. UNCHANGED <<cache, target, phase, touched>> /\ phase[c] = "Idle" BY <2>1 DEF Take
    <2>3. \A i \in Contexts : code'[i] = IF i = c THEN code[k] ELSE code[i]
      BY <2>1 DEF Take, TypeOK
    <2>4. \A i \in Contexts : context'[i] = context[i] \/ context'[i] = Fresh
      BY <1>6 DEF Restore, Fork, TypeOK
    <2>5. Steady BY <2>2, <2>3, <2>4 DEF Steady, MemoriesAgree
    <2>6. \A i \in Contexts : step'[i] = step[i] \/ (i = c /\ step'[i] = None)
      BY <2>1 DEF Take, TypeOK
    <2>7. MemoriesAgree' /\ EntriesFaithful' /\ StepsEverywhere'
      BY <1>1, <2>2, <2>5, <2>6, MemoryStep
    <2>8. LiftedPending' BY <2>2, <2>6 DEF LiftedPending
    <2> QED BY <1>1, <2>7, <2>8
  <1>7. CASE UNCHANGED vars
    <2>1. /\ UNCHANGED <<code, context, cache, phase, target>> /\ UNCHANGED <<step, pc, readers>>
          /\ UNCHANGED <<waiting, touched>>
      BY <1>7 DEF vars
    <2>2. MemoriesAgree' /\ EntriesFaithful' /\ StepsEverywhere' /\ LiftedPending'
      <3>1. \A s : Untouched(s)' = Untouched(s) BY <2>1 DEF Untouched
      <3>2. \A s, a : Everywhere(s, a)' = Everywhere(s, a) BY <2>1 DEF Everywhere, Seen
      <3>3. EntriesFaithful' BY <2>1, <3>1, <3>2 DEF LiftInv, EntriesFaithful
      <3>4. StepsEverywhere' BY <2>1, <3>1, <3>2 DEF LiftInv, StepsEverywhere
      <3>5. MemoriesAgree' /\ LiftedPending' BY <2>1 DEF LiftInv, MemoriesAgree, LiftedPending
      <3> QED BY <3>3, <3>4, <3>5
    <2> QED BY <1>1, <2>2 DEF LiftInv
  <1> QED
    BY <1>2, <1>3, <1>4, <1>5, <1>6, <1>7, DecodeInv, InsertInv, LookupInv DEF Next, Lift

-----------------------------------------------------------------------------
(* What the invariant gives.                                               *)

\* Every run of the contexts is type correct, and the lock is held where the
\* phases say (interpreter.rs:1518-1568).
THEOREM LiftTypeOK == Spec => []TypeOK
  <1>1. Init => TypeOK BY InitType
  <1>2. TypeOK /\ [Next]_vars => TypeOK' BY TypeStep
  <1> QED BY <1>1, <1>2, PTL DEF Spec

LEMMA LiftInvariant == Spec => []LiftInv
  <1>1. Init => LiftInv BY InitLift
  <1>2. LiftInv /\ [Next]_vars => LiftInv' BY LiftStep
  <1> QED BY <1>1, <1>2, PTL DEF Spec

\* However many contexts share the map and however their lifts, stores, forks and
\* restores interleave, a step of bytes nobody stored to, decoded in modes no lift
\* set, is the one the context would lift itself (interpreter.rs:1518-1553).
THEOREM LiftStepsFaithful == Spec => []StepsFaithful
  <1>1. LiftInv => StepsFaithful
    BY DEF LiftInv, StepsEverywhere, StepsFaithful, Everywhere
  <1> QED BY <1>1, LiftInvariant, PTL

LEMMA RaceStep ==
    ASSUME LiftInv, [Next]_vars, NEW a \in Addresses,
           cache[a] # None, Untouched(cache[a]), Untouched(cache'[a])
    PROVE  cache'[a] = cache[a]
  <1>1. ASSUME NEW c \in Contexts, Insert(c) PROVE cache'[a] = cache[a]
    <2> USE DEF LiftInv
    <2>1. CASE a # target[c] BY <1>1, <2>1 DEF Insert, Cached, TypeOK
    <2>2. CASE a = target[c]
      <3>1. cache'[a] = step[c] BY <1>1, <2>2 DEF Insert, Cached, TypeOK
      <3>2. step[c] # None BY <1>1 DEF Insert, Goes, LiftedPending
      <3>3. Everywhere(step[c], a) BY <2>2, <3>1, <3>2 DEF StepsEverywhere
      <3>4. Everywhere(cache[a], a) BY DEF EntriesFaithful
      <3> QED BY <3>1, <3>3, <3>4 DEF Everywhere
    <2> QED BY <2>1, <2>2
  <1>2. CASE UNCHANGED cache BY <1>2
  <1>3. UNCHANGED cache \/ \E c \in Contexts : Insert(c)
    BY DEF Next, Lift, vars, Begin, ReadLock, Lookup, Decode, Hooks, Write, Restore, Fork, Take,
           Inspect, EndInspect
  <1> QED BY <1>1, <1>2, <1>3

\* The race the code allows is harmless for code nobody stores to, in modes no
\* lift sets: whoever inserts second inserts the same instruction
\* (interpreter.rs:1536-1553).
THEOREM LiftRaceHarmless == Spec => RaceHarmless
  <1>1. LiftInv /\ [Next]_vars =>
            [ \A a \in Addresses :
                cache[a] # None /\ Untouched(cache[a]) /\ Untouched(cache'[a]) =>
                    cache'[a] = cache[a] ]_vars
    BY RaceStep
  <1> QED BY <1>1, LiftInvariant, PTL DEF Spec, RaceHarmless
-----------------------------------------------------------------------------
(* What is left of a lift, and who may go on with it.                      *)

\* The next step of c takes no lock, or one it can have now.
CanGo(c) ==
    \/ phase[c] \in {"Lookup", "Decode", "Hooks", "Inspecting"}
    \/ phase[c] = "ReadLock" /\ waiting = {}
    \/ phase[c] = "WriteLock" /\ readers = {}

\* Those who hold a guard need no lock to drop it, a writer waits for them only,
\* and a reader for writers only: the waiting has an end.
NobodyStuck ==
    /\ \A r \in readers : CanGo(r)
    /\ \A c \in Contexts : Lifting(c) =>
          \/ CanGo(c)
          \/ phase[c] = "WriteLock" /\ \E r \in readers : CanGo(r)
          \/ phase[c] = "ReadLock" /\ \E w \in waiting : CanGo(w) \/ \E r \in readers : CanGo(r)

LEMMA SomeoneGoes == TypeOK => NobodyStuck
  <1> SUFFICES ASSUME TypeOK PROVE NobodyStuck OBVIOUS
  <1>1. /\ readers = {c \in Contexts : phase[c] \in {"Lookup", "Inspecting"}}
        /\ waiting = {c \in Contexts : phase[c] = "WriteLock"}
    BY DEF TypeOK
  <1>2. ASSUME NEW r \in readers PROVE CanGo(r)
    BY <1>1 DEF CanGo
  <1>3. ASSUME NEW c \in Contexts, Lifting(c), ~CanGo(c)
        PROVE  \/ phase[c] = "WriteLock" /\ \E r \in readers : CanGo(r)
               \/ phase[c] = "ReadLock" /\ \E w \in waiting : CanGo(w) \/ \E r \in readers : CanGo(r)
    <2>1. CASE phase[c] = "WriteLock"
      <3>1. readers # {} BY <1>3, <2>1 DEF CanGo
      <3> QED BY <1>2, <2>1, <3>1
    <2>2. CASE phase[c] = "ReadLock"
      <3>1. PICK w \in waiting : TRUE BY <1>3, <2>2 DEF CanGo
      <3>2. CASE readers = {} BY <1>1, <2>2, <3>1, <3>2 DEF CanGo
      <3>3. CASE readers # {} BY <1>2, <2>2, <3>1, <3>3
      <3> QED BY <3>2, <3>3
    <2> QED BY <1>3, <2>1, <2>2 DEF Lifting, CanGo
  <1> QED BY <1>2, <1>3 DEF NobodyStuck

\* Steps left of the lift of c.
Left(c) ==
    CASE phase[c] = "ReadLock" -> 5
      [] phase[c] = "Lookup" -> 4
      [] phase[c] = "Decode" -> 3
      [] phase[c] = "WriteLock" -> 2
      [] phase[c] = "Hooks" -> 1
      [] OTHER -> 0

\* The steps of a context leave the phases of the others alone.
LEMMA OthersStay ==
    ASSUME TypeOK, [Next]_vars, NEW c \in Contexts, Lifting(c), phase'[c] # phase[c]
    PROVE  Lift(c)
  <1>1. \A k \in Contexts : Lift(k) \/ EndInspect(k) \/ Inspect(k)
            \/ (\E a \in Addresses : Begin(k, a)) => k = c \/ phase'[c] = phase[c]
    BY DEF Lift, ReadLock, Lookup, Decode, Insert, Hooks, EndInspect, Inspect, Begin, Goes, TypeOK
  <1>2. \A k \in Contexts : EndInspect(k) \/ Inspect(k) \/ (\E a \in Addresses : Begin(k, a))
            => k # c
    BY DEF EndInspect, Inspect, Begin, Goes, Lifting
  <1>3. ~UNCHANGED phase OBVIOUS
  <1> QED BY <1>1, <1>2, <1>3 DEF Next, Write, Restore, Fork, Take, vars

LEMMA LiftShrinks ==
    ASSUME TypeOK, NEW c \in Contexts, Lift(c)
    PROVE  Left(c)' < Left(c)
  <1>1. phase \in [Contexts -> Phases] BY DEF TypeOK
  <1>2. CASE ReadLock(c) BY <1>1, <1>2 DEF ReadLock, Goes, Left
  <1>3. CASE Lookup(c) BY <1>1, <1>3 DEF Lookup, Goes, Left
  <1>4. CASE Decode(c) BY <1>1, <1>4 DEF Decode, Goes, Left, Failed
  <1>5. CASE Insert(c) BY <1>1, <1>5 DEF Insert, Goes, Left
  <1>6. CASE Hooks(c) BY <1>1, <1>6 DEF Hooks, Goes, Left
  <1> QED BY <1>2, <1>3, <1>4, <1>5, <1>6 DEF Lift

\* At no time do all who lift wait for one another: whoever holds the lock can
\* go on, a writer waits for readers and a reader for writers only
\* (interpreter.rs:218-220, 1518-1551).
THEOREM LiftNobodyStuck == Spec => []NobodyStuck
  BY SomeoneGoes, LiftTypeOK, PTL

\* A lift never does a step over, whatever the other contexts do to the map
\* between its look-up and its insertion: it has at most five to take
\* (interpreter.rs:1518-1568).
THEOREM LiftsAdvance ==
    Spec => [][\A c \in Contexts : Lifting(c) => phase'[c] = phase[c] \/ Left(c)' < Left(c)]_vars
  <1>1. TypeOK /\ [Next]_vars =>
            [\A c \in Contexts : Lifting(c) => phase'[c] = phase[c] \/ Left(c)' < Left(c)]_vars
    BY OthersStay, LiftShrinks
  <1> QED BY <1>1, LiftTypeOK, PTL DEF Spec
=============================================================================
