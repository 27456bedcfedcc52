---------------------------- MODULE WalkersProofs ----------------------------
(***************************************************************************)
(* Theorems about Walkers, for every program, set of walks, set of hooks   *)
(* and number of restores: branches are tracked, walks are followed and    *)
(* flips are not undone.                                                   *)
(*                                                                         *)
(* The invariant is of a context, and holds of the one that runs and of    *)
(* the one saved.  It says what is true in the middle of an instruction,   *)
(* from which the properties follow at its end.                            *)
(***************************************************************************)
EXTENDS Walkers, SequenceTheorems, TLAPS

\* The entries that walks consist of (WalksAssumption).
Entries ==
    {e \in Edge : e.from \in DOMAIN Code =>
        /\ Len(Code[e.from].branches) = 1 /\ ~Code[e.from].branches[1].local
        /\ e.to \in {Code[e.from].next, Code[e.from].branches[1].to}}

Contexts ==
    [loc : Nat, at : Nat, pc : Nat,
     walker : [next : Nat, walk : Seq(Entries)],
     tracker : [next : Nat, tracked : Seq([from : Nat, taken : Nat, next : Nat])],
     status : {"Running", "Error"},
     asked : [from : Nat \cup {Unmapped}, to : Nat \cup {Unmapped}, flip : BOOLEAN],
     followed : Seq(Edge),
     met : Seq([from : Nat, to : Nat, next : Nat])]

\* Within an instruction, both hooks have noted where it falls through to.
InstructionNoted(c) ==
    c.at # 0 =>
        /\ c.pc \in DOMAIN Code /\ c.pc = c.loc
        /\ c.at \in 1..(Len(Code[c.pc].branches) + 1)
        /\ c.walker.next = Code[c.pc].next
        /\ c.tracker.next = Code[c.pc].next

\* Hooks fail within an instruction only, so that no failed context is saved.
FailedWithin(c) == c.status = "Error" => c.at # 0

MetTracked(c) ==
    c.status = "Running" =>
        /\ Len(c.tracker.tracked) = Len(c.met)
        /\ \A i \in DOMAIN c.met :
              /\ c.tracker.tracked[i].from = c.met[i].from
              /\ c.tracker.tracked[i].next = c.met[i].next

\* Once an entry is used up and the branch not taken, nothing is left of the
\* instruction but to fall through, as the entry asks if it is heeded.
Heeded(c, hooks) == c.asked.flip \/ "RandomWalker" \notin hooks

EntryPending(c, hooks) ==
    c.status = "Running" /\ c.at # 0 =>
        \/ c.asked = NoEntry
        \/ /\ c.asked.from = c.pc
           /\ c.at = Len(Code[c.pc].branches) + 1
           /\ Heeded(c, hooks) => c.asked.to = Code[c.pc].next

\* The part of the walk used up, with the entry that is pending.
UsedUp(c) ==
    IF c.at = 0 \/ c.asked = NoEntry
    THEN c.followed
    ELSE Append(c.followed, [from |-> c.pc, to |-> Code[c.pc].next])

WalkKept(c, hooks, walk) ==
    c.status = "Running" /\ "RandomWalker" \notin hooks => UsedUp(c) \o c.walker.walk = walk

FlipKept(c) ==
    c.at = 0 /\ c.asked.flip =>
        /\ c.followed # <<>>
        /\ c.followed[Len(c.followed)] = [from |-> c.asked.from, to |-> c.asked.to]

Good(c, hooks, walk) ==
    /\ c \in Contexts
    /\ InstructionNoted(c)
    /\ FailedWithin(c)
    /\ MetTracked(c)
    /\ EntryPending(c, hooks)
    /\ WalkKept(c, hooks, walk)
    /\ FlipKept(c)

WalkersInv ==
    /\ wanted \in Walks /\ hooked \in HookSets
    /\ Good(Context, hooked, wanted)
    /\ Good(saved, hooked, wanted)
    /\ saved.at = 0

-----------------------------------------------------------------------------
(* Facts about programs and walks.                                         *)

\* What a program is made of (WalkersAssumption).
LEMMA InstructionTyped ==
    ASSUME NEW a \in DOMAIN Code
    PROVE  /\ a \in Nat /\ Code[a].next \in Nat
           /\ Len(Code[a].branches) \in Nat
           /\ DOMAIN Code[a].branches = 1..Len(Code[a].branches)
           /\ \A i \in 1..Len(Code[a].branches) :
                 /\ Code[a].branches[i].local \in BOOLEAN
                 /\ Code[a].branches[i].to \in Nat
                 /\ Code[a].branches[i].local =>
                       Code[a].branches[i].to \in (i + 1)..(Len(Code[a].branches) + 1)
                 /\ ~Code[a].branches[i].local =>
                       Held[Code[a].branches[i].to] \in Nat \cup {Unmapped}
<1> DEFINE bs == Code[a].branches
<1>1. a \in Nat /\ Code[a] \in [next : Nat, branches : Seq([local : BOOLEAN, to : Nat])]
  BY WalkersAssumption
<1>2. bs \in Seq([local : BOOLEAN, to : Nat])
  BY <1>1
<1>3. Len(bs) \in Nat /\ DOMAIN bs = 1..Len(bs) /\ \A i \in 1..Len(bs) : bs[i] \in [local : BOOLEAN, to : Nat]
  BY <1>2, LenProperties, ElementOfSeq
<1>4. \A i \in DOMAIN bs :
         IF bs[i].local THEN bs[i].to \in (i + 1)..(Len(bs) + 1)
                        ELSE Held[bs[i].to] \in Nat \cup {Unmapped}
  BY WalkersAssumption
<1> QED
  BY <1>1, <1>3, <1>4

\* Walks are sequences of entries that can be followed (WalksAssumption).
LEMMA WalksOfEntries ==
    ASSUME NEW w \in Walks
    PROVE  w \in Seq(Entries)
<1>1. w \in Seq(Edge) /\ DOMAIN w = 1..Len(w)
  BY WalksAssumption, LenProperties
<1>2. \A i \in 1..Len(w) : w[i] \in Edge
  BY <1>1, ElementOfSeq
<1>3. \A i \in 1..Len(w) : w[i] \in Entries
  BY <1>1, <1>2, WalksAssumption DEF Entries
<1> QED
  BY <1>1, <1>3, IsASeq

\* Moving the first entry from what is left to what is used up.
LEMMA HeadMoved ==
    ASSUME NEW used \in Seq(Edge), NEW left \in Seq(Entries), left # <<>>
    PROVE  /\ Head(left) \in Entries /\ Tail(left) \in Seq(Entries)
           /\ Append(used, Head(left)) \o Tail(left) = used \o left
<1>1. left \in Seq(Edge) /\ Entries \subseteq Edge
  BY SeqMonotonic DEF Entries
<1>2. Head(left) \in Entries /\ Tail(left) \in Seq(Entries)
  BY HeadTailProperties
<1>3. Tail(left) \in Seq(Edge) /\ Head(left) \in Edge /\ <<Head(left)>> \in Seq(Edge)
  BY <1>1, <1>2, HeadTailProperties
<1>4. <<Head(left)>> \o Tail(left) = left
  <2>1. Len(left) \in Nat /\ Len(left) > 0
    BY <1>1, EmptySeq, LenProperties
  <2>2. Len(<<Head(left)>>) = 1 /\ <<Head(left)>>[1] = left[1]
    BY <2>1
  <2>3. /\ Len(Tail(left)) = Len(left) - 1
        /\ \A i \in 1..Len(Tail(left)) : Tail(left)[i] = left[i + 1]
    BY <1>1, HeadTailProperties
  <2>4. /\ <<Head(left)>> \o Tail(left) \in Seq(Edge)
        /\ Len(<<Head(left)>> \o Tail(left)) = Len(left)
        /\ \A i \in 1..Len(left) : (<<Head(left)>> \o Tail(left))[i] = IF i <= 1 THEN <<Head(left)>>[i] ELSE Tail(left)[i - 1]
    BY <1>3, <2>1, <2>2, <2>3, ConcatProperties
  <2>5. \A i \in 1..Len(left) : (<<Head(left)>> \o Tail(left))[i] = left[i]
    BY <2>1, <2>2, <2>3, <2>4
  <2> QED
    BY <1>1, <2>4, <2>5, SeqEqual
<1>5. Append(used, Head(left)) = used \o <<Head(left)>>
  BY <1>3, AppendIsConcat
<1> QED
  BY <1>2, <1>3, <1>4, <1>5, ConcatAssociative
-----------------------------------------------------------------------------
(* The steps.                                                              *)

\* The beginning.
LEMMA InitGood == Init => WalkersInv
<1> SUFFICES ASSUME Init PROVE WalkersInv
  OBVIOUS
<1>1. /\ Entry \in Nat /\ wanted \in Seq(Entries)
      /\ wanted \in Walks /\ hooked \in HookSets
  BY WalksOfEntries, WalkersAssumption DEF Init
<1>2. Context \in Contexts
  BY <1>1 DEF Init, Context, Contexts, NoEntry, Unmapped
<1>3. <<>> \o wanted = wanted
  BY <1>1, ConcatEmptySeq
<1>4. WalkKept(Context, hooked, wanted)
  BY <1>3 DEF Init, Context, WalkKept, UsedUp
<1>5. Good(Context, hooked, wanted)
  BY <1>2, <1>4 DEF Init, Context, Good, InstructionNoted, FailedWithin, MetTracked, EntryPending, FlipKept, NoEntry
<1> QED
  BY <1>1, <1>5 DEF WalkersInv, Init, Context

\* What the steps of a running context start from.
LEMMA RunningTyped ==
    ASSUME Good(Context, hooked, wanted)
    PROVE  /\ loc \in Nat /\ at \in Nat /\ pc \in Nat
           /\ walker \in [next : Nat, walk : Seq(Entries)]
           /\ tracker \in [next : Nat, tracked : Seq([from : Nat, taken : Nat, next : Nat])]
           /\ status \in {"Running", "Error"}
           /\ asked \in [from : Nat \cup {Unmapped}, to : Nat \cup {Unmapped}, flip : BOOLEAN]
           /\ followed \in Seq(Edge)
           /\ met \in Seq([from : Nat, to : Nat, next : Nat])
BY DEF Good, Contexts, Context

\* An instruction is lifted: both hooks note where it falls through to.
LEMMA LiftGood ==
    ASSUME Good(Context, hooked, wanted), Lift, UNCHANGED <<hooked, wanted>>
    PROVE  Good(Context, hooked, wanted)'
<1>1. /\ loc \in DOMAIN Code /\ loc \in Nat /\ Code[loc].next \in Nat
      /\ Len(Code[loc].branches) \in Nat
  BY InstructionTyped DEF Lift
<1>2. /\ walker' \in [next : Nat, walk : Seq(Entries)]
      /\ walker'.next = Code[loc].next /\ walker'.walk = walker.walk
      /\ tracker' \in [next : Nat, tracked : Seq([from : Nat, taken : Nat, next : Nat])]
      /\ tracker'.next = Code[loc].next /\ tracker'.tracked = tracker.tracked
  BY <1>1, RunningTyped DEF Lift, Noted
<1>3. /\ at' = 1 /\ pc' = loc /\ loc' = loc /\ asked' = NoEntry
      /\ status' = status /\ followed' = followed /\ met' = met /\ at = 0
  BY DEF Lift
<1>4. Context' \in Contexts
  BY <1>1, <1>2, <1>3, RunningTyped DEF Context, Contexts, NoEntry
<1>5. InstructionNoted(Context)'
  BY <1>1, <1>2, <1>3 DEF Context, InstructionNoted
<1>6. FailedWithin(Context)' /\ EntryPending(Context, hooked)' /\ FlipKept(Context)'
  BY <1>3 DEF Context, FailedWithin, EntryPending, FlipKept
<1>7. MetTracked(Context)'
  <2>1. MetTracked(Context)
    BY DEF Good
  <2>2. /\ Context'.status = Context.status /\ Context'.met = Context.met
        /\ Context'.tracker.tracked = Context.tracker.tracked
    BY <1>2, <1>3 DEF Context
  <2> QED
    BY <2>1, <2>2 DEF MetTracked
<1>8. WalkKept(Context, hooked, wanted)'
  BY <1>2, <1>3 DEF Context, Good, WalkKept, UsedUp
<1> QED
  BY <1>4, <1>5, <1>6, <1>7, <1>8 DEF Good

\* An instruction ends: an entry that was pending has been followed.
LEMMA FallthroughGood ==
    ASSUME Good(Context, hooked, wanted), status = "Running", Fallthrough, UNCHANGED <<hooked, wanted>>
    PROVE  Good(Context, hooked, wanted)'
<1> DEFINE last == [from |-> pc, to |-> Code[pc].next]
<1>1. at = Len(Code[pc].branches) + 1 /\ at # 0 /\ pc \in DOMAIN Code
  <2>1. CASE at = 0
    BY <2>1, RunningTyped DEF Fallthrough
  <2>2. CASE at # 0
    BY <2>2 DEF Fallthrough, Good, InstructionNoted, Context
  <2> QED
    BY <2>1, <2>2
<1>2. /\ pc \in Nat /\ Code[pc].next \in Nat /\ last \in Edge
  BY <1>1, InstructionTyped DEF Edge
<1>3. /\ loc' = Code[pc].next /\ at' = 0 /\ pc' = pc /\ walker' = walker /\ tracker' = tracker
      /\ status' = status /\ asked' = asked /\ met' = met
      /\ followed' = IF asked.from = pc THEN Append(followed, last) ELSE followed
  BY DEF Fallthrough, Arrive
<1>4. /\ Append(followed, last) \in Seq(Edge) /\ Append(followed, last) # <<>>
      /\ Append(followed, last)[Len(Append(followed, last))] = last
  <2>1. followed \in Seq(Edge) /\ Len(followed) \in Nat
    BY RunningTyped, LenProperties
  <2>2. /\ Append(followed, last) \in Seq(Edge) /\ Append(followed, last) # <<>>
        /\ Len(Append(followed, last)) = Len(followed) + 1
        /\ Append(followed, last)[Len(followed) + 1] = last
    BY <1>2, <2>1, AppendProperties
  <2> QED
    BY <2>2
<1> HIDE DEF last
<1>5. \/ asked = NoEntry /\ asked.from # pc /\ ~asked.flip
      \/ asked # NoEntry /\ asked.from = pc /\ (Heeded(Context, hooked) => asked.to = Code[pc].next)
  BY <1>1, <1>2 DEF Good, EntryPending, Context, NoEntry, Unmapped
<1>6. Context' \in Contexts
  BY <1>2, <1>3, <1>4, RunningTyped DEF Context, Contexts
<1>7. InstructionNoted(Context)' /\ EntryPending(Context, hooked)'
  BY <1>3 DEF Context, InstructionNoted, EntryPending
<1>8. FailedWithin(Context)' /\ MetTracked(Context)'
  BY <1>3 DEF Context, Good, FailedWithin, MetTracked
<1>9. WalkKept(Context, hooked, wanted)'
  BY <1>1, <1>3, <1>5 DEF Context, Good, WalkKept, UsedUp, last
<1>10. FlipKept(Context)'
  BY <1>3, <1>4, <1>5 DEF Context, FlipKept, Heeded, last
<1> QED
  BY <1>6, <1>7, <1>8, <1>9, <1>10 DEF Good

\* A branch whose entry comes next in the walk: it is the only one of its
\* instruction and leaves it, and the entry asks for one of its two ways.
LEMMA ExpectedEntry ==
    ASSUME Good(Context, hooked, wanted), status = "Running", at \in 1..Len(Code[pc].branches), Expected
    PROVE  LET e == Head(walker.walk) IN
           /\ e \in Edge /\ e.from = pc /\ at = 1 /\ Len(Code[pc].branches) = 1
           /\ ~Here.local /\ asked = NoEntry
           /\ e.to \in {Code[pc].next, Here.to}
           /\ Tail(walker.walk) \in Seq(Entries)
           /\ walker.next = Code[pc].next
           /\ Append(followed, e) \o Tail(walker.walk) = followed \o walker.walk
<1>1. walker.walk \in Seq(Entries) /\ walker.walk # <<>> /\ Head(walker.walk).from = pc
      /\ followed \in Seq(Edge)
  BY RunningTyped DEF Expected
<1>2. /\ Head(walker.walk) \in Entries /\ Tail(walker.walk) \in Seq(Entries)
      /\ Append(followed, Head(walker.walk)) \o Tail(walker.walk) = followed \o walker.walk
  BY <1>1, HeadMoved
<1>3. at # 0 /\ pc \in DOMAIN Code /\ walker.next = Code[pc].next
  <2>1. at # 0
    OBVIOUS
  <2> QED
    BY <2>1 DEF Good, InstructionNoted, Context
<1>4. /\ Head(walker.walk) \in Edge
      /\ Len(Code[pc].branches) = 1 /\ ~Code[pc].branches[1].local
      /\ Head(walker.walk).to \in {Code[pc].next, Code[pc].branches[1].to}
  BY <1>1, <1>2, <1>3 DEF Entries
<1>5. at = 1
  BY <1>4
<1>6. asked = NoEntry
  BY <1>3, <1>4, <1>5 DEF Good, EntryPending, Context
<1> QED
  BY <1>1, <1>2, <1>3, <1>4, <1>5, <1>6 DEF Here

\* Branches are met while no entry is pending.
LEMMA NothingPending ==
    ASSUME Good(Context, hooked, wanted), status = "Running", at \in 1..Len(Code[pc].branches)
    PROVE  asked = NoEntry /\ pc \in DOMAIN Code /\ pc \in Nat /\ pc = loc
<1>1. at # 0
  OBVIOUS
<1>2. pc \in DOMAIN Code /\ pc = loc
  BY <1>1 DEF Good, InstructionNoted, Context
<1>3. pc \in Nat /\ Len(Code[pc].branches) \in Nat
  BY <1>2, InstructionTyped
<1>4. asked = NoEntry
  BY <1>1, <1>3 DEF Good, EntryPending, Context
<1> QED
  BY <1>2, <1>3, <1>4

\* The hooks at a conditional branch, whether the tracker fails or not: what
\* they record keeps its type.
LEMMA HooksTyped ==
    ASSUME Good(Context, hooked, wanted), status = "Running", at \in 1..Len(Code[pc].branches),
           CBranch, UNCHANGED <<hooked, wanted>>
    PROVE  /\ walker' \in [next : Nat, walk : Seq(Entries)] /\ walker'.next = walker.next
           /\ asked' \in [from : Nat \cup {Unmapped}, to : Nat \cup {Unmapped}, flip : BOOLEAN]
           /\ Here.to \in Nat /\ Here.local \in BOOLEAN
           /\ TakenAddress \in Nat \cup {Unmapped}
           /\ Here.local => Here.to \in (at + 1)..(Len(Code[pc].branches) + 1)
<1>1. pc \in DOMAIN Code /\ pc \in Nat
  BY NothingPending
<1>2. /\ Here.to \in Nat /\ Here.local \in BOOLEAN
      /\ Here.local => Here.to \in (at + 1)..(Len(Code[pc].branches) + 1)
      /\ ~Here.local => Held[Here.to] \in Nat \cup {Unmapped}
  BY <1>1, InstructionTyped DEF Here
<1>3. TakenAddress \in Nat \cup {Unmapped}
  BY <1>2 DEF TakenAddress
<1>4. CASE Expected
  <2>1. /\ Head(walker.walk) \in Edge /\ Tail(walker.walk) \in Seq(Entries)
    BY <1>4, ExpectedEntry
  <2>2. walker' = [walker EXCEPT !.walk = Tail(@)]
    BY <1>4 DEF CBranch, Popped
  <2>3. PICK cond \in BOOLEAN :
           asked' = [from |-> pc, to |-> Head(walker.walk).to, flip |-> PathFlips(cond)]
    BY <1>4 DEF CBranch
  <2>4. PathFlips(cond) \in BOOLEAN
    BY DEF PathFlips, FlipToFollow
  <2>5. walker' \in [next : Nat, walk : Seq(Entries)] /\ walker'.next = walker.next
    BY <2>1, <2>2, RunningTyped
  <2>6. asked' \in [from : Nat \cup {Unmapped}, to : Nat \cup {Unmapped}, flip : BOOLEAN]
    BY <1>1, <2>1, <2>3, <2>4 DEF Edge
  <2> QED
    BY <1>2, <1>3, <2>5, <2>6
<1>5. CASE ~Expected
  <2>1. walker' = walker /\ asked' = asked
    BY <1>5 DEF CBranch, Popped
  <2> QED
    BY <1>2, <1>3, <2>1, RunningTyped
<1> QED
  BY <1>4, <1>5

\* Where a branch leads that the hooks flipped or not: whatever its condition
\* was, an entry that is heeded leads where it asks to.
LEMMA EntryHeeded ==
    ASSUME Good(Context, hooked, wanted), status = "Running", at \in 1..Len(Code[pc].branches), Expected,
           NEW cond \in BOOLEAN, NEW r \in RandomFlips,
           PathFlips(cond) \/ "RandomWalker" \notin hooked
    PROVE  Head(walker.walk).to =
               IF (IF Flip(PathFlips(cond), r) THEN ~cond ELSE cond) THEN Here.to ELSE Code[pc].next
<1> DEFINE e == Head(walker.walk)
<1>1. e.to \in {Code[pc].next, Here.to} /\ walker.next = Code[pc].next
  BY ExpectedEntry
<1>2. PathFlips(cond) = FlipToFollow(cond)
  BY DEF PathFlips, FlipToFollow
<1>3. Flip(PathFlips(cond), r) <=> PathFlips(cond)
  BY DEF Flip, RandomFlips
<1>4. CASE e.to = Code[pc].next
  <2>1. PathFlips(cond) <=> cond
    BY <1>1, <1>2, <1>4 DEF FlipToFollow
  <2> QED
    BY <1>3, <1>4, <2>1
<1>5. CASE e.to # Code[pc].next
  <2>1. PathFlips(cond) <=> ~cond
    BY <1>1, <1>2, <1>5 DEF FlipToFollow
  <2> QED
    BY <1>1, <1>3, <1>5, <2>1
<1> QED
  BY <1>4, <1>5

\* What the tracker records at a branch it does not fail at.
LEMMA BranchTracked ==
    ASSUME Good(Context, hooked, wanted), status = "Running", at \in 1..Len(Code[pc].branches),
           CBranch, status' = status, UNCHANGED <<hooked, wanted>>
    PROVE  /\ tracker' \in [next : Nat, tracked : Seq([from : Nat, taken : Nat, next : Nat])]
           /\ tracker'.next = tracker.next
           /\ met' \in Seq([from : Nat, to : Nat, next : Nat])
           /\ MetTracked(Context)'
<1>1. /\ pc \in DOMAIN Code /\ pc \in Nat /\ Code[pc].next \in Nat
      /\ Here.to \in Nat /\ TakenAddress \in Nat \cup {Unmapped}
  BY NothingPending, InstructionTyped, HooksTyped
<1>2. tracker.next = Code[pc].next
  <2>1. at # 0
    OBVIOUS
  <2> QED
    BY <2>1 DEF Good, InstructionNoted, Context
<1>3. MetTracked(Context)
  BY DEF Good
<1>4. \/ "BranchTracker" \notin hooked /\ tracker' = tracker /\ met' = met
      \/ /\ "BranchTracker" \in hooked /\ TakenAddress # Unmapped
         /\ tracker' = Tracked /\ met' = Append(met, Branch)
  BY DEF CBranch
<1>5. CASE tracker' = tracker /\ met' = met
  BY <1>3, <1>5, RunningTyped DEF MetTracked, Context
<1>6. CASE TakenAddress # Unmapped /\ tracker' = Tracked /\ met' = Append(met, Branch)
  <2> DEFINE t == [from |-> pc, taken |-> TakenAddress, next |-> tracker.next]
             T == [from : Nat, taken : Nat, next : Nat]
             B == [from : Nat, to : Nat, next : Nat]
  <2>1. t \in T /\ Branch \in B
    BY <1>1, <1>2, <1>6 DEF Branch
  <2>2. /\ tracker'.tracked = Append(tracker.tracked, t) /\ tracker'.next = tracker.next
        /\ tracker' = [tracker EXCEPT !.tracked = Append(tracker.tracked, t)]
    BY <1>6, RunningTyped DEF Tracked
  <2>3. t.from = Branch.from /\ t.next = Branch.next
    BY <1>2 DEF Branch
  <2>4. /\ tracker.tracked \in Seq(T) /\ met \in Seq(B)
        /\ Len(tracker.tracked) \in Nat /\ DOMAIN met = 1..Len(met)
        /\ Len(tracker.tracked) = Len(met)
        /\ \A i \in 1..Len(met) : /\ tracker.tracked[i].from = met[i].from
                                  /\ tracker.tracked[i].next = met[i].next
    <3>1. tracker.tracked \in Seq(T) /\ met \in Seq(B)
      BY RunningTyped
    <3>2. Len(tracker.tracked) \in Nat /\ DOMAIN met = 1..Len(met)
      BY <3>1, LenProperties
    <3> HIDE DEF T, B
    <3>3. /\ Len(tracker.tracked) = Len(met)
          /\ \A i \in DOMAIN met : /\ tracker.tracked[i].from = met[i].from
                                   /\ tracker.tracked[i].next = met[i].next
      BY <1>3 DEF MetTracked, Context
    <3> QED
      BY <3>1, <3>2, <3>3
  <2> HIDE DEF t, T, B
  <2>5. /\ Append(tracker.tracked, t) \in Seq(T)
        /\ Len(Append(tracker.tracked, t)) = Len(tracker.tracked) + 1
        /\ \A i \in 1..Len(tracker.tracked) : Append(tracker.tracked, t)[i] = tracker.tracked[i]
        /\ Append(tracker.tracked, t)[Len(tracker.tracked) + 1] = t
    BY <2>1, <2>4, AppendProperties
  <2>6. /\ Append(met, Branch) \in Seq(B)
        /\ Len(Append(met, Branch)) = Len(met) + 1
        /\ \A i \in 1..Len(met) : Append(met, Branch)[i] = met[i]
        /\ Append(met, Branch)[Len(met) + 1] = Branch
    BY <2>1, <2>4, AppendProperties
  <2>7. DOMAIN met' = 1..(Len(met) + 1)
    BY <1>6, <2>6, LenProperties
  <2>8. \A i \in DOMAIN met' : /\ tracker'.tracked[i].from = met'[i].from
                               /\ tracker'.tracked[i].next = met'[i].next
    <3> SUFFICES ASSUME NEW i \in 1..(Len(met) + 1)
                 PROVE  /\ tracker'.tracked[i].from = met'[i].from
                        /\ tracker'.tracked[i].next = met'[i].next
      BY <2>7
    <3>1. CASE i = Len(met) + 1
      BY <3>1, <1>6, <2>2, <2>3, <2>4, <2>5, <2>6
    <3>2. CASE i \in 1..Len(met)
      BY <3>2, <1>6, <2>2, <2>4, <2>5, <2>6
    <3> QED
      BY <3>1, <3>2, <2>4
  <2>9. MetTracked(Context)'
    BY <1>6, <2>2, <2>4, <2>5, <2>6, <2>8 DEF MetTracked, Context
  <2>10. tracker' \in [next : Nat, tracked : Seq(T)]
    BY <2>2, <2>5, RunningTyped DEF T
  <2> QED
    BY <1>6, <2>2, <2>6, <2>9, <2>10 DEF T, B
<1> QED
  BY <1>4, <1>5, <1>6

\* The tracker fails: the context stays within the instruction for good.
LEMMA TrackerFailsGood ==
    ASSUME Good(Context, hooked, wanted), status = "Running", at \in 1..Len(Code[pc].branches),
           CBranch, status' # status, UNCHANGED <<hooked, wanted>>
    PROVE  Good(Context, hooked, wanted)'
<1>1. /\ status' = "Error"
      /\ UNCHANGED <<loc, at, pc, tracker, followed, met>>
  BY DEF CBranch
<1>2. at # 0
  OBVIOUS
<1>3. Context' \in Contexts
  BY <1>1, HooksTyped, RunningTyped DEF Context, Contexts
<1>4. InstructionNoted(Context)'
  BY <1>1, <1>2, HooksTyped DEF Context, Good, InstructionNoted
<1>5. /\ FailedWithin(Context)' /\ MetTracked(Context)' /\ EntryPending(Context, hooked)'
      /\ WalkKept(Context, hooked, wanted)' /\ FlipKept(Context)'
  BY <1>1, <1>2 DEF Context, FailedWithin, MetTracked, EntryPending, WalkKept, FlipKept
<1> QED
  BY <1>3, <1>4, <1>5 DEF Good

\* The branch goes one of its ways, the one its entry asks for if heeded.
LEMMA BranchGoesGood ==
    ASSUME Good(Context, hooked, wanted), status = "Running", at \in 1..Len(Code[pc].branches),
           CBranch, status' = status, UNCHANGED <<hooked, wanted>>
    PROVE  Good(Context, hooked, wanted)'
<1> DEFINE e == Head(walker.walk)
<1>1. PICK cond \in BOOLEAN, r \in RandomFlips :
         /\ asked' = IF Expected THEN [from |-> pc, to |-> e.to, flip |-> PathFlips(cond)] ELSE asked
         /\ Go(IF Flip(PathFlips(cond), r) THEN ~cond ELSE cond)
  BY DEF CBranch
<1> DEFINE taken == IF Flip(PathFlips(cond), r) THEN ~cond ELSE cond
<1>2. pc \in Nat /\ pc \in DOMAIN Code /\ pc = loc /\ asked = NoEntry /\ pc' = pc
      /\ at \in Nat /\ at # 0 /\ Code[pc].next \in Nat /\ Len(Code[pc].branches) \in Nat
  BY NothingPending, InstructionTyped DEF CBranch
<1>3. /\ Here.to \in Nat /\ Here.local \in BOOLEAN
      /\ Here.local => Here.to \in (at + 1)..(Len(Code[pc].branches) + 1)
      /\ walker'.next = walker.next /\ tracker'.next = tracker.next
  BY HooksTyped, BranchTracked
<1>4. /\ asked' = IF Expected THEN [from |-> pc, to |-> e.to, flip |-> PathFlips(cond)] ELSE NoEntry
      /\ asked'.from = pc <=> Expected
      /\ asked' # NoEntry <=> Expected
      /\ walker'.walk = IF Expected THEN Tail(walker.walk) ELSE walker.walk
  <2>1. asked' = IF Expected THEN [from |-> pc, to |-> e.to, flip |-> PathFlips(cond)] ELSE NoEntry
    BY <1>1, <1>2
  <2>2. NoEntry.from # pc
    BY <1>2 DEF NoEntry, Unmapped
  <2>3. asked'.from = pc <=> Expected
    BY <2>1, <2>2
  <2>4. asked' # NoEntry <=> Expected
    BY <2>1, <2>2
  <2>5. walker'.walk = IF Expected THEN Tail(walker.walk) ELSE walker.walk
    BY RunningTyped DEF CBranch, Popped
  <2> QED
    BY <2>1, <2>3, <2>4, <2>5
<1>5. /\ followed \in Seq(Edge)
      /\ "RandomWalker" \notin hooked => followed \o walker.walk = wanted
  BY <1>2, RunningTyped DEF Good, WalkKept, UsedUp, Context
<1>6. Expected =>
         /\ e.from = pc /\ e \in Edge /\ at = 1 /\ Len(Code[pc].branches) = 1 /\ ~Here.local
         /\ Append(followed, e) \o Tail(walker.walk) = followed \o walker.walk
  BY ExpectedEntry
<1>7. Expected /\ (PathFlips(cond) \/ "RandomWalker" \notin hooked) =>
         e.to = IF taken THEN Here.to ELSE Code[pc].next
  BY EntryHeeded
<1>8. taken \in BOOLEAN /\ Go(taken) /\ (asked'.flip => Expected /\ PathFlips(cond))
  <2>1. taken \in BOOLEAN
    OBVIOUS
  <2>2. Go(taken)
    BY <1>1
  <2>3. asked'.flip => Expected /\ PathFlips(cond)
    BY <1>4 DEF NoEntry
  <2> QED
    BY <2>1, <2>2, <2>3
<1> HIDE DEF taken
<1>9. /\ InstructionNoted(Context)
      /\ MetTracked(Context)' /\ FailedWithin(Context)'
  BY BranchTracked DEF Good, FailedWithin, Context
<1>10. CASE taken /\ ~Here.local
  <2> DEFINE way == [from |-> pc, to |-> Here.to]
  <2>1. /\ loc' = Here.to /\ at' = 0
        /\ followed' = IF Expected THEN Append(followed, way) ELSE followed
    BY <1>4, <1>8, <1>10 DEF Go, Arrive
  <2>2. /\ Append(followed, way) \in Seq(Edge) /\ Append(followed, way) # <<>>
        /\ Append(followed, way)[Len(Append(followed, way))] = way
    <3>1. way \in Edge /\ Len(followed) \in Nat
      BY <1>2, <1>3, <1>5, LenProperties DEF Edge
    <3>2. /\ Append(followed, way) \in Seq(Edge) /\ Append(followed, way) # <<>>
          /\ Len(Append(followed, way)) = Len(followed) + 1
          /\ Append(followed, way)[Len(followed) + 1] = way
      BY <1>5, <3>1, AppendProperties
    <3> QED
      BY <3>2
  <2>3. Expected /\ e.to = Here.to => e = way
    BY <1>6 DEF Edge
  <2> HIDE DEF way
  <2>4. Context' \in Contexts
    BY <1>2, <1>3, <1>5, <2>1, <2>2, HooksTyped, BranchTracked, RunningTyped DEF Context, Contexts
  <2>5. WalkKept(Context, hooked, wanted)'
    BY <1>4, <1>5, <1>6, <1>7, <1>10, <2>1, <2>3 DEF Context, WalkKept, UsedUp
  <2>6. FlipKept(Context)'
    BY <1>4, <1>7, <1>8, <1>10, <2>1, <2>2 DEF Context, FlipKept, way
  <2> QED
    BY <1>9, <2>1, <2>4, <2>5, <2>6 DEF Good, InstructionNoted, EntryPending, Context
<1>11. CASE ~(taken /\ ~Here.local)
  <2>1. /\ UNCHANGED <<loc, followed>>
        /\ at' \in (at + 1)..(Len(Code[pc].branches) + 1)
        /\ Expected => at' = Len(Code[pc].branches) + 1
    <3>1. CASE taken /\ Here.local
      <4>1. at' = Here.to /\ UNCHANGED <<loc, followed>>
        BY <1>8, <3>1 DEF Go
      <4> QED
        BY <1>3, <1>6, <3>1, <4>1
    <3>2. CASE ~taken
      <4>1. at' = at + 1 /\ UNCHANGED <<loc, followed>>
        BY <1>8, <3>2 DEF Go
      <4>2. at <= Len(Code[pc].branches)
        BY <1>2
      <4>3. at' \in (at + 1)..(Len(Code[pc].branches) + 1)
        BY <1>2, <4>1, <4>2
      <4>4. Expected => at' = Len(Code[pc].branches) + 1
        BY <1>6, <4>1
      <4> QED
        BY <4>1, <4>3, <4>4
    <3> QED
      BY <1>8, <1>11, <3>1, <3>2
  <2>2. at' \in Nat /\ at' # 0 /\ at' \in 1..(Len(Code[pc].branches) + 1)
    BY <1>2, <2>1
  <2>3. Context' \in Contexts
    BY <1>2, <1>5, <2>1, <2>2, HooksTyped, BranchTracked, RunningTyped DEF Context, Contexts
  <2>4. InstructionNoted(Context)'
    BY <1>2, <1>3, <1>9, <2>1, <2>2 DEF Context, InstructionNoted
  <2>5. Expected => ~taken
    BY <1>6, <1>11
  <2>6. EntryPending(Context, hooked)'
    BY <1>2, <1>4, <1>7, <1>8, <2>1, <2>2, <2>5 DEF Context, EntryPending, Heeded
  <2>7. Expected /\ e.to = Code[pc].next => e = [from |-> pc, to |-> Code[pc].next]
    BY <1>6 DEF Edge
  <2>8. WalkKept(Context, hooked, wanted)'
    BY <1>2, <1>4, <1>5, <1>6, <1>7, <2>1, <2>2, <2>5, <2>7 DEF Context, WalkKept, UsedUp
  <2>9. FlipKept(Context)'
    BY <2>2 DEF Context, FlipKept
  <2> QED
    BY <1>9, <2>3, <2>4, <2>6, <2>8, <2>9 DEF Good
<1> QED
  BY <1>10, <1>11

-----------------------------------------------------------------------------
(* The theorems.                                                           *)

\* A step that executes keeps the running context as the invariant says.
LEMMA ExecuteGood ==
    ASSUME Good(Context, hooked, wanted), Execute
    PROVE  Good(Context, hooked, wanted)'
<1>1. status = "Running" /\ UNCHANGED <<hooked, wanted>>
  BY DEF Execute
<1>2. CASE Lift
  BY <1>1, <1>2, LiftGood
<1>3. CASE CBranch
  <2>1. at \in 1..Len(Code[pc].branches)
    BY <1>3 DEF CBranch
  <2> QED
    BY <1>1, <1>3, <2>1, TrackerFailsGood, BranchGoesGood
<1>4. CASE Fallthrough
  BY <1>1, <1>4, FallthroughGood
<1> QED
  BY <1>2, <1>3, <1>4 DEF Execute

\* The invariant holds throughout: a fork is a context between instructions,
\* and a restored context is the fork.
LEMMA WalkersHold == Spec => []WalkersInv
<1>1. Init => WalkersInv
  BY InitGood
<1>2. WalkersInv /\ [Next]_vars => WalkersInv'
  <2> SUFFICES ASSUME WalkersInv, [Next]_vars PROVE WalkersInv'
    OBVIOUS
  <2> USE DEF WalkersInv
  <2>1. CASE Execute
    <3>1. UNCHANGED <<hooked, wanted, saved>>
      BY <2>1 DEF Execute
    <3>2. Good(saved, hooked, wanted)'
      BY <3>1
    <3> QED
      BY <2>1, <3>1, <3>2, ExecuteGood
  <2>2. CASE Fork
    <3>1. UNCHANGED <<context, hooked, wanted>> /\ at = 0 /\ saved' = Context
      BY <2>2 DEF Fork
    <3>2. Context' = Context
      BY <3>1 DEF context, Context
    <3>3. Good(Context, hooked, wanted)'
      BY <3>1, <3>2
    <3>4. saved' = Context' /\ saved'.at = 0
      BY <3>1, <3>2 DEF Context
    <3> QED
      BY <3>1, <3>3, <3>4
  <2>3. CASE Restore
    <3>1. UNCHANGED <<hooked, wanted, saved>>
      BY <2>3 DEF Restore
    <3>2. Context' = saved
      BY <2>3 DEF Restore, HooksRestored, Context, Good, Contexts
    <3>3. Good(saved, hooked, wanted)'
      BY <3>1
    <3> QED
      BY <3>1, <3>2, <3>3
  <2>4. CASE UNCHANGED vars
    <3>1. UNCHANGED <<hooked, wanted, saved>> /\ Context' = Context
      BY <2>4 DEF vars, context, Context
    <3> QED
      BY <3>1
  <2> QED
    BY <2>1, <2>2, <2>3, <2>4 DEF Next
<1> QED
  BY <1>1, <1>2, PTL DEF Spec

\* Every conditional branch met is tracked once, in order, with its address and
\* the fallthrough of its own instruction, and a restored tracker is the one of
\* the fork (tracker.rs:49-73), for every program and set of hooks.
THEOREM BranchesAreTracked == Spec => []BranchesTracked
<1>1. WalkersInv => BranchesTracked
  BY DEF WalkersInv, Good, MetTracked, BranchesTracked, Context
<1> QED
  BY <1>1, WalkersHold, PTL

\* Without a random walker, what was followed and what is left is the walk
\* asked for (driver.rs:69-98), for every program, set of walks along it and
\* number of restores, whatever the conditions are.
THEOREM WalksAreFollowed == Spec => []WalkFollowed
<1>1. WalkersInv => WalkFollowed
  <2> SUFFICES ASSUME WalkersInv, at = 0, "RandomWalker" \notin hooked
               PROVE  followed \o walker.walk = wanted
    BY DEF WalkFollowed
  <2>1. status = "Running"
    BY RunningTyped DEF WalkersInv, Good, FailedWithin, Context
  <2> QED
    BY <2>1 DEF WalkersInv, Good, WalkKept, UsedUp, Context
<1> QED
  BY <1>1, WalkersHold, PTL

\* What the path walker asked to flip goes the walk's way, also when a random
\* walker asks for the same flip (interpreter.rs:766-776).
THEOREM FlipsAreKept == Spec => []FlipsNotUndone
<1>1. WalkersInv => FlipsNotUndone
  BY DEF WalkersInv, Good, FlipKept, FlipsNotUndone, Context
<1> QED
  BY <1>1, WalkersHold, PTL
=============================================================================
