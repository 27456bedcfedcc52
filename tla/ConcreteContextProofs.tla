------------------------ MODULE ConcreteContextProofs ------------------------
(***************************************************************************)
(* What holds of every operation that ConcreteContext executes, for any    *)
(* operations, hooks, policies and contents: the invariants of module      *)
(* ConcreteContext.  The proof is about the list of tasks that are left:   *)
(* what may follow what in it, and what the next one may rely on.          *)
(***************************************************************************)
EXTENDS ConcreteContext, WellFoundedInduction, TLAPS

Kinds ==
    {"ReadHook", "WriteHook", "InvalidHook", "CBranchHook", "CallHook", "Fetch", "Refetch",
     "Store", "Restore", "Size", "Compute", "Divide", "LoadFrom", "StoreTo", "Jump",
     "BranchTo", "Decide", "Aim", "Enter", "Handle"}
Vias == {"Read", "ReadVia", "WriteVia", "Write"}
TaskSet == [do : Kinds, on : Operands, hook : 0..NumHooks, via : Vias]
NoTask == Task("None", Const(0))
Answer == [changed : BOOLEAN, action : {"Pass", "Skip", "Halt", "Value"}, value : Values]

-----------------------------------------------------------------------------
(* The invariant.                                                          *)

\* Nothing follows what ends an operation; a write is followed by its hooks
\* and the branch of a skipped call, a decision by the branch it is about.
Final == {"LoadFrom", "StoreTo", "Enter", "Jump", "BranchTo", "Handle"}
Storing == {"Store", "Restore", "WriteHook"}
MayFollow(d, e) ==
    /\ d \notin Final
    /\ d \in Storing => e \in {"WriteHook", "BranchTo"}
    /\ d = "Decide" => e = "BranchTo"

Ordered(s) == \A j, k \in DOMAIN s : j < k => MayFollow(s[j].do, s[k].do)

\* The condition is fetched right before it is decided on.
DecideFetched(s) ==
    \A j \in DOMAIN s : s[j].do = "Decide" =>
        /\ j # Len(s) /\ s[j].on # Reg("sp")
        /\ j # 1 => s[j - 1].do \in {"Fetch", "Refetch"} /\ s[j - 1].on = s[j].on

WellFormed(s) == s \in Seq(TaskSet) /\ Ordered(s) /\ DecideFetched(s)

\* Either no access is being asked about, or the hooks not yet asked come
\* first, in their order, then the second attempt; policies asked gave their
\* answer.
Deciding == {"Refetch", "Restore"}
Plain(t) == t.do \notin {"InvalidHook"} \cup Deciding
AllPlain(s) == \A j \in DOMAIN s : Plain(s[j])
Via(t) == IF t.do = "Restore" THEN "Write" ELSE t.via

AskedAt(s, ans, d) ==
    /\ d \in DOMAIN s /\ d + Len(ans) = NumHooks + 1
    /\ s[d].do \in Deciding
    /\ \A j \in 1..(d - 1) :
          s[j].do = "InvalidHook" /\ s[j].hook = Len(ans) + j /\ s[j].via = Via(s[d])
    /\ \A j \in DOMAIN s : j > d => Plain(s[j])
    /\ \A i \in DOMAIN ans : i \in Policies => ans[i] = PolicyAnswer(Via(s[d]))

Asked(s, ans) == AllPlain(s) \/ \E d \in Nat : AskedAt(s, ans, d)

\* After a write come its hooks, and a branch only if the call is skipped or
\* the branch flipped.
WritesLast ==
    /\ wrote # {} => \A j \in DOMAIN todo : todo[j].do \in {"WriteHook", "BranchTo"}
    /\ \A k \in DOMAIN todo : todo[k].do = "BranchTo" =>
          /\ wrote # {} => steer
          /\ \A j \in DOMAIN todo : todo[j].do \in Storing => steer

\* No hook comes between the fetch of a condition and the decision.
ConditionHeld ==
    todo # <<>> /\ todo[1].do = "Decide" /\ answers = <<>> => buf = Value(todo[1].on)

\* A branch after writes is the return of a skipped call.
Unpopped(v) == (v + Top + 1 - ExtraPop) % (Top + 1)
LeftAlone(sp) == {Reg("sp"), ReturnLocation(sp)} \cap Touchable = {}
Returns(t, sp) == t.on = Cell(Value(ReturnLocation(sp)))

StackPopped ==
    \A b \in DOMAIN todo : todo[b].do = "BranchTo" =>
        LET sp == store[Reg("sp")]
        IN  /\ \A j \in DOMAIN todo : todo[j].do # "Restore"
            /\ \A j \in DOMAIN todo : todo[j].do = "Store" =>
                  /\ j = 1 /\ todo[j].on = Reg("sp") /\ buf = Popped(sp)
                  /\ Returns(todo[b], sp)
            /\ Reg("sp") \in wrote /\ LeftAlone(Unpopped(sp)) => Returns(todo[b], Unpopped(sp))

Typed == WellFormed(todo) /\ last \in TaskSet \cup {NoTask} /\ answers \in Seq(Answer)

ContextInv ==
    /\ TypeOK /\ Typed
    /\ Asked(todo, answers)
    /\ WritesLast /\ ConditionHeld /\ StackPopped
    /\ FailsClean /\ ViolationsAnswered /\ BranchesAsHeld /\ SkippedCallReturns

-----------------------------------------------------------------------------
(* Lists of tasks.                                                         *)

LEMMA TaskTyped ==
    ASSUME NEW do \in Kinds, NEW o \in Operands
    PROVE  Task(do, o) \in TaskSet /\ Task(do, o).do = do /\ Task(do, o).on = o
BY ConcreteAssumption DEF Task, TaskSet, Vias

LEMMA ForHooksTyped ==
    ASSUME NEW do \in Kinds, NEW o \in Operands, NEW via \in Vias
    PROVE  /\ ForHooks(do, o, via) \in Seq(TaskSet)
           /\ Len(ForHooks(do, o, via)) = NumHooks
           /\ \A i \in 1..NumHooks :
                 /\ ForHooks(do, o, via)[i].do = do /\ ForHooks(do, o, via)[i].on = o
                 /\ ForHooks(do, o, via)[i].hook = i /\ ForHooks(do, o, via)[i].via = via
<1> DEFINE e(i) == [do |-> do, on |-> o, hook |-> i, via |-> via]
<1>1. NumHooks \in Nat
  BY ConcreteAssumption
<1>2. ASSUME NEW i \in 1..NumHooks
      PROVE  /\ e(i) \in TaskSet
             /\ e(i).do = do /\ e(i).on = o /\ e(i).hook = i /\ e(i).via = via
  <2>1. i \in 0..NumHooks BY <1>1
  <2> QED BY <2>1 DEF TaskSet
<1>3. ForHooks(do, o, via) = [i \in 1..NumHooks |-> e(i)]
  BY DEF ForHooks, Hooks
<1> HIDE DEF e
<1> QED BY <1>1, <1>2, <1>3

\* A list put before another.
LEMMA Concatenated ==
    ASSUME NEW a \in Seq(TaskSet), NEW b \in Seq(TaskSet)
    PROVE  /\ a \o b \in Seq(TaskSet) /\ Len(a \o b) = Len(a) + Len(b)
           /\ \A j \in 1..Len(a) : (a \o b)[j] = a[j]
           /\ \A j \in 1..Len(b) : (a \o b)[Len(a) + j] = b[j]
OBVIOUS

LEMMA InEither ==
    ASSUME NEW a \in Seq(TaskSet), NEW b \in Seq(TaskSet), NEW j \in DOMAIN (a \o b)
    PROVE  \/ j \in 1..Len(a) /\ (a \o b)[j] = a[j]
           \/ j - Len(a) \in 1..Len(b) /\ (a \o b)[j] = b[j - Len(a)]
<1>1. j \in 1..(Len(a) + Len(b)) /\ Len(a) \in Nat /\ Len(b) \in Nat
  BY Concatenated
<1>2. CASE j \in 1..Len(a) BY <1>2
<1>3. CASE j \notin 1..Len(a)
  <2>1. j - Len(a) \in 1..Len(b) /\ Len(a) + (j - Len(a)) = j BY <1>1, <1>3
  <2> QED BY <2>1, Concatenated
<1> QED BY <1>2, <1>3

\* The rest of a list.
LEMMA RestOf ==
    ASSUME NEW s \in Seq(TaskSet), s # <<>>
    PROVE  /\ Head(s) = s[1] /\ s[1] \in TaskSet /\ 1 \in DOMAIN s
           /\ Tail(s) \in Seq(TaskSet) /\ Len(Tail(s)) = Len(s) - 1
           /\ \A j \in DOMAIN Tail(s) : j + 1 \in DOMAIN s /\ Tail(s)[j] = s[j + 1]
           /\ Len(s) \in Nat \ {0} /\ DOMAIN s = 1..Len(s) /\ DOMAIN Tail(s) = 1..(Len(s) - 1)
OBVIOUS

LEMMA RestWellFormed ==
    ASSUME NEW s, WellFormed(s), s # <<>>
    PROVE  WellFormed(Tail(s))
<1> DEFINE t == Tail(s)
<1>1. /\ t \in Seq(TaskSet) /\ Len(t) = Len(s) - 1 /\ Len(s) \in Nat
      /\ DOMAIN t = 1..(Len(s) - 1)
      /\ \A j \in DOMAIN t : j + 1 \in DOMAIN s /\ t[j] = s[j + 1]
  BY RestOf DEF WellFormed
<1> HIDE DEF t
<1>2. Ordered(t)
  <2> SUFFICES ASSUME NEW j \in DOMAIN t, NEW k \in DOMAIN t, j < k
               PROVE  MayFollow(t[j].do, t[k].do)
    BY DEF Ordered
  <2>1. j + 1 < k + 1 /\ j + 1 \in DOMAIN s /\ k + 1 \in DOMAIN s
    BY <1>1
  <2> QED BY <1>1, <2>1 DEF WellFormed, Ordered
<1>3. DecideFetched(t)
  <2> SUFFICES ASSUME NEW j \in DOMAIN t, t[j].do = "Decide"
               PROVE  /\ j # Len(t) /\ t[j].on # Reg("sp")
                      /\ j # 1 => t[j - 1].do \in {"Fetch", "Refetch"} /\ t[j - 1].on = t[j].on
    BY DEF DecideFetched
  <2>1. j + 1 \in DOMAIN s /\ s[j + 1] = t[j] /\ j + 1 # 1 /\ (j + 1) - 1 = j
    BY <1>1
  <2>2. /\ j + 1 # Len(s) /\ s[j + 1].on # Reg("sp")
        /\ s[j].do \in {"Fetch", "Refetch"} /\ s[j].on = s[j + 1].on
    BY <2>1 DEF WellFormed, DecideFetched
  <2>3. j # 1 => j - 1 \in DOMAIN t /\ t[j - 1] = s[j]
    BY <1>1
  <2> QED BY <1>1, <2>1, <2>2, <2>3
<1> QED BY <1>1, <1>2, <1>3 DEF WellFormed, t

-----------------------------------------------------------------------------
(* Asking the hooks about an invalid access.                               *)

\* No more access is at hand once the next task is about none.
LEMMA AskedPlain ==
    ASSUME NEW s \in Seq(TaskSet), s # <<>>, NEW ans \in Seq(Answer), Asked(s, ans), Plain(s[1])
    PROVE  AllPlain(Tail(s))
<1>1. AllPlain(s)
  <2> SUFFICES ASSUME NEW d \in Nat, AskedAt(s, ans, d) PROVE FALSE
    BY DEF Asked
  <2>1. d # 1 BY DEF AskedAt, Plain
  <2>2. 1 \in 1..(d - 1) BY <2>1 DEF AskedAt
  <2> QED BY <2>2 DEF AskedAt, Plain
<1> QED BY <1>1, RestOf DEF AllPlain

\* The second attempt is made when every hook has been asked.
LEMMA AskedAll ==
    ASSUME NEW s \in Seq(TaskSet), s # <<>>, NEW ans \in Seq(Answer), Asked(s, ans),
           s[1].do \in Deciding
    PROVE  /\ Len(ans) = NumHooks /\ DOMAIN ans = Hooks
           /\ AllPlain(Tail(s))
           /\ \A i \in Policies : ans[i] = PolicyAnswer(Via(s[1]))
<1>1. ~AllPlain(s)
  BY RestOf DEF AllPlain, Plain
<1>2. PICK d \in Nat : AskedAt(s, ans, d)
  BY <1>1 DEF Asked
<1>3. NumHooks \in Nat /\ Policies \subseteq Hooks
  BY ConcreteAssumption DEF Hooks
<1>4. d = 1
  <2> SUFFICES ASSUME d # 1 PROVE FALSE OBVIOUS
  <2>1. 1 \in 1..(d - 1) BY <1>2, RestOf DEF AskedAt
  <2> QED BY <1>2, <2>1 DEF AskedAt, Deciding
<1>5. Len(ans) = NumHooks /\ DOMAIN ans = Hooks
  BY <1>2, <1>3, <1>4 DEF AskedAt, Hooks
<1>6. AllPlain(Tail(s))
  <2> SUFFICES ASSUME NEW j \in DOMAIN Tail(s) PROVE Plain(Tail(s)[j])
    BY DEF AllPlain
  <2>1. j + 1 \in DOMAIN s /\ Tail(s)[j] = s[j + 1] /\ j + 1 > 1 BY RestOf
  <2> QED BY <1>2, <1>4, <2>1 DEF AskedAt
<1> QED BY <1>2, <1>3, <1>4, <1>5, <1>6 DEF AskedAt

\* A hook that is asked adds its answer.
LEMMA AskedNext ==
    ASSUME NEW s \in Seq(TaskSet), s # <<>>, NEW ans \in Seq(Answer), Asked(s, ans),
           s[1].do = "InvalidHook", NEW a \in Answer,
           s[1].hook \in Policies => a = PolicyAnswer(s[1].via)
    PROVE  Asked(Tail(s), Append(ans, a)) /\ Len(ans) < NumHooks /\ Tail(s) # <<>>
<1>1. ~AllPlain(s)
  BY RestOf DEF AllPlain, Plain
<1>2. PICK d \in Nat : AskedAt(s, ans, d)
  BY <1>1 DEF Asked
<1>3. NumHooks \in Nat /\ Len(ans) \in Nat /\ DOMAIN ans = 1..Len(ans)
  BY ConcreteAssumption
<1>4. d # 1
  BY <1>2 DEF AskedAt, Deciding
<1> DEFINE n == Len(ans)
           t == Tail(s)
           new == Append(ans, a)
<1>5. /\ 1 \in 1..(d - 1) /\ d - 1 \in Nat /\ d \in 1..Len(s)
      /\ d + n = NumHooks + 1
  BY <1>2, <1>4, RestOf DEF AskedAt
<1>6. s[1].hook = n + 1 /\ s[1].via = Via(s[d])
  BY <1>2, <1>5 DEF AskedAt
<1>7. /\ Len(new) = n + 1 /\ DOMAIN new = 1..(n + 1)
      /\ \A i \in 1..n : new[i] = ans[i]
      /\ new[n + 1] = a
  OBVIOUS
<1>8. /\ \A j \in DOMAIN t : j + 1 \in DOMAIN s /\ t[j] = s[j + 1]
      /\ DOMAIN t = 1..(Len(s) - 1) /\ Len(s) \in Nat
  BY RestOf
<1> HIDE DEF n, t, new
<1>9. d - 1 \in DOMAIN t /\ t[d - 1] = s[d]
  <2>1. d - 1 \in 1..(Len(s) - 1) /\ (d - 1) + 1 = d BY <1>5, <1>8
  <2> QED BY <1>8, <2>1
<1>10. AskedAt(t, new, d - 1)
  <2>1. (d - 1) + Len(new) = NumHooks + 1
    BY <1>3, <1>5, <1>7 DEF n
  <2>2. ASSUME NEW j \in 1..((d - 1) - 1)
        PROVE  t[j].do = "InvalidHook" /\ t[j].hook = Len(new) + j /\ t[j].via = Via(t[d - 1])
    <3>1. j \in DOMAIN t /\ j + 1 \in 1..(d - 1) /\ n + (j + 1) = (n + 1) + j
      BY <1>3, <1>5, <1>8 DEF n
    <3> QED BY <1>2, <1>7, <1>8, <1>9, <3>1 DEF AskedAt, n
  <2>3. ASSUME NEW j \in DOMAIN t, j > d - 1 PROVE Plain(t[j])
    <3>1. j + 1 \in DOMAIN s /\ t[j] = s[j + 1] /\ j + 1 > d BY <1>5, <1>8, <2>3
    <3> QED BY <1>2, <3>1 DEF AskedAt
  <2>4. ASSUME NEW i \in DOMAIN new, i \in Policies PROVE new[i] = PolicyAnswer(Via(t[d - 1]))
    <3>1. CASE i = n + 1
      BY <1>6, <1>7, <1>9, <2>4, <3>1
    <3>2. CASE i # n + 1
      <4>1. i \in DOMAIN ans /\ i \in 1..n BY <1>3, <1>7, <3>2 DEF n
      <4> QED BY <1>2, <1>7, <1>9, <2>4, <4>1 DEF AskedAt
    <3> QED BY <3>1, <3>2
  <2>5. t[d - 1].do \in Deciding
    BY <1>2, <1>9 DEF AskedAt
  <2> QED BY <1>9, <2>1, <2>2, <2>3, <2>4, <2>5 DEF AskedAt
<1>11. t # <<>>
  BY <1>9
<1>12. n < NumHooks
  BY <1>3, <1>5 DEF n
<1> QED BY <1>5, <1>10, <1>11, <1>12 DEF Asked, n, t, new

\* Every hook is asked, the second attempt is made, and the rest follows.
AskedBefore(s, t, r) ==
    /\ s \in Seq(TaskSet) /\ s # <<>> /\ Asked(s, <<>>)
    /\ Len(s) = NumHooks + 1 + Len(r)
    /\ \A j \in 1..NumHooks : s[j].do = "InvalidHook"
    /\ s[NumHooks + 1] = t
    /\ \A j \in DOMAIN r : s[NumHooks + 1 + j] = r[j]

\* An access that fails has every hook asked about it, in place of the task.
LEMMA AskedFirst ==
    ASSUME NEW r \in Seq(TaskSet), AllPlain(r), NEW t \in TaskSet, t.do \in Deciding,
           NEW o \in Operands, NEW via \in Vias, via = Via(t),
           NEW s, s = ForHooks("InvalidHook", o, via) \o <<t>> \o r
    PROVE  AskedBefore(s, t, r)
<1> DEFINE f == ForHooks("InvalidHook", o, via)
           g == f \o <<t>>
           n == NumHooks
<1>1. /\ f \in Seq(TaskSet) /\ Len(f) = n /\ n \in Nat
      /\ \A j \in 1..n : f[j].do = "InvalidHook" /\ f[j].hook = j /\ f[j].via = via
  BY ForHooksTyped, ConcreteAssumption DEF Kinds
<1> HIDE DEF f
<1>2. /\ g \in Seq(TaskSet) /\ Len(g) = n + 1
      /\ \A j \in 1..n : g[j] = f[j]
      /\ g[n + 1] = t
  BY <1>1
<1>3. s = g \o r
  BY DEF f
<1> HIDE DEF g
<1>4. /\ s \in Seq(TaskSet) /\ Len(s) = n + 1 + Len(r) /\ DOMAIN s = 1..(n + 1 + Len(r))
      /\ \A j \in 1..(n + 1) : s[j] = g[j]
      /\ \A j \in 1..Len(r) : s[n + 1 + j] = r[j]
  <2>0. g \in Seq(TaskSet) /\ r \in Seq(TaskSet) /\ s = g \o r
    BY <1>2, <1>3
  <2>1. /\ s \in Seq(TaskSet) /\ Len(s) = Len(g) + Len(r) /\ Len(r) \in Nat
        /\ \A j \in 1..Len(g) : s[j] = g[j]
        /\ \A j \in 1..Len(r) : s[Len(g) + j] = r[j]
    BY ONLY <2>0, Concatenated
  <2>2. Len(g) = n + 1 BY <1>2
  <2>3. Len(s) = n + 1 + Len(r) /\ DOMAIN s = 1..(n + 1 + Len(r))
    BY <2>1, <2>2
  <2>4. \A j \in 1..(n + 1) : s[j] = g[j]
    BY ONLY <2>1, <2>2
  <2>5. \A j \in 1..Len(r) : s[n + 1 + j] = r[j]
    BY ONLY <2>1, <2>2
  <2> QED BY <2>1, <2>3, <2>4, <2>5
<1>5. /\ \A j \in 1..n : s[j] = f[j]
      /\ s[n + 1] = t
      /\ Len(r) \in Nat /\ DOMAIN r = 1..Len(r)
  <2>1. \A j \in 1..n : j \in 1..(n + 1) BY <1>1
  <2>2. n + 1 \in 1..(n + 1) BY <1>1
  <2>3. s[n + 1] = t BY <1>2, <1>4, <2>2
  <2>4. \A j \in 1..n : s[j] = f[j] BY <1>2, <1>4, <2>1
  <2>5. Len(r) \in Nat /\ DOMAIN r = 1..Len(r) OBVIOUS
  <2> QED BY <2>3, <2>4, <2>5
<1>6. AskedAt(s, <<>>, n + 1)
  <2>1. n + 1 \in DOMAIN s /\ (n + 1) - 1 = n /\ Len(<<>>) = 0
    BY <1>1, <1>4, <1>5
  <2>2. \A j \in 1..n :
            s[j].do = "InvalidHook" /\ s[j].hook = 0 + j /\ s[j].via = Via(t)
    <3> TAKE j \in 1..n
    <3>1. s[j] = f[j] /\ f[j].do = "InvalidHook" /\ f[j].hook = j /\ f[j].via = Via(t)
      BY <1>1, <1>5
    <3>2. 0 + j = j BY <1>1
    <3> QED BY <3>1, <3>2
  <2>3. ASSUME NEW j \in DOMAIN s, j > n + 1 PROVE Plain(s[j])
    <3>1. j - (n + 1) \in 1..Len(r) /\ n + 1 + (j - (n + 1)) = j
      BY <1>1, <1>4, <1>5, <2>3
    <3> QED BY <1>4, <1>5, <3>1 DEF AllPlain
  <2>4. n + 1 + Len(<<>>) = NumHooks + 1 /\ DOMAIN <<>> = {}
    BY <1>1
  <2> QED BY <1>5, <2>1, <2>2, <2>3, <2>4 DEF AskedAt
<1>7. n + 1 \in Nat /\ Len(s) # 0
  BY <1>1, <1>4, <1>5
<1> QED BY <1>1, <1>4, <1>5, <1>6, <1>7 DEF Asked, AskedBefore

-----------------------------------------------------------------------------
(* The tasks operations begin with.                                        *)

EarlyKinds == {"ReadHook", "CBranchHook", "CallHook", "Fetch", "Size", "Compute", "Divide", "Aim"}
Early(s) == s \in Seq(TaskSet) /\ \A j \in DOMAIN s : s[j].do \in EarlyKinds

\* What an operation begins with and what is put in place of a dereference:
\* no access at hand, nothing decided or written, no branch after a write.
Fresh(s) ==
    /\ WellFormed(s) /\ s # <<>> /\ AllPlain(s)
    /\ s[1].do # "Decide"
    /\ \A j, k \in DOMAIN s : s[j].do = "BranchTo" => s[k].do \notin Storing

LEMMA EarlyJoined ==
    ASSUME NEW a, NEW b, Early(a), Early(b)
    PROVE  Early(a \o b)
<1>0. a \in Seq(TaskSet) /\ b \in Seq(TaskSet)
  BY DEF Early
<1>1. a \o b \in Seq(TaskSet)
  BY ONLY <1>0, Concatenated
<1>2. ASSUME NEW j \in DOMAIN (a \o b) PROVE (a \o b)[j].do \in EarlyKinds
  BY <1>0, InEither DEF Early
<1> QED BY <1>1, <1>2 DEF Early

LEMMA EarlyHooks ==
    ASSUME NEW do \in EarlyKinds, NEW o \in Operands, NEW via \in Vias
    PROVE  Early(ForHooks(do, o, via))
<1>1. do \in Kinds BY DEF EarlyKinds, Kinds
<1>2. DOMAIN ForHooks(do, o, via) = 1..NumHooks BY DEF ForHooks, Hooks
<1> QED BY <1>1, <1>2, ForHooksTyped DEF Early

LEMMA EarlyTask ==
    ASSUME NEW t \in TaskSet, t.do \in EarlyKinds
    PROVE  Early(<<t>>)
BY DEF Early

LEMMA FetchTyped ==
    ASSUME NEW o \in Operands, NEW via \in Vias
    PROVE  LET t == [Task("Fetch", o) EXCEPT !.via = via]
           IN  t \in TaskSet /\ t.do = "Fetch" /\ t.on = o
BY ConcreteAssumption DEF Task, TaskSet, Kinds

LEMMA EarlyRead ==
    ASSUME NEW o \in Operands, NEW via \in Vias
    PROVE  Early(Read(o, via))
<1>1. Early(ForHooks("ReadHook", o, via))
  BY EarlyHooks DEF EarlyKinds
<1> DEFINE t == [Task("Fetch", o) EXCEPT !.via = via]
<1>2. t \in TaskSet /\ t.do = "Fetch"
  BY FetchTyped
<1>3. Read(o, via) = ForHooks("ReadHook", o, via) \o <<t>>
  BY DEF Read
<1> HIDE DEF t
<1>4. Early(<<t>>)
  BY <1>2, EarlyTask DEF EarlyKinds
<1> QED BY <1>1, <1>3, <1>4, EarlyJoined

LEMMA EarlyOperand ==
    ASSUME NEW o \in Operands
    PROVE  /\ Early(Size(o)) /\ Early(<<Task("Compute", o)>>) /\ Early(<<Task("Divide", o)>>)
           /\ Early(<<Task("Aim", o)>>)
<1>1. ASSUME NEW do \in EarlyKinds PROVE Early(<<Task(do, o)>>)
  <2>1. do \in Kinds BY DEF EarlyKinds, Kinds
  <2> QED BY <2>1, TaskTyped, EarlyTask
<1> QED BY <1>1 DEF EarlyKinds, Size

LEMMA EarlyPointer ==
    ASSUME NEW o \in Operands, NEW via \in Vias
    PROVE  Early(ReadPointer(o, via))
<1>1. Early(ForHooks("ReadHook", o, via))
  BY EarlyHooks DEF EarlyKinds
<1> QED BY <1>1, EarlyRead, EarlyOperand, EarlyJoined DEF ReadPointer

\* Early tasks may precede anything that is not a decision.
LEMMA EarlyFirst ==
    ASSUME NEW a, Early(a), NEW b, Fresh(b)
    PROVE  Fresh(a \o b)
<1> DEFINE s == a \o b
           n == Len(a)
           m == Len(b)
<1>0. a \in Seq(TaskSet) /\ b \in Seq(TaskSet)
  BY DEF Early, Fresh, WellFormed
<1>1. /\ s \in Seq(TaskSet) /\ Len(s) = n + m /\ n \in Nat /\ m \in Nat \ {0}
      /\ DOMAIN s = 1..(n + m) /\ DOMAIN a = 1..n /\ DOMAIN b = 1..m
  <2>1. s \in Seq(TaskSet) /\ Len(s) = n + m
    BY ONLY <1>0, Concatenated
  <2>2. m # 0 BY <1>0 DEF Fresh
  <2> QED BY <1>0, <2>1, <2>2
<1>2. \A j \in DOMAIN s :
          \/ j \in DOMAIN a /\ s[j] = a[j]
          \/ j - n \in DOMAIN b /\ s[j] = b[j - n]
  BY <1>0, <1>1, InEither
<1> HIDE DEF s, n, m
<1>3. ASSUME NEW j \in DOMAIN s
      PROVE  \/ j \in DOMAIN a /\ s[j] = a[j] /\ s[j].do \in EarlyKinds
             \/ j - n \in DOMAIN b /\ s[j] = b[j - n]
  BY <1>2 DEF Early
<1>4. Ordered(s)
  <2> SUFFICES ASSUME NEW j \in DOMAIN s, NEW k \in DOMAIN s, j < k
               PROVE  MayFollow(s[j].do, s[k].do)
    BY DEF Ordered
  <2>1. CASE s[j].do \in EarlyKinds
    BY <2>1 DEF EarlyKinds, MayFollow, Final, Storing
  <2>2. CASE j - n \in DOMAIN b /\ s[j] = b[j - n]
    <3>1. k - n \in DOMAIN b /\ s[k] = b[k - n] /\ j - n < k - n
      BY <1>1, <1>2, <2>2
    <3> QED BY <2>2, <3>1 DEF Fresh, WellFormed, Ordered
  <2> QED BY <1>3, <2>1, <2>2
<1>5. DecideFetched(s)
  <2> SUFFICES ASSUME NEW j \in DOMAIN s, s[j].do = "Decide"
               PROVE  /\ j # Len(s) /\ s[j].on # Reg("sp")
                      /\ j # 1 => s[j - 1].do \in {"Fetch", "Refetch"} /\ s[j - 1].on = s[j].on
    BY DEF DecideFetched
  <2>1. j - n \in DOMAIN b /\ s[j] = b[j - n]
    BY <1>3 DEF EarlyKinds
  <2>2. /\ j - n # m /\ s[j].on # Reg("sp") /\ j - n # 1
        /\ b[(j - n) - 1].do \in {"Fetch", "Refetch"} /\ b[(j - n) - 1].on = s[j].on
    BY <2>1 DEF Fresh, WellFormed, DecideFetched, m
  <2>3. j - 1 \in DOMAIN s /\ (j - 1) - n = (j - n) - 1 /\ j - 1 \notin DOMAIN a
    BY <1>1, <2>1, <2>2
  <2>4. s[j - 1] = b[(j - n) - 1]
    BY <1>2, <2>3
  <2> QED BY <1>1, <2>1, <2>2, <2>4
<1>6. AllPlain(s)
  <2> SUFFICES ASSUME NEW j \in DOMAIN s PROVE Plain(s[j]) BY DEF AllPlain
  <2> QED BY <1>3 DEF Fresh, AllPlain, Plain, EarlyKinds, Deciding
<1>7. s # <<>> /\ s[1].do # "Decide"
  <2>1. s # <<>> /\ 1 \in DOMAIN s BY <1>1
  <2>2. CASE n = 0
    <3>1. 1 \notin DOMAIN a /\ 1 - n = 1 BY <1>1, <2>2
    <3> QED BY <1>3, <2>1, <3>1 DEF Fresh
  <2>3. CASE n # 0
    <3>1. 1 - n \notin DOMAIN b BY <1>1, <2>3
    <3> QED BY <1>3, <2>1, <3>1 DEF EarlyKinds
  <2> QED BY <2>1, <2>2, <2>3
<1>8. ASSUME NEW j \in DOMAIN s, NEW k \in DOMAIN s, s[j].do = "BranchTo"
      PROVE  s[k].do \notin Storing
  <2>1. j - n \in DOMAIN b /\ b[j - n].do = "BranchTo"
    BY <1>3, <1>8 DEF EarlyKinds
  <2> QED BY <1>3, <2>1 DEF Fresh, EarlyKinds, Storing
<1> QED BY <1>1, <1>4, <1>5, <1>6, <1>7, <1>8 DEF Fresh, WellFormed, s

LEMMA FreshTask ==
    ASSUME NEW do \in Final, NEW o \in Operands
    PROVE  Fresh(<<Task(do, o)>>)
<1>1. do \in Kinds /\ do \notin {"Decide", "InvalidHook"} \cup Deciding \cup Storing
  BY DEF Final, Kinds, Deciding, Storing
<1> DEFINE t == Task(do, o)
<1>2. t \in TaskSet /\ t.do = do
  BY <1>1, TaskTyped
<1> HIDE DEF t
<1>3. /\ <<t>> \in Seq(TaskSet) /\ <<t>> # <<>> /\ DOMAIN <<t>> = {1} /\ <<t>>[1] = t
  BY <1>2
<1>4. Ordered(<<t>>)
  BY <1>3 DEF Ordered
<1> QED
  BY <1>1, <1>2, <1>3, <1>4 DEF Fresh, WellFormed, DecideFetched, AllPlain, Plain, t

\* A write begins by storing, and its hooks come after.
LEMMA WriteListed ==
    ASSUME NEW o \in Operands
    PROVE  /\ Write(o) \in Seq(TaskSet) /\ Len(Write(o)) = NumHooks + 1
           /\ Write(o)[1].do = "Store" /\ Write(o)[1].on = o
           /\ \A j \in 2..(NumHooks + 1) : Write(o)[j].do = "WriteHook"
<1> DEFINE t == Task("Store", o)
           f == ForHooks("WriteHook", o, "Write")
<1>1. /\ f \in Seq(TaskSet) /\ Len(f) = NumHooks
      /\ \A j \in 1..NumHooks : f[j].do = "WriteHook"
  BY ForHooksTyped DEF Kinds, Vias
<1>2. t \in TaskSet /\ t.do = "Store" /\ t.on = o
  BY TaskTyped DEF Kinds
<1>3. Write(o) = <<t>> \o f
  BY DEF Write, Stored
<1> HIDE DEF t, f
<1>4. <<t>> \in Seq(TaskSet) /\ Len(<<t>>) = 1 /\ <<t>>[1] = t /\ f \in Seq(TaskSet)
  BY <1>1, <1>2
<1>5. /\ <<t>> \o f \in Seq(TaskSet) /\ Len(<<t>> \o f) = 1 + NumHooks
      /\ \A j \in 1..1 : (<<t>> \o f)[j] = <<t>>[j]
      /\ \A j \in 1..NumHooks : (<<t>> \o f)[1 + j] = f[j]
  BY ONLY <1>1, <1>4, Concatenated
<1>6. ASSUME NEW j \in 2..(NumHooks + 1) PROVE (<<t>> \o f)[j].do = "WriteHook"
  <2>1. j - 1 \in 1..NumHooks /\ 1 + (j - 1) = j BY ConcreteAssumption
  <2> QED BY <1>1, <1>5, <2>1
<1> QED BY <1>2, <1>3, <1>4, <1>5, <1>6, ConcreteAssumption

LEMMA FreshWrite ==
    ASSUME NEW o \in Operands
    PROVE  Fresh(Write(o))
<1> DEFINE s == Write(o)
<1>1. /\ s \in Seq(TaskSet) /\ NumHooks \in Nat /\ DOMAIN s = 1..(NumHooks + 1)
      /\ s # <<>> /\ s[1].do = "Store"
      /\ \A j \in 2..(NumHooks + 1) : s[j].do = "WriteHook"
  BY WriteListed, ConcreteAssumption
<1> HIDE DEF s
<1>2. ASSUME NEW j \in DOMAIN s PROVE s[j].do \in {"Store", "WriteHook"} /\ (j # 1 => s[j].do = "WriteHook")
  <2>1. j = 1 \/ j \in 2..(NumHooks + 1) BY <1>1
  <2> QED BY <1>1, <2>1
<1>3. Ordered(s)
  <2> SUFFICES ASSUME NEW j \in DOMAIN s, NEW k \in DOMAIN s, j < k
               PROVE  MayFollow(s[j].do, s[k].do)
    BY DEF Ordered
  <2>1. k # 1 BY <1>1
  <2>2. s[k].do = "WriteHook" BY <1>2, <2>1
  <2> QED BY <1>2, <2>2 DEF MayFollow, Final
<1>4. \A j \in DOMAIN s : s[j].do # "Decide" /\ s[j].do # "BranchTo" /\ Plain(s[j])
  BY <1>2 DEF Plain, Deciding
<1> QED BY <1>1, <1>3, <1>4 DEF Fresh, WellFormed, DecideFetched, AllPlain, s

\* A decision follows the fetch of its condition and precedes its branch.
LEMMA FreshDecision ==
    ASSUME NEW a, Early(a), a # <<>>, NEW x \in Operands, x # Reg("sp"), NEW z \in Operands,
           a[Len(a)].do = "Fetch", a[Len(a)].on = x
    PROVE  Fresh(a \o <<Task("Decide", x), Task("BranchTo", z)>>)
<1> DEFINE d == Task("Decide", x)
           t == Task("BranchTo", z)
           b == <<d, t>>
           s == a \o b
           n == Len(a)
<1>1. /\ d \in TaskSet /\ d.do = "Decide" /\ d.on = x
      /\ t \in TaskSet /\ t.do = "BranchTo"
  BY TaskTyped DEF Kinds
<1> HIDE DEF d, t
<1>2. /\ a \in Seq(TaskSet) /\ b \in Seq(TaskSet) /\ Len(b) = 2 /\ b[1] = d /\ b[2] = t
  BY <1>1 DEF Early
<1> HIDE DEF b
<1>3. /\ s \in Seq(TaskSet) /\ Len(s) = n + 2 /\ n \in Nat \ {0}
      /\ DOMAIN s = 1..(n + 2) /\ DOMAIN a = 1..n
  <2>1. s \in Seq(TaskSet) /\ Len(s) = n + Len(b)
    BY ONLY <1>2, Concatenated
  <2> QED BY <1>2, <2>1
<1>4. \A j \in DOMAIN s :
          \/ j \in 1..n /\ s[j] = a[j]
          \/ j - n \in 1..Len(b) /\ s[j] = b[j - n]
  BY ONLY <1>2, InEither
<1> HIDE DEF s, n
<1>5. ASSUME NEW j \in DOMAIN s
      PROVE  \/ j \in 1..n /\ s[j] = a[j] /\ s[j].do \in EarlyKinds
             \/ j = n + 1 /\ s[j] = d
             \/ j = n + 2 /\ s[j] = t
  <2>1. CASE j \in 1..n /\ s[j] = a[j]
    BY <1>3, <2>1 DEF Early
  <2>2. CASE j - n \in 1..Len(b) /\ s[j] = b[j - n]
    <3>1. (j - n = 1 /\ j = n + 1) \/ (j - n = 2 /\ j = n + 2) BY <1>2, <1>3, <2>2
    <3> QED BY <1>2, <2>2, <3>1
  <2> QED BY <1>4, <2>1, <2>2
<1>6. s[n].do = "Fetch" /\ s[n].on = x
  <2>1. n \in DOMAIN s /\ n # n + 1 /\ n # n + 2 BY <1>3
  <2>2. s[n] = a[n] BY <1>5, <2>1
  <2> QED BY <2>2 DEF n
<1>7. Ordered(s)
  <2> SUFFICES ASSUME NEW j \in DOMAIN s, NEW k \in DOMAIN s, j < k
               PROVE  MayFollow(s[j].do, s[k].do)
    BY DEF Ordered
  <2>1. CASE s[j].do \in EarlyKinds
    BY <2>1 DEF EarlyKinds, MayFollow, Final, Storing
  <2>2. CASE j = n + 1 /\ s[j] = d
    <3>1. k # n + 1 /\ k \notin 1..n BY <1>3, <2>2
    <3>2. s[k] = t BY <1>5, <3>1
    <3> QED BY <1>1, <2>2, <3>2 DEF MayFollow, Final, Storing
  <2>3. j # n + 2 BY <1>3
  <2> QED BY <1>5, <2>1, <2>2, <2>3
<1>8. DecideFetched(s)
  <2> SUFFICES ASSUME NEW j \in DOMAIN s, s[j].do = "Decide"
               PROVE  /\ j # Len(s) /\ s[j].on # Reg("sp")
                      /\ j # 1 => s[j - 1].do \in {"Fetch", "Refetch"} /\ s[j - 1].on = s[j].on
    BY DEF DecideFetched
  <2>1. j = n + 1 /\ s[j] = d BY <1>1, <1>5 DEF EarlyKinds
  <2>2. j - 1 = n /\ j # Len(s) BY <1>3, <2>1
  <2> QED BY <1>1, <1>6, <2>1, <2>2
<1>9. \A j \in DOMAIN s : Plain(s[j]) /\ s[j].do \notin Storing
  BY <1>1, <1>5 DEF Plain, Deciding, EarlyKinds, Storing
<1>10. s # <<>> /\ s[1].do # "Decide"
  <2>1. s # <<>> /\ 1 \in DOMAIN s /\ 1 # n + 1 BY <1>3
  <2> QED BY <1>1, <1>5, <2>1 DEF EarlyKinds
<1> QED BY <1>3, <1>7, <1>8, <1>9, <1>10 DEF Fresh, WellFormed, AllPlain, s, b, d, t

LEMMA FreshCopy ==
    ASSUME NEW s \in Operands, NEW d \in Operands
    PROVE  Fresh(Copy(s, d))
<1>1. Early(Size(s) \o Read(s, "Read"))
  BY EarlyOperand, EarlyRead, EarlyJoined DEF Vias
<1> QED BY <1>1, FreshWrite, EarlyFirst DEF Copy

LEMMA FreshResult ==
    ASSUME NEW d \in Operands
    PROVE  Fresh(Result(d))
<1>1. Early(<<Task("Compute", d)>> \o Size(d))
  BY EarlyOperand, EarlyJoined
<1> QED BY <1>1, FreshWrite, EarlyFirst DEF Result

LEMMA FreshCallHooks ==
    ASSUME NEW o \in Operands
    PROVE  Fresh(CallHooks(o))
<1>1. Early(ForHooks("CallHook", o, "Read"))
  BY EarlyHooks DEF EarlyKinds, Vias
<1>2. Fresh(<<Task("Enter", o)>>)
  BY FreshTask DEF Final
<1> QED BY <1>1, <1>2, EarlyFirst DEF CallHooks

\* Every operation begins with a fresh list.
LEMMA FreshTasks ==
    ASSUME NEW op \in Operations
    PROVE  Fresh(Tasks(op))
<1> DEFINE x == op.x
           y == op.y
           z == op.z
<1>1. /\ x \in Operands /\ y \in Operands /\ z \in Operands /\ op.kind \in OpKinds
      /\ op.kind = "CBranch" => x # Reg("sp")
  BY OperationsAssumption
<1> HIDE DEF x, y, z
<1>2. Early(Operands2(x, y)) /\ Early(Operands2(y, x)) /\ Early(Size(x) \o Read(x, "Read"))
  <2>1. Early(Size(x)) /\ Early(Size(y)) /\ Early(Read(x, "Read")) /\ Early(Read(y, "Read"))
    BY <1>1, EarlyOperand, EarlyRead DEF Vias
  <2> QED BY <2>1, EarlyJoined DEF Operands2
<1>3. Fresh(Result(z)) /\ Fresh(Write(z))
  BY <1>1, FreshResult, FreshWrite
<1>4. Fresh(Lift1(z, x)) /\ Fresh(Lift2(z, x, y))
  BY <1>2, <1>3, EarlyFirst DEF Lift1, Lift2
<1>5. Fresh(Bool1(z, x)) /\ Fresh(Bool1(z, y)) /\ Fresh(Bool2(z, x, y))
  <2>1. Early(Read(x, "Read")) /\ Early(Read(y, "Read")) /\ Early(<<Task("Compute", z)>>)
    BY <1>1, EarlyOperand, EarlyRead DEF Vias
  <2>2. Early(Read(x, "Read") \o <<Task("Compute", z)>>)
        /\ Early(Read(y, "Read") \o <<Task("Compute", z)>>)
    BY <2>1, EarlyJoined
  <2>3. Fresh(Bool1(z, x)) /\ Fresh(Bool1(z, y))
    BY <1>3, <2>2, EarlyFirst DEF Bool1
  <2> QED BY <2>1, <2>3, EarlyFirst DEF Bool2
<1>6. CASE op.kind \in {"Int1", "Int2", "Float1", "Float2"}
  BY <1>4, <1>6 DEF Tasks, IntTasks, FloatTasks, x, y, z
<1>7. CASE op.kind \in {"Bool1", "Bool2"}
  BY <1>5, <1>7 DEF Tasks, BoolTasks, x, y, z
<1>8. CASE op.kind = "Divide"
  <2>1. Early(Operands2(x, y) \o <<Task("Divide", y)>>)
    BY <1>1, <1>2, EarlyOperand, EarlyJoined
  <2>2. Fresh(DivideTasks(op))
    BY <1>3, <2>1, EarlyFirst DEF DivideTasks, x, y, z
  <2> QED BY <1>8, <2>2 DEF Tasks
<1>9. CASE op.kind = "Subpiece"
  <2>1. Early(Operands2(y, x) \o <<Task("Compute", z)>>)
    BY <1>1, <1>2, EarlyOperand, EarlyJoined
  <2>2. Fresh(SubpieceTasks(op))
    BY <1>3, <2>1, EarlyFirst DEF SubpieceTasks, x, y, z
  <2> QED BY <1>9, <2>2 DEF Tasks
<1>10. CASE op.kind = "Intrinsic"
  <2>1. Fresh(<<Task("Handle", z)>>) BY <1>1, FreshTask DEF Final
  <2> QED BY <1>10, <2>1 DEF Tasks, z
<1>11. Early(ReadPointer(z, "ReadVia")) /\ Early(ReadPointer(z, "WriteVia"))
  BY <1>1, EarlyPointer DEF Vias
<1>12. CASE op.kind \in {"Copy", "Load", "Store"}
  <2>1. Fresh(<<Task("LoadFrom", z)>>) /\ Fresh(<<Task("StoreTo", x)>>)
    BY <1>1, FreshTask DEF Final
  <2>2. /\ Fresh(Copy(x, z))
        /\ Fresh(ReadPointer(z, "WriteVia") \o <<Task("StoreTo", x)>>)
        /\ Fresh(ReadPointer(x, "ReadVia") \o <<Task("LoadFrom", z)>>)
    BY <1>1, <1>11, <2>1, FreshCopy, EarlyPointer, EarlyFirst DEF Vias
  <2> QED BY <1>12, <2>2 DEF Tasks, DataTasks, x, z
<1>13. CASE op.kind = "CBranch"
  <2> DEFINE a == ForHooks("CBranchHook", x, "Read")
             r == Read(x, "Read")
             t == [Task("Fetch", x) EXCEPT !.via = "Read"]
             f == ForHooks("ReadHook", x, "Read")
  <2>1. Early(a) /\ Early(r) /\ Early(a \o r)
    BY <1>1, EarlyHooks, EarlyRead, EarlyJoined DEF EarlyKinds, Vias
  <2>2. /\ r = f \o <<t>> /\ t \in TaskSet /\ t.do = "Fetch" /\ t.on = x
        /\ f \in Seq(TaskSet) /\ a \in Seq(TaskSet) /\ r \in Seq(TaskSet)
    <3>1. f \in Seq(TaskSet)
      BY <1>1, ForHooksTyped DEF Vias, Kinds
    <3>2. t \in TaskSet /\ t.do = "Fetch" /\ t.on = x
      BY <1>1, FetchTyped DEF Vias
    <3> QED BY <2>1, <3>1, <3>2 DEF Early, Read
  <2>3. Fresh((a \o r) \o <<Task("Decide", x), Task("BranchTo", z)>>)
    <3> HIDE DEF a, r, t, f
    <3>1. <<t>> \in Seq(TaskSet) /\ Len(<<t>>) = 1 /\ <<t>>[1] = t /\ f \in Seq(TaskSet)
      BY <2>2
    <3>2. Len(f \o <<t>>) = Len(f) + 1 /\ \A j \in 1..1 : (f \o <<t>>)[Len(f) + j] = <<t>>[j]
      BY ONLY <3>1, Concatenated
    <3>3. Len(r) \in Nat \ {0} /\ r[Len(r)] = t
      BY <2>2, <3>1, <3>2
    <3>4. Len(a \o r) = Len(a) + Len(r) /\ \A j \in 1..Len(r) : (a \o r)[Len(a) + j] = r[j]
      BY ONLY <2>2, Concatenated
    <3>5. Len(r) \in 1..Len(r) /\ Len(a \o r) \in Nat \ {0}
      BY <2>2, <3>3, <3>4
    <3>6. a \o r # <<>> /\ (a \o r)[Len(a \o r)] = t
      BY <3>3, <3>4, <3>5
    <3> QED BY <1>1, <1>13, <2>1, <2>2, <3>6, FreshDecision
  <2> QED BY <1>13, <2>3 DEF Tasks, BranchTasks, x, z
<1>14. CASE op.kind \in {"Call", "ICall", "IBranch", "Return"}
  <2>1. Fresh(CallHooks(z)) /\ Early(<<Task("Aim", z)>>) /\ Fresh(<<Task("Jump", z)>>)
    BY <1>1, FreshCallHooks, EarlyOperand, FreshTask DEF Final
  <2>2. /\ Fresh(<<Task("Aim", z)>> \o CallHooks(z))
        /\ Fresh(ReadPointer(z, "ReadVia") \o CallHooks(z))
        /\ Fresh(ReadPointer(z, "ReadVia") \o <<Task("Jump", z)>>)
    BY <1>11, <2>1, EarlyFirst
  <2> QED BY <1>14, <2>2 DEF Tasks, BranchTasks, z
<1>15. CASE op.kind = "Branch"
  <2>1. Fresh(<<Task("BranchTo", z)>>) BY <1>1, FreshTask DEF Final
  <2> QED BY <1>15, <2>1 DEF Tasks, BranchTasks, z
<1> QED
  BY <1>1, <1>6, <1>7, <1>8, <1>9, <1>10, <1>12, <1>13, <1>14, <1>15 DEF OpKinds

-----------------------------------------------------------------------------
(* The stack pointer and the return address.                               *)

LEMMA Wrapped ==
    ASSUME NEW m \in Nat \ {0}, NEW x \in Nat, x < m + m
    PROVE  x % m = IF x < m THEN x ELSE x - m
OBVIOUS

LEMMA ReturnPlace ==
    ASSUME NEW v \in Values
    PROVE  /\ Popped(v) \in Values /\ Unpopped(v) \in Values /\ Unpopped(Popped(v)) = v
           /\ ReturnLocation(v) \in Places /\ ReturnLocation(v) # Reg("sp")
           /\ ReturnLocation(v).space # "Constant"
           /\ Reg("sp") \in Places /\ Reg("sp").space # "Constant"
<1>1. Top \in Nat \ {0} /\ ExtraPop \in 0..Top /\ v \in 0..Top
  BY ConcreteAssumption DEF Values
<1>2. Popped(v) = IF v + ExtraPop < Top + 1 THEN v + ExtraPop ELSE v + ExtraPop - (Top + 1)
  <2> DEFINE x == v + ExtraPop
             m == Top + 1
  <2>1. m \in Nat \ {0} /\ x \in Nat /\ x < m + m
    BY <1>1
  <2>2. Popped(v) = x % m
    BY DEF Popped
  <2> HIDE DEF x, m
  <2>3. x % m = IF x < m THEN x ELSE x - m
    BY <2>1, Wrapped
  <2>4. Popped(v) = IF x < m THEN x ELSE x - m
    BY <2>2, <2>3
  <2> QED BY <1>1, <2>4 DEF x, m
<1>3. Popped(v) \in 0..Top
  BY <1>1, <1>2
<1>4. ASSUME NEW w \in 0..Top
      PROVE  /\ Unpopped(w) = IF w < ExtraPop THEN w + Top + 1 - ExtraPop ELSE w - ExtraPop
             /\ Unpopped(w) \in 0..Top
  <2> DEFINE x == w + Top + 1 - ExtraPop
             m == Top + 1
  <2>1. /\ m \in Nat \ {0} /\ x \in Nat /\ x < m + m
        /\ x < m <=> w < ExtraPop
        /\ x - m = w - ExtraPop
    BY <1>1
  <2>2. Unpopped(w) = x % m
    BY DEF Unpopped
  <2> HIDE DEF x, m
  <2>3. x % m = IF x < m THEN x ELSE x - m
    BY <2>1, Wrapped
  <2>4. Unpopped(w) = IF w < ExtraPop THEN w + Top + 1 - ExtraPop ELSE w - ExtraPop
    BY <2>1, <2>2, <2>3 DEF x
  <2> QED BY <1>1, <2>4
<1>5. Unpopped(Popped(v)) = v
  BY <1>1, <1>2, <1>3, <1>4
<1>6. Reg("sp") \in Places /\ (LinkRegister => Reg("lr") \in Places)
  BY ConcreteAssumption DEF Places
<1>7. Cell(v) \in Places
  BY DEF Places, Cells
<1>8. Reg("lr") # Reg("sp") /\ Cell(v) # Reg("sp") /\ Cell(v).space # "Constant"
      /\ Reg("lr").space # "Constant" /\ Reg("sp").space # "Constant"
  BY DEF Reg, Cell
<1> QED BY <1>1, <1>3, <1>4, <1>5, <1>6, <1>7, <1>8 DEF ReturnLocation, Values

-----------------------------------------------------------------------------
(* What every step that goes on with the rest of the list preserves.       *)

\* A hook and nearly every task leave what hooks may not touch.
KeepsUntouchable == \A p \in Places \ Touchable : store'[p] = store[p]

LEMMA RestKept ==
    ASSUME ContextInv, todo # <<>>, todo' = Tail(todo), wrote' = wrote, steer => steer',
           KeepsUntouchable
    PROVE  WellFormed(todo') /\ WritesLast' /\ StackPopped'
<1> DEFINE s == todo
           t == Tail(todo)
<1>1. /\ s \in Seq(TaskSet) /\ 1 \in DOMAIN s
      /\ \A j \in DOMAIN t : j + 1 \in DOMAIN s /\ t[j] = s[j + 1] /\ j \in Nat /\ j + 1 # 1
  <2>1. s \in Seq(TaskSet) BY DEF ContextInv, Typed, WellFormed
  <2> QED BY <2>1, RestOf
<1>2. WellFormed(t)
  BY RestWellFormed DEF ContextInv, Typed
<1>3. WritesLast'
  <2> HIDE DEF s, t
  <2>1. todo' = t /\ WritesLast BY DEF ContextInv, t
  <2>2. wrote' # {} => \A j \in DOMAIN t : t[j].do \in {"WriteHook", "BranchTo"}
    BY <1>1, <2>1 DEF WritesLast, s
  <2>3. ASSUME NEW k \in DOMAIN t, t[k].do = "BranchTo"
        PROVE  /\ wrote' # {} => steer'
               /\ \A j \in DOMAIN t : t[j].do \in Storing => steer'
    <3>1. k + 1 \in DOMAIN todo /\ todo[k + 1].do = "BranchTo" BY <1>1, <2>3 DEF s
    <3>2. wrote # {} => steer BY <2>1, <3>1 DEF WritesLast
    <3>3. \A j \in DOMAIN todo : todo[j].do \in Storing => steer BY <2>1, <3>1 DEF WritesLast
    <3> QED BY <1>1, <3>2, <3>3 DEF s
  <2> QED BY <2>1, <2>2, <2>3 DEF WritesLast
<1>4. StackPopped'
  <2> DEFINE sp == store[Reg("sp")]
             old == Unpopped(sp)
  <2>1. sp \in Values
    BY ConcreteAssumption DEF ContextInv, TypeOK
  <2>2. /\ old \in Values /\ Reg("sp") \in Places
        /\ ReturnLocation(old) \in Places /\ ReturnLocation(old).space # "Constant"
    BY <2>1, ReturnPlace
  <2> HIDE DEF s, t, old
  <2> SUFFICES ASSUME NEW b \in DOMAIN t, t[b].do = "BranchTo"
               PROVE  /\ \A j \in DOMAIN t : t[j].do # "Restore" /\ t[j].do # "Store"
                      /\ /\ Reg("sp") \in wrote'
                         /\ LeftAlone(Unpopped(store[Reg("sp")]))'
                         => Returns(todo[b], Unpopped(store[Reg("sp")]))'
    BY Zenon DEF StackPopped, t
  <2>3. b + 1 \in DOMAIN s /\ s[b + 1] = t[b]
    BY <1>1
  <2>4. /\ \A j \in DOMAIN s : s[j].do # "Restore"
        /\ \A j \in DOMAIN s : s[j].do = "Store" => j = 1
        /\ Reg("sp") \in wrote /\ LeftAlone(old) => Returns(t[b], old)
    BY <2>3 DEF ContextInv, StackPopped, s, old
  <2>5. \A j \in DOMAIN t : t[j].do # "Restore" /\ t[j].do # "Store"
    BY <1>1, <2>4
  <2>6. ASSUME Reg("sp") \in wrote, LeftAlone(Unpopped(store[Reg("sp")]))'
        PROVE  Returns(todo[b], Unpopped(store[Reg("sp")]))'
    <3>1. store'[Reg("sp")] = sp
      BY <2>2, <2>6 DEF LeftAlone, KeepsUntouchable
    <3>2. LeftAlone(old) /\ store'[ReturnLocation(old)] = store[ReturnLocation(old)]
      BY <2>2, <2>6, <3>1 DEF LeftAlone, KeepsUntouchable, old
    <3>3. t[b].on = Cell(store[ReturnLocation(old)])
      BY <2>2, <2>4, <2>6, <3>2 DEF Returns, Value
    <3> QED BY <2>2, <3>1, <3>2, <3>3 DEF Returns, Value, old, t
  <2> QED BY <2>5, <2>6
<1> QED BY <1>2, <1>3, <1>4

\* A write is followed by its hooks, and in a skipped call it pops the stack.
LEMMA WriteKept ==
    ASSUME ContextInv, todo # <<>>, todo[1].do \in {"Store", "Restore"}, todo' = Tail(todo),
           todo[1].on \in Places, store' = [store EXCEPT ![todo[1].on] = buf],
           wrote' = wrote \cup {todo[1].on}, steer' = steer
    PROVE  WellFormed(todo') /\ WritesLast' /\ StackPopped'
<1> DEFINE s == todo
           t == Tail(todo)
           sp == store[Reg("sp")]
<1>1. /\ s \in Seq(TaskSet) /\ 1 \in DOMAIN s
      /\ \A j \in DOMAIN t : j + 1 \in DOMAIN s /\ t[j] = s[j + 1] /\ j \in Nat /\ 1 < j + 1
  <2>1. s \in Seq(TaskSet) BY DEF ContextInv, Typed, WellFormed
  <2> QED BY <2>1, RestOf
<1>2. WellFormed(t)
  BY RestWellFormed DEF ContextInv, Typed
<1>3. sp \in Values /\ store \in [Places -> Values \cup {Unmapped}]
  BY ConcreteAssumption DEF ContextInv, TypeOK
<1>4. todo' = t /\ s = todo
  OBVIOUS
<1> HIDE DEF s, t, sp
<1>5. \A j \in DOMAIN t : t[j].do \in {"WriteHook", "BranchTo"}
  <2> SUFFICES ASSUME NEW j \in DOMAIN t PROVE t[j].do \in {"WriteHook", "BranchTo"}
    OBVIOUS
  <2>1. MayFollow(s[1].do, s[j + 1].do)
    BY <1>1 DEF ContextInv, Typed, WellFormed, Ordered, s
  <2> QED BY <1>1, <1>4, <2>1 DEF MayFollow, Storing
<1>6. ASSUME NEW b \in DOMAIN t, t[b].do = "BranchTo"
      PROVE  /\ steer /\ s[1].do = "Store"
             /\ s[1].on = Reg("sp") /\ buf = Popped(sp) /\ Returns(t[b], sp)
  <2>1. b + 1 \in DOMAIN s /\ s[b + 1] = t[b]
    BY <1>1
  <2>2. steer
    BY <1>1, <1>4, <1>6, <2>1 DEF ContextInv, WritesLast, Storing
  <2>3. /\ \A j \in DOMAIN s : s[j].do # "Restore"
        /\ \A j \in DOMAIN s : s[j].do = "Store" =>
              s[j].on = Reg("sp") /\ buf = Popped(sp) /\ Returns(s[b + 1], sp)
    BY <1>4, <1>6, <2>1 DEF ContextInv, StackPopped, sp
  <2> QED BY <1>1, <1>4, <2>1, <2>2, <2>3
<1>7. WritesLast'
  BY <1>4, <1>5, <1>6 DEF WritesLast
<1>8. StackPopped'
  <2> SUFFICES ASSUME NEW b \in DOMAIN t, t[b].do = "BranchTo"
               PROVE  /\ \A j \in DOMAIN t : t[j].do # "Restore" /\ t[j].do # "Store"
                      /\ Returns(todo[b], Unpopped(store[Reg("sp")]))'
    BY <1>4, Zenon DEF StackPopped
  <2>1. s[1].on = Reg("sp") /\ buf = Popped(sp) /\ Returns(t[b], sp)
    BY <1>6
  <2>2. /\ Unpopped(Popped(sp)) = sp /\ Reg("sp") \in Places
        /\ ReturnLocation(sp) \in Places /\ ReturnLocation(sp) # Reg("sp")
        /\ ReturnLocation(sp).space # "Constant"
    BY <1>3, ReturnPlace
  <2>3. store'[Reg("sp")] = Popped(sp) /\ store'[ReturnLocation(sp)] = store[ReturnLocation(sp)]
    BY <1>3, <1>4, <2>1, <2>2
  <2>4. t[b].on = Cell(store[ReturnLocation(sp)])
    BY <2>1, <2>2 DEF Returns, Value
  <2>5. Returns(todo[b], Unpopped(store[Reg("sp")]))'
    BY <1>4, <2>2, <2>3, <2>4 DEF Returns, Value
  <2> QED BY <1>5, <2>5
<1> QED BY <1>2, <1>4, <1>7, <1>8

\* A flipped condition is written and its branch taken or not.
LEMMA FlipKept ==
    ASSUME ContextInv, todo # <<>>, todo[1].do = "Decide", todo' \in {Tail(todo), <<>>},
           wrote' = wrote \cup {todo[1].on}, steer, steer' = steer
    PROVE  WellFormed(todo') /\ WritesLast' /\ StackPopped'
<1> DEFINE s == todo
           t == Tail(todo)
<1>1. /\ s \in Seq(TaskSet) /\ 1 \in DOMAIN s
      /\ \A j \in DOMAIN t : j + 1 \in DOMAIN s /\ t[j] = s[j + 1] /\ j \in Nat /\ 1 < j + 1
  <2>1. s \in Seq(TaskSet) BY DEF ContextInv, Typed, WellFormed
  <2> QED BY <2>1, RestOf
<1>2. WellFormed(t) /\ WellFormed(<<>>)
  <2>1. WellFormed(t) BY RestWellFormed DEF ContextInv, Typed
  <2>2. WellFormed(<<>>) BY DEF WellFormed, Ordered, DecideFetched
  <2> QED BY <2>1, <2>2
<1>3. s = todo /\ todo' \in {t, <<>>}
  OBVIOUS
<1> HIDE DEF s, t
<1>4. ASSUME NEW j \in DOMAIN t PROVE t[j].do = "BranchTo"
  <2>1. MayFollow(s[1].do, s[j + 1].do)
    BY <1>1 DEF ContextInv, Typed, WellFormed, Ordered, s
  <2> QED BY <1>1, <1>3, <2>1 DEF MayFollow
<1>5. \A j \in DOMAIN todo' : todo'[j].do = "BranchTo"
  BY <1>3, <1>4
<1>6. Reg("sp") \notin wrote'
  <2>1. wrote = {} BY <1>1, <1>3 DEF ContextInv, WritesLast
  <2>2. s[1].on # Reg("sp")
    BY <1>1, <1>3 DEF ContextInv, Typed, WellFormed, DecideFetched
  <2> QED BY <1>3, <2>1, <2>2
<1>7. WritesLast'
  BY <1>5 DEF WritesLast
<1>8. StackPopped'
  BY <1>5, <1>6 DEF StackPopped
<1> QED BY <1>2, <1>3, <1>7, <1>8

\* An operation that ends leaves no tasks.
LEMMA EndKept ==
    ASSUME todo' = <<>>
    PROVE  /\ WellFormed(todo') /\ Asked(todo', answers')
           /\ WritesLast' /\ StackPopped' /\ ConditionHeld'
BY DEF WellFormed, Ordered, DecideFetched, Asked, AllPlain, WritesLast, StackPopped, ConditionHeld

\* Only a fetch comes right before a decision.
LEMMA NoDecision ==
    ASSUME ContextInv, todo # <<>>, todo' = Tail(todo), todo[1].do \notin {"Fetch", "Refetch"}
    PROVE  ConditionHeld'
<1>1. todo \in Seq(TaskSet)
  BY DEF ContextInv, Typed, WellFormed
<1> SUFFICES ASSUME Tail(todo) # <<>>, Tail(todo)[1].do = "Decide" PROVE FALSE
  BY DEF ConditionHeld
<1>2. 1 \in DOMAIN Tail(todo) /\ 1 + 1 = 2 /\ 2 - 1 = 1
  BY <1>1
<1>3. 2 \in DOMAIN todo /\ todo[2].do = "Decide" /\ 2 # 1
  BY <1>1, <1>2, RestOf
<1> QED BY <1>2, <1>3 DEF ContextInv, Typed, WellFormed, DecideFetched

\* What fails has written nothing, or was told of the write.
LEMMA FailureClean ==
    ASSUME ContextInv, todo # <<>>, last' = todo[1], wrote' = wrote, steer => steer'
    PROVE  FailsClean'
<1>1. 1 \in DOMAIN todo
  BY RestOf DEF ContextInv, Typed, WellFormed
<1>2. wrote # {} => /\ todo[1].do \in {"WriteHook", "BranchTo"}
                    /\ todo[1].do = "BranchTo" => steer
  BY <1>1 DEF ContextInv, WritesLast
<1> QED BY <1>2 DEF FailsClean

-----------------------------------------------------------------------------
(* The steps.                                                              *)

StoreTyped ==
    /\ store \in [Places -> Values \cup {Unmapped}]
    /\ \A r \in Registers : store[Reg(r)] \in Values

\* What is known of the list when a step is taken.
LEMMA Current ==
    ASSUME ContextInv, Running
    PROVE  /\ todo \in Seq(TaskSet) /\ todo # <<>> /\ Now = todo[1] /\ Rest = Tail(todo)
           /\ todo[1] \in TaskSet /\ Tail(todo) \in Seq(TaskSet)
           /\ todo[1].on \in Operands /\ todo[1].via \in Vias /\ todo[1].do \in Kinds
           /\ StoreTyped /\ buf \in Values /\ steer \in BOOLEAN
           /\ answers \in Seq(Answer) /\ Len(answers) <= NumHooks /\ wrote \subseteq Places
<1>1. todo \in Seq(TaskSet) /\ todo # <<>>
  BY DEF ContextInv, Typed, WellFormed, TypeOK
<1>2. todo[1] \in TaskSet /\ Head(todo) = todo[1] /\ Tail(todo) \in Seq(TaskSet)
  BY <1>1, RestOf
<1> QED
  BY <1>1, <1>2 DEF Now, Rest, TaskSet, ContextInv, Typed, TypeOK, StoreTyped

\* A hook leaves registers with values and what it may not touch alone.
LEMMA HooksType ==
    ASSUME ContextInv, HookChanges
    PROVE  StoreTyped' /\ KeepsUntouchable
<1>1. StoreTyped
  BY DEF ContextInv, TypeOK, StoreTyped
<1>2. \A r \in Registers : Reg(r) \notin Cells
  BY DEF Reg, Cells, Cell
<1>3. CASE store' = store
  BY <1>1, <1>3 DEF StoreTyped, KeepsUntouchable
<1>4. CASE \E o \in Touchable, v \in Values : store' = [store EXCEPT ![o] = v]
  <2>1. PICK o \in Touchable, v \in Values : store' = [store EXCEPT ![o] = v]
    BY <1>4
  <2>2. store' \in [Places -> Values \cup {Unmapped}]
    BY <1>1, <2>1 DEF StoreTyped
  <2>3. ASSUME NEW r \in Registers PROVE store'[Reg(r)] \in Values
    <3>1. Reg(r) \in Places BY DEF Places
    <3> QED BY <1>1, <2>1, <3>1 DEF StoreTyped
  <2>4. KeepsUntouchable
    BY <1>1, <2>1 DEF StoreTyped, KeepsUntouchable
  <2> QED BY <2>2, <2>3, <2>4 DEF StoreTyped
<1>5. CASE \E o \in Touchable \cap Cells : store' = [store EXCEPT ![o] = Unmapped]
  <2>1. PICK o \in Touchable \cap Cells : store' = [store EXCEPT ![o] = Unmapped]
    BY <1>5
  <2>2. StoreTyped'
    <3>1. store' \in [Places -> Values \cup {Unmapped}]
      BY <1>1, <2>1 DEF StoreTyped
    <3>2. ASSUME NEW r \in Registers PROVE store'[Reg(r)] \in Values
      <4>1. Reg(r) # o /\ Reg(r) \in Places BY <1>2, <2>1 DEF Places
      <4> QED BY <1>1, <2>1, <4>1 DEF StoreTyped
    <3> QED BY <3>1, <3>2 DEF StoreTyped
  <2>3. KeepsUntouchable
    BY <1>1, <2>1 DEF StoreTyped, KeepsUntouchable
  <2> QED BY <2>2, <2>3
<1> QED BY <1>3, <1>4, <1>5 DEF HookChanges, Touched

LEMMA GoesOn ==
    ASSUME NEW tasks, Goes(tasks)
    PROVE  /\ todo' = tasks /\ (Running' <=> todo' # <<>>)
           /\ outcome' \in {"Running", "Next"}
BY DEF Goes, Running

\* What is left to show of a step once the list is known to be in order.
LEMMA Assembled ==
    ASSUME StoreTyped', buf' \in Values, steer' \in BOOLEAN,
           outcome' \in {"Running", "Next", "Branch", "Halt", "Error", "Panic"},
           Running' <=> todo' # <<>>, wrote' \subseteq Places,
           answers' \in Seq(Answer), Len(answers') <= NumHooks,
           last' \in TaskSet \cup {NoTask},
           WellFormed(todo') /\ WritesLast' /\ StackPopped',
           Asked(todo', answers'), ConditionHeld', FailsClean', ViolationsAnswered',
           BranchesAsHeld', SkippedCallReturns'
    PROVE  ContextInv'
BY DEF ContextInv, TypeOK, Typed, StoreTyped

\* Properties of the last task that are about others.
LEMMA OtherTask ==
    /\ last'.do \notin Deciding => ViolationsAnswered'
    /\ last'.do # "Decide" => BranchesAsHeld'
    /\ last'.do # "BranchTo" => SkippedCallReturns'
BY DEF ViolationsAnswered, BranchesAsHeld, SkippedCallReturns, Deciding

\* Tasks that do something on the side and go on.
LEMMA SideStep ==
    ASSUME ContextInv, Running, last' = Now, Goes(Rest), wrote' = wrote,
           StoreTyped', KeepsUntouchable, buf' \in Values, steer' \in BOOLEAN, steer => steer',
           UNCHANGED answers, Plain(todo[1]),
           todo[1].do \notin {"Fetch", "Decide", "BranchTo"}
    PROVE  ContextInv'
<1>1. /\ todo' = Tail(todo) /\ (Running' <=> todo' # <<>>) /\ outcome' \in {"Running", "Next"}
      /\ todo # <<>> /\ last' = todo[1]
  BY Current, GoesOn
<1>2. WellFormed(todo') /\ WritesLast' /\ StackPopped'
  BY <1>1, RestKept
<1>3. Asked(todo', answers')
  <2>1. AllPlain(Tail(todo)) BY <1>1, Current, AskedPlain DEF ContextInv
  <2> QED BY <1>1, <2>1 DEF Asked
<1>4. ConditionHeld'
  <2>1. todo[1].do # "Refetch" BY DEF Plain, Deciding
  <2> QED BY <1>1, <2>1, NoDecision
<1>5. FailsClean'
  BY <1>1 DEF FailsClean
<1>6. ViolationsAnswered' /\ BranchesAsHeld' /\ SkippedCallReturns'
  BY <1>1, OtherTask DEF Plain
<1>7. outcome' \in {"Running", "Next", "Branch", "Halt", "Error", "Panic"}
  BY <1>1
<1> QED
  BY <1>1, <1>2, <1>3, <1>4, <1>5, <1>6, <1>7, Current, Assembled

\* Tasks that end the operation.
LEMMA EndStep ==
    ASSUME ContextInv, Running, last' = Now, NEW result \in {"Branch", "Halt", "Error", "Panic"},
           Ends(result), wrote' = wrote, StoreTyped', buf' \in Values, steer' \in BOOLEAN,
           steer => steer', answers' \in Seq(Answer), Len(answers') <= NumHooks,
           ViolationsAnswered', BranchesAsHeld', SkippedCallReturns'
    PROVE  ContextInv'
<1>1. todo' = <<>> /\ outcome' = result /\ ~Running' /\ todo # <<>> /\ last' = todo[1]
  BY Current DEF Ends, Running
<1>2. FailsClean'
  BY <1>1, FailureClean
<1> QED
  BY <1>1, <1>2, EndKept, Current, Assembled

\* Lists put in place of the last task, or begun with.
LEMMA FreshKept ==
    ASSUME Fresh(todo'), wrote' = {}
    PROVE  /\ WellFormed(todo') /\ WritesLast' /\ StackPopped' /\ ConditionHeld'
           /\ Asked(todo', answers') /\ todo' # <<>>
<1>1. /\ WellFormed(todo') /\ AllPlain(todo') /\ todo' # <<>> /\ todo'[1].do # "Decide"
      /\ \A j, k \in DOMAIN todo' : todo'[j].do = "BranchTo" => todo'[k].do \notin Storing
  BY DEF Fresh
<1>2. WritesLast'
  BY <1>1 DEF WritesLast
<1>3. StackPopped'
  BY <1>1 DEF StackPopped, Storing
<1>4. ConditionHeld'
  BY <1>1 DEF ConditionHeld
<1> QED BY <1>1, <1>2, <1>3, <1>4 DEF Asked

LEMMA HookFailsStep == ContextInv /\ Running /\ last' = Now /\ HookFails => ContextInv'
<1> SUFFICES ASSUME ContextInv, Running, last' = Now, HookFails PROVE ContextInv'
  OBVIOUS
<1>1. /\ Ends("Error") /\ HookChanges /\ UNCHANGED <<buf, answers, steer, wrote>>
      /\ last'.do \in {"ReadHook", "WriteHook", "InvalidHook", "CBranchHook", "CallHook"}
  BY DEF HookFails, Doing
<1>2. ViolationsAnswered' /\ BranchesAsHeld' /\ SkippedCallReturns'
  BY <1>1, OtherTask DEF Deciding
<1> QED BY <1>1, <1>2, HooksType, Current, EndStep

LEMMA AccessHookStep == ContextInv /\ Running /\ last' = Now /\ AccessHook => ContextInv'
<1> SUFFICES ASSUME ContextInv, Running, last' = Now, AccessHook PROVE ContextInv'
  OBVIOUS
<1>1. /\ Goes(Rest) /\ HookChanges /\ UNCHANGED <<buf, answers, steer, wrote>>
      /\ todo[1].do \in {"ReadHook", "WriteHook"}
  BY Current DEF AccessHook, Doing
<1>2. Plain(todo[1]) /\ todo[1].do \notin {"Fetch", "Decide", "BranchTo"}
  BY <1>1 DEF Plain, Deciding
<1> QED BY <1>1, <1>2, HooksType, Current, SideStep

LEMMA SteerHookStep == ContextInv /\ Running /\ last' = Now /\ SteerHook => ContextInv'
<1> SUFFICES ASSUME ContextInv, Running, last' = Now, SteerHook PROVE ContextInv'
  OBVIOUS
<1>1. /\ HookChanges /\ UNCHANGED <<buf, answers, wrote>>
      /\ todo[1].do \in {"CBranchHook", "CallHook"} /\ last' = todo[1]
  BY Current DEF SteerHook, Doing
<1>2. /\ Plain(todo[1]) /\ todo[1].do \notin {"Fetch", "Decide", "BranchTo"}
      /\ todo[1].do \notin Deciding
  BY <1>1 DEF Plain, Deciding
<1>3. \/ Goes(Rest) /\ (steer' = steer \/ steer' = TRUE)
      \/ Ends("Halt") /\ steer' = steer
  BY DEF SteerHook
<1>4. CASE Goes(Rest) /\ (steer' = steer \/ steer' = TRUE)
  <2>1. CASE steer' = steer
    BY <1>1, <1>2, <1>4, <2>1, HooksType, Current, SideStep
  <2>2. CASE steer' = TRUE
    <3>1. steer' \in BOOLEAN /\ (steer => steer') BY <2>2
    <3> QED BY <1>1, <1>2, <1>4, <3>1, HooksType, Current, SideStep
  <2> QED BY <1>4, <2>1, <2>2
<1>5. CASE Ends("Halt") /\ steer' = steer
  <2>1. ViolationsAnswered' /\ BranchesAsHeld' /\ SkippedCallReturns'
    BY <1>1, <1>2, OtherTask
  <2> QED BY <1>1, <1>5, <2>1, HooksType, Current, EndStep
<1> QED BY <1>3, <1>4, <1>5

LEMMA InvalidHookStep == ContextInv /\ Running /\ last' = Now /\ InvalidHook => ContextInv'
<1> SUFFICES ASSUME ContextInv, Running, last' = Now, InvalidHook PROVE ContextInv'
  OBVIOUS
<1>1. /\ HookChanges /\ Goes(Rest) /\ UNCHANGED <<buf, steer, wrote>>
      /\ todo[1].do = "InvalidHook" /\ last' = todo[1] /\ todo # <<>> /\ todo \in Seq(TaskSet)
  BY Current DEF InvalidHook, Doing
<1>2. PICK a \in Answer : /\ answers' = Append(answers, a)
                          /\ todo[1].hook \in Policies => a = PolicyAnswer(todo[1].via)
  <2>1. Top \in Values /\ 0 \in Values
    BY ConcreteAssumption DEF Values
  <2>2. PolicyAnswer(todo[1].via) \in Answer /\ Answers \subseteq Answer
    BY <2>1 DEF PolicyAnswer, Answer, Answers
  <2> QED BY <2>2, Current DEF InvalidHook
<1>3. Asked(todo', answers') /\ Len(answers) < NumHooks
  <2>1. Asked(todo, answers) /\ answers \in Seq(Answer) BY Current DEF ContextInv
  <2>2. Asked(Tail(todo), Append(answers, a)) /\ Len(answers) < NumHooks
    BY <1>1, <1>2, <2>1, AskedNext
  <2>3. todo' = Tail(todo) BY <1>1, Current, GoesOn
  <2> QED BY <1>2, <2>2, <2>3
<1>4. /\ todo' = Tail(todo) /\ (Running' <=> todo' # <<>>) /\ outcome' \in {"Running", "Next"}
  BY Current, <1>1, GoesOn
<1>5. WellFormed(todo') /\ WritesLast' /\ StackPopped' /\ ConditionHeld'
  <2>1. StoreTyped' /\ KeepsUntouchable /\ wrote' = wrote /\ (steer => steer')
    BY <1>1, HooksType
  <2> QED BY <1>1, <1>4, <2>1, RestKept, NoDecision
<1>6. FailsClean'
  BY <1>4 DEF FailsClean
<1>7. ViolationsAnswered' /\ BranchesAsHeld' /\ SkippedCallReturns'
  BY <1>1, OtherTask DEF Deciding
<1>8. answers' \in Seq(Answer) /\ Len(answers') <= NumHooks
  <2>1. answers \in Seq(Answer) /\ NumHooks \in Nat BY Current, ConcreteAssumption
  <2> QED BY <1>2, <1>3, <2>1
<1>9. outcome' \in {"Running", "Next", "Branch", "Halt", "Error", "Panic"}
  BY <1>4
<1> QED
  BY <1>1, <1>3, <1>4, <1>5, <1>6, <1>7, <1>8, <1>9, HooksType, Current, Assembled

LEMMA SidewardStep ==
    ContextInv /\ Running /\ last' = Now /\ (Sized \/ Compute \/ Divide \/ Aim \/ Handle)
        => ContextInv'
<1> SUFFICES ASSUME ContextInv, Running, last' = Now, Sized \/ Compute \/ Divide \/ Aim \/ Handle
             PROVE  ContextInv'
  OBVIOUS
<1>1. /\ UNCHANGED <<store, answers, steer, wrote>>
      /\ todo[1].do \in {"Size", "Compute", "Divide", "Aim", "Handle"} /\ last' = todo[1]
  BY Current DEF Sized, Compute, Divide, Aim, Handle, Doing
<1>2. buf' \in Values
  <2>1. Now.on.space = "Address" => Now.on.at \in Values
    BY Current DEF Operands, Places, Cells, Cell, Reg, Const
  <2> QED BY <2>1, Current DEF Sized, Compute, Divide, Aim, Handle
<1>3. Goes(Rest) \/ Ends("Error")
  BY DEF Sized, Compute, Divide, Aim, Handle
<1>4. /\ Plain(todo[1]) /\ todo[1].do \notin {"Fetch", "Decide", "BranchTo"}
      /\ todo[1].do \notin Deciding
  BY <1>1 DEF Plain, Deciding
<1>5. StoreTyped' /\ KeepsUntouchable /\ steer' \in BOOLEAN
  BY <1>1, Current DEF StoreTyped, KeepsUntouchable
<1>6. CASE Goes(Rest)
  BY <1>1, <1>2, <1>4, <1>5, <1>6, SideStep
<1>7. CASE Ends("Error")
  <2>1. ViolationsAnswered' /\ BranchesAsHeld' /\ SkippedCallReturns'
    BY <1>1, <1>4, OtherTask
  <2> QED BY <1>1, <1>2, <1>5, <1>7, <2>1, Current, EndStep
<1> QED BY <1>3, <1>6, <1>7

LEMMA DereferenceStep == ContextInv /\ Running /\ last' = Now /\ Dereference => ContextInv'
<1> SUFFICES ASSUME ContextInv, Running, last' = Now, Dereference PROVE ContextInv'
  OBVIOUS
<1>1. /\ UNCHANGED <<store, buf, answers, steer, wrote>>
      /\ todo[1].do \in {"LoadFrom", "StoreTo"} /\ last' = todo[1]
  BY Current DEF Dereference, Doing
<1>2. Cell(buf) \in Operands /\ Now.on \in Operands
  BY Current DEF Operands, Places, Cells
<1>3. PICK tasks : Fresh(tasks) /\ Goes(tasks)
  BY <1>2, FreshCopy DEF Dereference
<1>4. todo' = tasks /\ (Running' <=> todo' # <<>>) /\ outcome' \in {"Running", "Next"}
  BY <1>3, GoesOn
<1>5. wrote = {}
  <2>1. 1 \in DOMAIN todo BY Current
  <2> QED BY <1>1, <2>1 DEF ContextInv, WritesLast
<1>6. /\ WellFormed(todo') /\ WritesLast' /\ StackPopped' /\ ConditionHeld'
      /\ Asked(todo', answers')
  BY <1>1, <1>3, <1>4, <1>5, FreshKept
<1>7. FailsClean' /\ outcome' \in {"Running", "Next", "Branch", "Halt", "Error", "Panic"}
  BY <1>4 DEF FailsClean
<1>8. ViolationsAnswered' /\ BranchesAsHeld' /\ SkippedCallReturns'
  BY <1>1, OtherTask DEF Deciding
<1>9. StoreTyped'
  BY <1>1, Current DEF StoreTyped
<1> QED BY <1>1, <1>4, <1>6, <1>7, <1>8, <1>9, Current, Assembled

LEMMA JumpStep == ContextInv /\ Running /\ last' = Now /\ Jump => ContextInv'
<1> SUFFICES ASSUME ContextInv, Running, last' = Now, Jump PROVE ContextInv'
  OBVIOUS
<1>1. /\ UNCHANGED <<store, answers, steer, wrote>>
      /\ todo[1].do \in {"Jump", "BranchTo"} /\ last' = todo[1] /\ todo[1].do \notin Deciding
  BY Current DEF Jump, Doing, Deciding
<1>2. \/ Ends("Branch") /\ todo[1].do = "Jump" /\ buf' = buf
      \/ Ends("Branch") /\ todo[1].do = "BranchTo" /\ todo[1].on.space # "Register"
         /\ buf' = todo[1].on.at
      \/ Ends("Error") /\ buf' = buf
  BY Current DEF Jump, Doing
<1>3. todo[1].on.space # "Register" => todo[1].on.at \in Values
  BY Current DEF Operands, Places, Cells, Cell, Reg, Const
<1>4. StoreTyped' /\ steer' \in BOOLEAN /\ buf' \in Values
  BY <1>1, <1>2, <1>3, Current DEF StoreTyped
<1>5. ViolationsAnswered' /\ BranchesAsHeld'
  BY <1>1, OtherTask
<1>6. SkippedCallReturns'
  <2>1. CASE todo[1].do = "Jump" \/ outcome' = "Error"
    BY <1>1, <2>1 DEF SkippedCallReturns
  <2>2. CASE todo[1].do = "BranchTo" /\ buf' = todo[1].on.at
    <3> DEFINE sp == store[Reg("sp")]
    <3>1. 1 \in DOMAIN todo BY Current
    <3>2. Reg("sp") \in wrote /\ LeftAlone(Unpopped(sp)) => Returns(todo[1], Unpopped(sp))
      BY <2>2, <3>1 DEF ContextInv, StackPopped
    <3>3. Reg("sp") \in wrote' /\ LeftAlone(Unpopped(sp)) => buf' = Value(ReturnLocation(Unpopped(sp)))
      BY <1>1, <2>2, <3>2 DEF Returns, Cell
    <3>4. store' = store
      BY <1>1
    <3> QED BY <3>3, <3>4 DEF SkippedCallReturns, LeftAlone, Unpopped, Value
  <2> QED BY <1>2, <2>1, <2>2 DEF Ends
<1>7. CASE Ends("Branch")
  BY <1>1, <1>4, <1>5, <1>6, <1>7, Current, EndStep
<1>8. CASE Ends("Error")
  BY <1>1, <1>4, <1>5, <1>6, <1>8, Current, EndStep
<1> QED BY <1>2, <1>7, <1>8

\* A place is a register or a cell, never a constant.
LEMMA PlaceKinds ==
    ASSUME NEW o \in Operands
    PROVE  /\ o \in Places <=> o.space # "Constant"
           /\ o.space = "Constant" => o.at \in Values
BY DEF Operands, Places, Cells, Cell, Reg, Const

LEMMA ValueTyped ==
    ASSUME StoreTyped, NEW o \in Operands, Valid(o)
    PROVE  Value(o) \in Values
<1>1. CASE o.space = "Constant"
  BY <1>1, PlaceKinds DEF Value
<1>2. CASE o.space # "Constant"
  BY <1>2, PlaceKinds DEF Value, Valid, StoreTyped
<1> QED BY <1>1, <1>2

LEMMA StoredTyped ==
    ASSUME StoreTyped, NEW o \in Places, NEW v \in Values, store' = [store EXCEPT ![o] = v]
    PROVE  StoreTyped'
<1>1. store' \in [Places -> Values \cup {Unmapped}]
  BY DEF StoreTyped
<1>2. ASSUME NEW r \in Registers PROVE store'[Reg(r)] \in Values
  <2>1. Reg(r) \in Places BY DEF Places
  <2> QED BY <2>1 DEF StoreTyped
<1> QED BY <1>1, <1>2 DEF StoreTyped

LEMMA DecideStep == ContextInv /\ Running /\ last' = Now /\ Decide => ContextInv'
<1> SUFFICES ASSUME ContextInv, Running, last' = Now, Decide PROVE ContextInv'
  OBVIOUS
<1> DEFINE o == todo[1].on
           list(v) == IF v # 0 THEN Tail(todo) ELSE <<>>
<1>1. /\ UNCHANGED <<buf, answers, steer>> /\ todo[1].do = "Decide" /\ last' = todo[1]
      /\ todo # <<>> /\ 1 \in DOMAIN todo /\ o \in Operands
  BY Current DEF Decide, Doing
<1>2. Tail(todo) # <<>>
  <2>1. Len(todo) # 1 BY <1>1 DEF ContextInv, Typed, WellFormed, DecideFetched
  <2>2. Len(Tail(todo)) = Len(todo) - 1 /\ Len(todo) \in Nat \ {0}
    BY <1>1, Current, RestOf
  <2>3. Len(Tail(todo)) # 0 BY <2>1, <2>2
  <2>4. Len(<<>>) = 0 OBVIOUS
  <2> QED BY ONLY <2>3, <2>4, Zenon
<1>3. \A v : list(v) # <<>> <=> v # 0
  BY <1>2
<1>4. ViolationsAnswered' /\ SkippedCallReturns'
  BY <1>1, OtherTask DEF Deciding
<1>5. ASSUME NEW v, Goes(list(v))
      PROVE  /\ todo' \in {Tail(todo), <<>>} /\ (Running' <=> todo' # <<>>) /\ (Running' <=> v # 0)
             /\ outcome' \in {"Running", "Next"} /\ Asked(todo', answers') /\ ConditionHeld'
             /\ FailsClean' /\ outcome' \in {"Running", "Next", "Branch", "Halt", "Error", "Panic"}
  <2>0. list(v) \in {Tail(todo), <<>>} /\ (list(v) # <<>> <=> v # 0)
    BY <1>3
  <2> HIDE DEF list
  <2>1. /\ todo' = list(v) /\ (Running' <=> todo' # <<>>) /\ outcome' \in {"Running", "Next"}
    BY <1>5, GoesOn
  <2>2. todo' \in {Tail(todo), <<>>}
    BY <2>0, <2>1
  <2>3. Asked(todo', answers') /\ ConditionHeld'
    <3>1. CASE todo' = <<>> BY <3>1, EndKept
    <3>2. CASE todo' = Tail(todo)
      <4>1. AllPlain(Tail(todo))
        BY <1>1, Current, AskedPlain DEF ContextInv, Plain, Deciding
      <4> QED BY <1>1, <3>2, <4>1, NoDecision DEF Asked
    <3> QED BY <2>2, <3>1, <3>2
  <2> QED BY <2>0, <2>1, <2>2, <2>3 DEF FailsClean
<1> HIDE DEF list
<1>6. CASE ~steer /\ Goes(list(buf)) /\ UNCHANGED <<store, wrote>>
  <2>1. WellFormed(todo') /\ WritesLast' /\ StackPopped'
    <3>1. CASE todo' = <<>> BY <3>1, EndKept
    <3>2. CASE todo' = Tail(todo)
      <4>1. KeepsUntouchable BY <1>6 DEF KeepsUntouchable
      <4> QED BY <1>1, <1>6, <3>2, <4>1, RestKept
    <3> QED BY <1>5, <1>6, <3>1, <3>2
  <2>2. BranchesAsHeld'
    <3>1. answers = <<>> => buf = Value(o)
      BY <1>1 DEF ContextInv, ConditionHeld
    <3>2. Value(last.on)' = Value(o)
      BY <1>1, <1>6 DEF Value
    <3>3. steer' = steer /\ answers' = answers
      BY <1>1
    <3>4. Running' <=> buf # 0
      BY <1>5, <1>6
    <3>5. answers' = <<>> => (Running' <=> Value(last.on)' # 0)
      BY <3>1, <3>2, <3>3, <3>4
    <3> QED BY <1>6, <3>3, <3>5 DEF BranchesAsHeld
  <2>3. StoreTyped' /\ wrote' \subseteq Places
    BY <1>6, Current DEF StoreTyped
  <2> QED BY <1>1, <1>4, <1>5, <1>6, <2>1, <2>2, <2>3, Current, Assembled
<1>7. CASE steer /\ Flipped(Negated(buf))
  <2> DEFINE v == Negated(buf)
  <2>1. v \in Values
    BY ConcreteAssumption DEF Negated, Values
  <2>2. \/ Ends("Panic") /\ UNCHANGED <<store, wrote>>
        \/ Ends("Error") /\ UNCHANGED <<store, wrote>>
        \/ /\ o.space # "Constant" /\ store' = [store EXCEPT ![o] = v]
           /\ wrote' = wrote \cup {o} /\ Goes(list(v))
    BY <1>7, Current DEF Flipped, Put, list
  <2> HIDE DEF v
  <2>3. ASSUME UNCHANGED <<store, wrote>>, outcome' \in {"Panic", "Error"}
        PROVE  StoreTyped' /\ BranchesAsHeld'
    BY <2>3, Current DEF StoreTyped, BranchesAsHeld
  <2>4. CASE Ends("Panic") /\ UNCHANGED <<store, wrote>>
    <3>1. outcome' \in {"Panic", "Error"} BY <2>4 DEF Ends
    <3> QED BY <1>1, <1>4, <2>3, <2>4, <3>1, Current, EndStep
  <2>5. CASE Ends("Error") /\ UNCHANGED <<store, wrote>>
    <3>1. outcome' \in {"Panic", "Error"} BY <2>5 DEF Ends
    <3> QED BY <1>1, <1>4, <2>3, <2>5, <3>1, Current, EndStep
  <2>6. CASE /\ o.space # "Constant" /\ store' = [store EXCEPT ![o] = v]
             /\ wrote' = wrote \cup {o} /\ Goes(list(v))
    <3>1. o \in Places BY <1>1, <2>6, PlaceKinds
    <3>2. WellFormed(todo') /\ WritesLast' /\ StackPopped'
      BY <1>1, <1>5, <1>7, <2>6, FlipKept
    <3>3. StoreTyped' /\ wrote' \subseteq Places
      BY <2>1, <2>6, <3>1, Current, StoredTyped
    <3>4. BranchesAsHeld'
      <4>1. store'[o] = v
        BY <2>6, <3>1, Current DEF StoreTyped
      <4>2. last'.on = o /\ (Running' <=> v # 0)
        BY <1>1, <1>5, <2>6
      <4>3. Running' <=> Value(last.on)' # 0
        BY <2>6, <4>1, <4>2 DEF Value
      <4> QED BY <4>3 DEF BranchesAsHeld
    <3> QED BY <1>1, <1>4, <1>5, <2>6, <3>2, <3>3, <3>4, Current, Assembled
  <2> QED BY <2>2, <2>4, <2>5, <2>6
<1> QED
  BY <1>6, <1>7, Current DEF Decide, list

\* An access that fails is asked about before anything else is done.
LEMMA AskKept ==
    ASSUME ContextInv, Running, NEW via \in Vias, NEW decide \in Deciding, Asking(via, decide),
           \/ todo[1].do = "Fetch" /\ decide = "Refetch" /\ via = todo[1].via
           \/ todo[1].do = "Store" /\ decide = "Restore" /\ via = "Write",
           ~Valid(todo[1].on), store' = store, wrote' = wrote, steer' = steer, answers' = <<>>
    PROVE  /\ WellFormed(todo') /\ WritesLast' /\ StackPopped' /\ ConditionHeld'
           /\ Asked(todo', answers')
           /\ (Running' <=> todo' # <<>>) /\ outcome' \in {"Running", "Next"}
<1> DEFINE t == [todo[1] EXCEPT !.do = decide]
           r == Tail(todo)
           s == ForHooks("InvalidHook", todo[1].on, via) \o <<t>> \o r
           n == NumHooks
<1>1. /\ todo \in Seq(TaskSet) /\ todo # <<>> /\ todo[1] \in TaskSet /\ todo[1].on \in Operands
      /\ r \in Seq(TaskSet) /\ Len(r) = Len(todo) - 1 /\ Len(todo) \in Nat \ {0}
      /\ 1 \in DOMAIN todo /\ DOMAIN todo = 1..Len(todo) /\ DOMAIN r = 1..(Len(todo) - 1)
      /\ \A j \in DOMAIN r : j + 1 \in DOMAIN todo /\ r[j] = todo[j + 1]
  BY Current, RestOf
<1>2. /\ t \in TaskSet /\ t.do = decide /\ t.on = todo[1].on /\ via = Via(t)
  BY <1>1 DEF TaskSet, Deciding, Kinds, Via
<1>3. AllPlain(r)
  <2>1. Asked(todo, answers) /\ answers \in Seq(Answer) BY Current DEF ContextInv
  <2>2. Plain(todo[1]) BY DEF Plain, Deciding
  <2> QED BY <1>1, <2>1, <2>2, AskedPlain
<1>4. todo' = s /\ (Running' <=> todo' # <<>>) /\ outcome' \in {"Running", "Next"}
  <2>1. Goes(s) BY Current DEF Asking
  <2> HIDE DEF s
  <2> QED BY <2>1, GoesOn
<1>41. s = ForHooks("InvalidHook", todo[1].on, via) \o <<t>> \o r /\ n = NumHooks
  OBVIOUS
<1> HIDE DEF t, r, s, n
<1>5. /\ s \in Seq(TaskSet) /\ s # <<>> /\ Asked(s, <<>>) /\ n \in Nat
      /\ Len(s) = n + 1 + Len(r)
      /\ \A j \in 1..n : s[j].do = "InvalidHook"
      /\ s[n + 1] = t
      /\ \A j \in DOMAIN r : s[n + 1 + j] = r[j]
  <2>1. t.do \in Deciding /\ via \in Vias /\ NumHooks \in Nat
    BY <1>2, ConcreteAssumption
  <2>2. todo[1].on \in Operands /\ r \in Seq(TaskSet) /\ t \in TaskSet /\ via = Via(t)
    BY <1>1, <1>2
  <2>3. AskedBefore(s, t, r)
    BY ONLY <1>3, <1>41, <2>1, <2>2, AskedFirst
  <2> QED BY <1>41, <2>1, <2>3 DEF AskedBefore
<1>6. Len(s) = n + Len(todo) /\ DOMAIN s = 1..(n + Len(todo))
  BY <1>1, <1>5
<1>7. ASSUME NEW j \in DOMAIN s
      PROVE  \/ j \in 1..n /\ s[j].do = "InvalidHook"
             \/ j = n + 1 /\ s[j] = t
             \/ j > n + 1 /\ j - n \in DOMAIN todo /\ j - n > 1 /\ s[j] = todo[j - n]
  <2>1. CASE j \in 1..n BY <1>5, <2>1
  <2>2. CASE j = n + 1 BY <1>5, <2>2
  <2>3. CASE j \notin 1..n /\ j # n + 1
    <3>1. /\ j - (n + 1) \in DOMAIN r /\ n + 1 + (j - (n + 1)) = j /\ (j - (n + 1)) + 1 = j - n
          /\ j > n + 1 /\ j - n > 1
      <4> DEFINE m == Len(todo)
      <4>1. m \in Nat \ {0} /\ n \in Nat /\ j \in 1..(n + m) /\ DOMAIN r = 1..(m - 1)
        BY <1>1, <1>5, <1>6
      <4> HIDE DEF m
      <4> QED BY ONLY <4>1, <2>3
    <3> QED BY <1>1, <1>5, <3>1
  <2> QED BY <2>1, <2>2, <2>3
<1>8. Ordered(s)
  <2> SUFFICES ASSUME NEW j \in DOMAIN s, NEW k \in DOMAIN s, j < k
               PROVE  MayFollow(s[j].do, s[k].do)
    BY DEF Ordered
  <2>1. CASE j \in 1..n /\ s[j].do = "InvalidHook"
    BY <2>1 DEF MayFollow, Final, Storing
  <2>2. j >= n + 1 => k - n \in DOMAIN todo /\ k - n > 1 /\ s[k] = todo[k - n]
    BY <1>5, <1>6, <1>7
  <2>3. CASE j = n + 1 /\ s[j] = t
    <3>0. n + 1 >= n + 1 /\ 1 \in DOMAIN todo BY <1>1, <1>5
    <3>1. MayFollow(todo[1].do, s[k].do)
      BY <2>2, <2>3, <3>0 DEF ContextInv, Typed, WellFormed, Ordered
    <3> QED BY <1>2, <2>3, <3>1 DEF MayFollow, Final, Storing
  <2>4. CASE j > n + 1 /\ j - n \in DOMAIN todo /\ s[j] = todo[j - n]
    <3>1. j - n < k - n /\ j >= n + 1 BY <1>5, <1>6, <2>4
    <3> QED BY <2>2, <2>4, <3>1 DEF ContextInv, Typed, WellFormed, Ordered
  <2> QED BY <1>7, <2>1, <2>3, <2>4
<1>9. DecideFetched(s)
  <2> SUFFICES ASSUME NEW j \in DOMAIN s, s[j].do = "Decide"
               PROVE  /\ j # Len(s) /\ s[j].on # Reg("sp")
                      /\ j # 1 => s[j - 1].do \in {"Fetch", "Refetch"} /\ s[j - 1].on = s[j].on
    BY DEF DecideFetched
  <2>1. j > n + 1 /\ j - n \in DOMAIN todo /\ j - n > 1 /\ s[j] = todo[j - n]
    BY <1>2, <1>7 DEF Deciding
  <2>2. /\ j - n # Len(todo) /\ s[j].on # Reg("sp")
        /\ todo[(j - n) - 1].do \in {"Fetch", "Refetch"} /\ todo[(j - n) - 1].on = s[j].on
    BY <2>1 DEF ContextInv, Typed, WellFormed, DecideFetched
  <2>3. j - 1 \in DOMAIN s /\ (j - n) - 1 = (j - 1) - n /\ j - 1 \notin 1..n /\ j # Len(s)
    <3> DEFINE m == Len(todo)
    <3>1. m \in Nat /\ n \in Nat /\ DOMAIN s = 1..(n + m) /\ Len(s) = n + m
      BY <1>1, <1>5, <1>6
    <3>2. j \in 1..(n + m) /\ j > n + 1 /\ j - n # m
      BY <2>1, <2>2, <3>1
    <3> HIDE DEF m
    <3> QED BY ONLY <3>1, <3>2
  <2>4. CASE j - 1 = n + 1
    <3>1. (j - n) - 1 = 1 /\ s[j - 1] = t BY <1>5, <1>6, <2>4
    <3> QED BY <1>2, <2>2, <2>3, <3>1
  <2>5. CASE j - 1 # n + 1
    BY <1>7, <2>2, <2>3, <2>5
  <2> QED BY <2>4, <2>5
<1>10. wrote = {}
  BY <1>1 DEF ContextInv, WritesLast
<1>11. ASSUME NEW k \in DOMAIN s, s[k].do = "BranchTo"
       PROVE  k - n \in DOMAIN todo /\ s[k] = todo[k - n]
  BY <1>2, <1>7, <1>11 DEF Deciding
<1>12. WritesLast'
  <2>1. ASSUME NEW k \in DOMAIN s, s[k].do = "BranchTo", NEW j \in DOMAIN s, s[j].do \in Storing
        PROVE  steer
    <3>1. k - n \in DOMAIN todo /\ todo[k - n].do = "BranchTo" BY <1>11, <2>1
    <3>2. \E i \in DOMAIN todo : todo[i].do \in Storing
      BY <1>1, <1>2, <1>7, <2>1 DEF Storing
    <3> QED BY <3>1, <3>2 DEF ContextInv, WritesLast
  <2> QED BY <1>4, <1>10, <2>1 DEF WritesLast
<1>13. StackPopped'
  <2> SUFFICES ASSUME NEW b \in DOMAIN s, s[b].do = "BranchTo"
               PROVE  \A j \in DOMAIN s : s[j].do # "Restore" /\ s[j].do # "Store"
    BY <1>4, <1>10 DEF StackPopped
  <2>1. /\ \A j \in DOMAIN todo : todo[j].do # "Restore"
        /\ \A j \in DOMAIN todo : todo[j].do = "Store" => j = 1 /\ todo[j].on = Reg("sp")
    BY <1>11 DEF ContextInv, StackPopped
  <2>2. todo[1].do = "Fetch"
    <3>1. Valid(Reg("sp"))
      BY Current, ConcreteAssumption DEF StoreTyped, Valid, Values, Unmapped
    <3> QED BY <1>1, <2>1, <3>1
  <2> QED BY <1>2, <1>7, <2>1, <2>2
<1>14. ConditionHeld'
  <2>1. 1 \in DOMAIN s BY <1>1, <1>5, <1>6
  <2>2. s[1].do # "Decide"
    BY <1>2, <1>5, <1>7, <2>1 DEF Deciding
  <2> QED BY <1>4, <2>2 DEF ConditionHeld
<1>15. WellFormed(s)
  BY <1>5, <1>8, <1>9 DEF WellFormed
<1> QED BY <1>4, <1>5, <1>12, <1>13, <1>14, <1>15

\* A set of indices that is not empty has a largest element.
LEMMA LargestExists ==
    ASSUME NEW n \in Nat, NEW T \in SUBSET (1..n), T # {}
    PROVE  \E x \in T : \A y \in T : x >= y
<1> DEFINE R == {ss \in Nat \X Nat : ss[1] < ss[2]}
           D == {n - x : x \in T}
<1>1. IsWellFoundedOn(R, Nat)
  BY NatLessThanWellFounded DEF OpToRel
<1>2. D \subseteq Nat /\ D # {}
  <2>1. ASSUME NEW x \in T PROVE n - x \in Nat /\ n - x \in D OBVIOUS
  <2>2. PICK x \in T : TRUE OBVIOUS
  <2> QED BY <2>1, <2>2
<1>3. \A x, y \in Nat : x < y => <<x, y>> \in R
  OBVIOUS
<1> HIDE DEF R
<1>4. PICK d \in D : \A e \in D : ~(<<e, d>> \in R)
  BY <1>1, <1>2, WFMin
<1>5. PICK x \in T : d = n - x
  OBVIOUS
<1>6. ASSUME NEW y \in T PROVE x >= y
  <2>1. n - y \in D /\ n - y \in Nat /\ d \in Nat OBVIOUS
  <2>2. ~(n - y < d) BY <1>2, <1>3, <1>4, <2>1
  <2> QED BY <1>5, <2>2
<1> QED BY <1>6

LEMMA LargestIs ==
    ASSUME NEW n \in Nat, NEW T \in SUBSET (1..n), T # {}
    PROVE  Max(T) \in T /\ \A y \in T : Max(T) >= y
BY LargestExists DEF Max

\* The condition is what was read last when a decision follows.
LEMMA ConditionRead ==
    ASSUME ContextInv, todo # <<>>, todo' = Tail(todo), store' = store, buf' = Value(todo[1].on)
    PROVE  ConditionHeld'
<1> SUFFICES ASSUME Tail(todo) # <<>>, Tail(todo)[1].do = "Decide"
             PROVE  buf' = Value(todo[1].on)'
  BY DEF ConditionHeld
<1>1. todo \in Seq(TaskSet)
  BY DEF ContextInv, Typed, WellFormed
<1>2. 1 \in DOMAIN Tail(todo) /\ 1 + 1 = 2 /\ 2 - 1 = 1
  BY <1>1
<1>3. 2 \in DOMAIN todo /\ todo[2] = Tail(todo)[1] /\ 2 # 1
  BY <1>1, <1>2, RestOf
<1>4. todo[1].on = Tail(todo)[1].on
  BY <1>2, <1>3 DEF ContextInv, Typed, WellFormed, DecideFetched
<1> QED BY <1>4 DEF Value

LEMMA FetchStep == ContextInv /\ Running /\ last' = Now /\ Fetch => ContextInv'
<1> SUFFICES ASSUME ContextInv, Running, last' = Now, Fetch PROVE ContextInv'
  OBVIOUS
<1>1. /\ UNCHANGED <<store, steer, wrote>> /\ answers' = <<>>
      /\ todo[1].do = "Fetch" /\ last' = todo[1] /\ todo # <<>>
      /\ todo[1].via \in Vias /\ todo[1].on \in Operands
  BY Current DEF Fetch, Doing
<1>2. ViolationsAnswered' /\ BranchesAsHeld' /\ SkippedCallReturns'
  BY <1>1, OtherTask DEF Deciding
<1>3. StoreTyped' /\ KeepsUntouchable /\ answers' \in Seq(Answer) /\ Len(answers') <= NumHooks
  <2>1. <<>> \in Seq(Answer) /\ Len(<<>>) = 0 /\ 0 <= NumHooks BY ConcreteAssumption
  <2> QED BY <1>1, <2>1, Current DEF StoreTyped, KeepsUntouchable
<1>4. \/ Valid(todo[1].on) /\ buf' = Value(todo[1].on) /\ Goes(Rest)
      \/ ~Valid(todo[1].on) /\ Asking(todo[1].via, "Refetch") /\ buf' = buf
  BY Current DEF Fetch
<1>5. CASE Valid(todo[1].on) /\ buf' = Value(todo[1].on) /\ Goes(Rest)
  <2>1. todo' = Tail(todo) /\ (Running' <=> todo' # <<>>) /\ outcome' \in {"Running", "Next"}
    BY <1>5, Current, GoesOn
  <2>2. WellFormed(todo') /\ WritesLast' /\ StackPopped'
    BY <1>1, <1>3, <2>1, RestKept
  <2>3. Asked(todo', answers')
    <3>1. AllPlain(Tail(todo))
      BY <1>1, Current, AskedPlain DEF ContextInv, Plain, Deciding
    <3> QED BY <2>1, <3>1 DEF Asked
  <2>4. ConditionHeld'
    BY <1>1, <1>5, <2>1, ConditionRead
  <2>5. buf' \in Values
    BY <1>1, <1>5, Current, ValueTyped
  <2>6. FailsClean' /\ outcome' \in {"Running", "Next", "Branch", "Halt", "Error", "Panic"}
    BY <2>1 DEF FailsClean
  <2> QED BY <1>1, <1>2, <1>3, <2>1, <2>2, <2>3, <2>4, <2>5, <2>6, Current, Assembled
<1>6. CASE ~Valid(todo[1].on) /\ Asking(todo[1].via, "Refetch") /\ buf' = buf
  <2>1. "Refetch" \in Deciding BY DEF Deciding
  <2>2. /\ WellFormed(todo') /\ WritesLast' /\ StackPopped' /\ ConditionHeld'
        /\ Asked(todo', answers')
        /\ (Running' <=> todo' # <<>>) /\ outcome' \in {"Running", "Next"}
    BY <1>1, <1>6, <2>1, AskKept
  <2>3. FailsClean' /\ outcome' \in {"Running", "Next", "Branch", "Halt", "Error", "Panic"}
    BY <2>2 DEF FailsClean
  <2> QED BY <1>1, <1>2, <1>3, <1>6, <2>2, <2>3, Current, Assembled
<1> QED BY <1>4, <1>5, <1>6

LEMMA RefetchStep == ContextInv /\ Running /\ last' = Now /\ Refetch => ContextInv'
<1> SUFFICES ASSUME ContextInv, Running, last' = Now, Refetch PROVE ContextInv'
  OBVIOUS
<1>1. /\ UNCHANGED <<store, answers, steer, wrote>>
      /\ todo[1].do = "Refetch" /\ last' = todo[1] /\ todo # <<>>
      /\ todo[1].via \in Vias /\ todo[1].on \in Operands
  BY Current DEF Refetch, Doing
<1>2. /\ Len(answers) = NumHooks /\ DOMAIN answers = 1..NumHooks /\ NumHooks \in Nat
      /\ AllPlain(Tail(todo))
      /\ \A i \in Policies : answers[i] = PolicyAnswer(todo[1].via)
      /\ answers \in Seq(Answer) /\ Policies \subseteq 1..NumHooks
  <2>1. todo[1].do \in Deciding /\ Via(todo[1]) = todo[1].via BY <1>1 DEF Deciding, Via
  <2> QED BY <1>1, <2>1, Current, AskedAll, ConcreteAssumption DEF ContextInv, Hooks
<1>3. Useful # {} => /\ Taken \in Answer /\ answers # <<>>
                     /\ NumHooks \in Useful => Taken = answers[NumHooks]
  <2> SUFFICES ASSUME Useful # {}
               PROVE  /\ Taken \in Answer /\ answers # <<>>
                      /\ NumHooks \in Useful => Taken = answers[NumHooks]
    OBVIOUS
  <2>1. Useful \in SUBSET (1..NumHooks) BY <1>2 DEF Useful
  <2>2. Max(Useful) \in Useful /\ \A y \in Useful : Max(Useful) >= y
    BY <1>2, <2>1, LargestIs
  <2>3. Max(Useful) \in 1..NumHooks BY <2>1, <2>2
  <2>4. NumHooks \in Useful => Max(Useful) = NumHooks
    <3> DEFINE x == Max(Useful)
    <3>1. x \in 1..NumHooks /\ (NumHooks \in Useful => x >= NumHooks) BY <2>2, <2>3
    <3> HIDE DEF x
    <3>2. NumHooks \in Useful => x = NumHooks BY <1>2, <3>1
    <3> QED BY <3>2 DEF x
  <2>5. answers # <<>> BY <1>2, <2>3
  <2> QED BY <1>2, <2>3, <2>4, <2>5 DEF Taken
<1>4. NumHooks \in Policies /\ todo[1].via = "Read" =>
          NumHooks \in Useful /\ answers[NumHooks].action = "Value"
  BY <1>2 DEF Useful, PolicyAnswer
<1>5. BranchesAsHeld' /\ SkippedCallReturns'
  BY <1>1, OtherTask
<1>6. StoreTyped' /\ KeepsUntouchable /\ steer' \in BOOLEAN
      /\ answers' \in Seq(Answer) /\ Len(answers') <= NumHooks
  BY <1>1, Current DEF StoreTyped, KeepsUntouchable
<1>7. \/ /\ Ends("Error") /\ buf' = buf
         /\ ~(NumHooks \in Policies /\ todo[1].via = "Read")
      \/ buf' \in Values /\ answers # <<>> /\ Goes(Rest)
  <2>1. CASE Useful = {} /\ Ends("Error") /\ buf' = buf
    BY <1>4, <2>1
  <2>2. CASE Useful # {} /\ Taken.action = "Value" /\ buf' = Taken.value /\ Goes(Rest)
    BY <1>3, <2>2 DEF Answer
  <2>3. CASE Useful # {} /\ Taken.action # "Value" /\ Retried
    <3>1. CASE Valid(Now.on) /\ buf' = Value(Now.on) /\ Goes(Rest)
      BY <1>3, <2>3, <3>1, Current, ValueTyped
    <3>2. CASE ~Valid(Now.on) /\ Ends("Error") /\ buf' = buf
      BY <1>3, <1>4, <2>3, <3>2
    <3> QED BY <2>3, <3>1, <3>2 DEF Retried
  <2> QED BY <2>1, <2>2, <2>3 DEF Refetch
<1>8. CASE /\ Ends("Error") /\ buf' = buf
           /\ ~(NumHooks \in Policies /\ todo[1].via = "Read")
  <2>1. ViolationsAnswered'
    BY <1>1, <1>8 DEF ViolationsAnswered
  <2> QED BY <1>1, <1>5, <1>6, <1>8, <2>1, Current, EndStep
<1>9. CASE buf' \in Values /\ answers # <<>> /\ Goes(Rest)
  <2>1. todo' = Tail(todo) /\ (Running' <=> todo' # <<>>) /\ outcome' \in {"Running", "Next"}
    BY <1>9, Current, GoesOn
  <2>2. WellFormed(todo') /\ WritesLast' /\ StackPopped'
    BY <1>1, <1>6, <2>1, RestKept
  <2>3. Asked(todo', answers')
    BY <1>2, <2>1 DEF Asked
  <2>4. ConditionHeld'
    BY <1>1, <1>9 DEF ConditionHeld
  <2>5. FailsClean' /\ outcome' \in {"Running", "Next", "Branch", "Halt", "Error", "Panic"}
    BY <2>1 DEF FailsClean
  <2>6. ViolationsAnswered'
    BY <2>1 DEF ViolationsAnswered
  <2> QED
    BY <1>1, <1>5, <1>6, <1>9, <2>1, <2>2, <2>3, <2>4, <2>5, <2>6, Current, Assembled
<1> QED BY <1>7, <1>8, <1>9


LEMMA StoreStep == ContextInv /\ Running /\ last' = Now /\ Store => ContextInv'
<1> SUFFICES ASSUME ContextInv, Running, last' = Now, Store PROVE ContextInv'
  OBVIOUS
<1>1. /\ UNCHANGED <<buf, steer>> /\ answers' = <<>>
      /\ todo[1].do = "Store" /\ last' = todo[1] /\ todo # <<>>
      /\ todo[1].via \in Vias /\ todo[1].on \in Operands
  BY Current DEF Store, Doing
<1>2. ViolationsAnswered' /\ BranchesAsHeld' /\ SkippedCallReturns'
  BY <1>1, OtherTask DEF Deciding
<1>3. answers' \in Seq(Answer) /\ Len(answers') <= NumHooks /\ buf' \in Values /\ steer' \in BOOLEAN
  <2>1. <<>> \in Seq(Answer) /\ Len(<<>>) = 0 /\ 0 <= NumHooks BY ConcreteAssumption
  <2> QED BY <1>1, <2>1, Current
<1>4. \/ Ends("Panic") /\ UNCHANGED <<store, wrote>>
      \/ /\ todo[1].on.space # "Constant" /\ store' = [store EXCEPT ![todo[1].on] = buf]
         /\ wrote' = wrote \cup {todo[1].on} /\ Goes(Rest)
      \/ ~Valid(todo[1].on) /\ Asking("Write", "Restore") /\ UNCHANGED <<store, wrote>>
  BY Current DEF Store, Put
<1>5. CASE Ends("Panic") /\ UNCHANGED <<store, wrote>>
  <2>1. StoreTyped' BY <1>5, Current DEF StoreTyped
  <2> QED BY <1>1, <1>2, <1>3, <1>5, <2>1, EndStep
<1>6. CASE /\ todo[1].on.space # "Constant" /\ store' = [store EXCEPT ![todo[1].on] = buf]
           /\ wrote' = wrote \cup {todo[1].on} /\ Goes(Rest)
  <2>1. todo[1].on \in Places
    BY <1>1, <1>6, PlaceKinds
  <2>2. todo' = Tail(todo) /\ (Running' <=> todo' # <<>>) /\ outcome' \in {"Running", "Next"}
    BY <1>6, Current, GoesOn
  <2>3. WellFormed(todo') /\ WritesLast' /\ StackPopped'
    <3>1. steer' = steer /\ todo[1].do \in {"Store", "Restore"} BY <1>1
    <3> QED BY <1>1, <1>6, <2>1, <2>2, <3>1, WriteKept
  <2>4. Asked(todo', answers')
    <3>1. AllPlain(Tail(todo))
      BY <1>1, Current, AskedPlain DEF ContextInv, Plain, Deciding
    <3> QED BY <2>2, <3>1 DEF Asked
  <2>5. ConditionHeld'
    BY <1>1, <2>2, NoDecision
  <2>6. StoreTyped' /\ wrote' \subseteq Places
    BY <1>6, <2>1, Current, StoredTyped
  <2>7. FailsClean' /\ outcome' \in {"Running", "Next", "Branch", "Halt", "Error", "Panic"}
    BY <2>2 DEF FailsClean
  <2> QED BY <1>1, <1>2, <1>3, <2>2, <2>3, <2>4, <2>5, <2>6, <2>7, Current, Assembled
<1>7. CASE ~Valid(todo[1].on) /\ Asking("Write", "Restore") /\ UNCHANGED <<store, wrote>>
  <2>1. "Restore" \in Deciding /\ "Write" \in Vias BY DEF Deciding, Vias
  <2>2. /\ WellFormed(todo') /\ WritesLast' /\ StackPopped' /\ ConditionHeld'
        /\ Asked(todo', answers')
        /\ (Running' <=> todo' # <<>>) /\ outcome' \in {"Running", "Next"}
    BY <1>1, <1>7, <2>1, AskKept
  <2>3. FailsClean' /\ outcome' \in {"Running", "Next", "Branch", "Halt", "Error", "Panic"}
    BY <2>2 DEF FailsClean
  <2>4. StoreTyped' BY <1>7, Current DEF StoreTyped
  <2> QED BY <1>1, <1>2, <1>3, <1>7, <2>2, <2>3, <2>4, Current, Assembled
<1> QED BY <1>4, <1>5, <1>6, <1>7

LEMMA RestoreStep == ContextInv /\ Running /\ last' = Now /\ Restore => ContextInv'
<1> SUFFICES ASSUME ContextInv, Running, last' = Now, Restore PROVE ContextInv'
  OBVIOUS
<1>1. /\ UNCHANGED <<buf, answers, steer>>
      /\ todo[1].do = "Restore" /\ last' = todo[1] /\ todo # <<>> /\ todo[1].on \in Operands
  BY Current DEF Restore, Doing
<1>2. /\ AllPlain(Tail(todo))
      /\ \A i \in Policies : i \in DOMAIN answers /\ answers[i] = PolicyAnswer("Write")
  <2>1. todo[1].do \in Deciding /\ Via(todo[1]) = "Write" BY <1>1 DEF Deciding, Via
  <2> QED BY <1>1, <2>1, Current, AskedAll, ConcreteAssumption DEF ContextInv, Hooks
<1>3. BranchesAsHeld' /\ SkippedCallReturns'
  BY <1>1, OtherTask
<1>4. Policies # {} => Skipped
  BY <1>2 DEF Skipped, PolicyAnswer
<1>5. \/ Ends("Panic") /\ UNCHANGED <<store, wrote>>
      \/ /\ todo[1].on.space # "Constant" /\ store' = [store EXCEPT ![todo[1].on] = buf]
         /\ wrote' = wrote \cup {todo[1].on} /\ Goes(Rest)
      \/ Goes(Rest) /\ UNCHANGED <<store, wrote>>
      \/ Ends("Error") /\ Policies = {} /\ UNCHANGED <<store, wrote>>
  BY <1>4, Current DEF Restore, Put
<1>6. answers' \in Seq(Answer) /\ Len(answers') <= NumHooks /\ buf' \in Values /\ steer' \in BOOLEAN
  BY <1>1, Current
<1>7. ASSUME UNCHANGED <<store, wrote>>, Ends("Panic") \/ (Ends("Error") /\ Policies = {})
      PROVE  ContextInv'
  <2>1. StoreTyped' BY <1>7, Current DEF StoreTyped
  <2>2. ViolationsAnswered'
    BY <1>1, <1>7 DEF ViolationsAnswered, Ends
  <2> QED BY <1>1, <1>3, <1>6, <1>7, <2>1, <2>2, EndStep
<1>8. ASSUME Goes(Rest), WellFormed(todo') /\ WritesLast' /\ StackPopped',
             StoreTyped', wrote' \subseteq Places
      PROVE  ContextInv'
  <2>1. todo' = Tail(todo) /\ (Running' <=> todo' # <<>>) /\ outcome' \in {"Running", "Next"}
    BY <1>8, Current, GoesOn
  <2>2. Asked(todo', answers')
    BY <1>2, <2>1 DEF Asked
  <2>3. ConditionHeld'
    BY <1>1, <2>1, NoDecision
  <2>4. FailsClean' /\ ViolationsAnswered'
        /\ outcome' \in {"Running", "Next", "Branch", "Halt", "Error", "Panic"}
    BY <2>1 DEF FailsClean, ViolationsAnswered
  <2> QED BY <1>1, <1>3, <1>6, <1>8, <2>1, <2>2, <2>3, <2>4, Current, Assembled
<1>9. CASE /\ todo[1].on.space # "Constant" /\ store' = [store EXCEPT ![todo[1].on] = buf]
           /\ wrote' = wrote \cup {todo[1].on} /\ Goes(Rest)
  <2>1. todo[1].on \in Places
    BY <1>1, <1>9, PlaceKinds
  <2>2. todo' = Tail(todo)
    BY <1>9, Current, GoesOn
  <2>3. WellFormed(todo') /\ WritesLast' /\ StackPopped'
    <3>1. steer' = steer /\ todo[1].do \in {"Store", "Restore"} BY <1>1
    <3> QED BY <1>1, <1>9, <2>1, <2>2, <3>1, WriteKept
  <2>4. StoreTyped' /\ wrote' \subseteq Places
    BY <1>9, <2>1, Current, StoredTyped
  <2> QED BY <1>8, <1>9, <2>3, <2>4
<1>10. CASE Goes(Rest) /\ UNCHANGED <<store, wrote>>
  <2>1. StoreTyped' /\ KeepsUntouchable /\ wrote' \subseteq Places
    BY <1>10, Current DEF StoreTyped, KeepsUntouchable
  <2>2. todo' = Tail(todo)
    BY <1>10, Current, GoesOn
  <2>3. WellFormed(todo') /\ WritesLast' /\ StackPopped'
    BY <1>1, <1>10, <2>1, <2>2, RestKept
  <2> QED BY <1>8, <1>10, <2>1, <2>3
<1>11. CASE Ends("Panic") /\ UNCHANGED <<store, wrote>>
  BY <1>7, <1>11
<1>12. CASE Ends("Error") /\ Policies = {} /\ UNCHANGED <<store, wrote>>
  BY <1>7, <1>12
<1> QED BY <1>5, <1>9, <1>10, <1>11, <1>12

\* What is left of a skipped call: the stack is popped, then the return is
\* branched to.
ReturnList(s, v) ==
    /\ WellFormed(s) /\ s # <<>> /\ AllPlain(s) /\ s[1].do # "Decide"
    /\ \A j \in DOMAIN s : s[j].do # "Restore"
    /\ \A j \in DOMAIN s : s[j].do = "Store" => j = 1 /\ s[j].on = Reg("sp")
    /\ \A j \in DOMAIN s : s[j].do = "BranchTo" => s[j].on = Cell(v)

LEMMA ReturnListed ==
    ASSUME NEW v \in Values
    PROVE  /\ ReturnList(Write(Reg("sp")) \o <<Task("BranchTo", Cell(v))>>, v)
           /\ ReturnList(<<>> \o <<Task("BranchTo", Cell(v))>>, v)
<1> DEFINE w == Write(Reg("sp"))
           t == Task("BranchTo", Cell(v))
           s == w \o <<t>>
           n == NumHooks
<1>1. n \in Nat /\ Reg("sp") \in Operands /\ Cell(v) \in Operands
  BY ConcreteAssumption DEF Operands, Places, Cells
<1>2. /\ t \in TaskSet /\ t.do = "BranchTo" /\ t.on = Cell(v)
      /\ <<t>> \in Seq(TaskSet) /\ Len(<<t>>) = 1 /\ <<t>>[1] = t
  <2>1. t \in TaskSet /\ t.do = "BranchTo" /\ t.on = Cell(v)
    BY <1>1, TaskTyped DEF Kinds
  <2> HIDE DEF t
  <2> QED BY <2>1
<1>3. ReturnList(<<>> \o <<t>>, v)
  <2>1. Fresh(<<t>>) BY <1>1, FreshTask DEF Final
  <2> HIDE DEF t
  <2>2. <<>> \o <<t>> = <<t>> /\ DOMAIN <<t>> = {1} BY <1>2
  <2> QED BY <1>2, <2>1, <2>2 DEF Fresh, ReturnList
<1>4. /\ w \in Seq(TaskSet) /\ Len(w) = n + 1
      /\ w[1].do = "Store" /\ w[1].on = Reg("sp")
      /\ \A j \in 2..(n + 1) : w[j].do = "WriteHook"
  BY <1>1, WriteListed
<1> HIDE DEF w, t
<1>5. s \in Seq(TaskSet) /\ Len(s) = n + 2 /\ DOMAIN s = 1..(n + 2)
  <2>1. s \in Seq(TaskSet) /\ Len(s) = Len(w) + Len(<<t>>)
    BY ONLY <1>2, <1>4, Concatenated
  <2> QED BY <1>1, <1>2, <1>4, <2>1
<1>6. \A j \in DOMAIN s :
          \/ j \in 1..Len(w) /\ s[j] = w[j]
          \/ j - Len(w) \in 1..Len(<<t>>) /\ s[j] = <<t>>[j - Len(w)]
  BY ONLY <1>2, <1>4, InEither
<1> HIDE DEF s, n
<1>7. ASSUME NEW j \in DOMAIN s
      PROVE  \/ j = 1 /\ s[j].do = "Store" /\ s[j].on = Reg("sp")
             \/ j \in 2..(n + 1) /\ s[j].do = "WriteHook"
             \/ j = n + 2 /\ s[j] = t
  <2>1. CASE j \in 1..Len(w) /\ s[j] = w[j]
    <3>1. j = 1 \/ j \in 2..(n + 1) BY <1>1, <1>4, <2>1
    <3> QED BY <1>4, <2>1, <3>1
  <2>2. CASE j - Len(w) \in 1..Len(<<t>>) /\ s[j] = <<t>>[j - Len(w)]
    <3>1. j - Len(w) = 1 /\ j = n + 2 BY <1>1, <1>2, <1>4, <1>5, <2>2
    <3> QED BY <1>2, <2>2, <3>1
  <2> QED BY <1>6, <2>1, <2>2
<1>8. Ordered(s)
  <2> SUFFICES ASSUME NEW j \in DOMAIN s, NEW k \in DOMAIN s, j < k
               PROVE  MayFollow(s[j].do, s[k].do)
    BY DEF Ordered
  <2>1. k # 1 /\ j # n + 2 BY <1>1, <1>5
  <2>2. s[k].do \in {"WriteHook", "BranchTo"} BY <1>2, <1>7, <2>1
  <2>3. s[j].do \in {"Store", "WriteHook"} BY <1>7, <2>1
  <2> QED BY <2>2, <2>3 DEF MayFollow, Final
<1>9. /\ \A j \in DOMAIN s : s[j].do \in {"Store", "WriteHook", "BranchTo"} /\ Plain(s[j])
      /\ 1 \in DOMAIN s /\ s # <<>>
  <2>1. \A j \in DOMAIN s : s[j].do \in {"Store", "WriteHook", "BranchTo"}
    BY <1>2, <1>7
  <2>2. 1 \in DOMAIN s BY <1>1, <1>5
  <2>3. s # <<>> BY <1>1, <1>5
  <2> QED BY <2>1, <2>2, <2>3 DEF Plain, Deciding
<1>10. WellFormed(s) /\ AllPlain(s)
  BY <1>5, <1>8, <1>9 DEF WellFormed, DecideFetched, AllPlain
<1>11. ReturnList(s, v)
  BY <1>2, <1>7, <1>9, <1>10 DEF ReturnList
<1> QED BY <1>3, <1>11 DEF s, w, t

LEMMA EnterStep == ContextInv /\ Running /\ last' = Now /\ Enter => ContextInv'
<1> SUFFICES ASSUME ContextInv, Running, last' = Now, Enter PROVE ContextInv'
  OBVIOUS
<1> DEFINE sp == store[Reg("sp")]
           p == ReturnLocation(sp)
<1>1. /\ UNCHANGED <<store, answers, steer, wrote>>
      /\ todo[1].do = "Enter" /\ last' = todo[1] /\ todo # <<>>
  BY Current DEF Enter, Doing
<1>2. ViolationsAnswered' /\ BranchesAsHeld' /\ SkippedCallReturns'
  BY <1>1, OtherTask DEF Deciding
<1>3. StoreTyped' /\ steer' \in BOOLEAN /\ answers' \in Seq(Answer) /\ Len(answers') <= NumHooks
  BY <1>1, Current DEF StoreTyped
<1>4. sp \in Values /\ store \in [Places -> Values \cup {Unmapped}]
  BY Current, ConcreteAssumption DEF StoreTyped
<1>5. Popped(sp) \in Values /\ p \in Places /\ p.space # "Constant"
  BY <1>4, ReturnPlace
<1>6. \/ ~steer /\ Ends("Branch") /\ buf' = buf
      \/ steer /\ ~Valid(p) /\ Ends("Error") /\ buf' = Popped(sp)
      \/ /\ steer /\ Valid(p) /\ buf' = Popped(sp)
         /\ Goes((IF ExtraPop > 0 THEN Write(Reg("sp")) ELSE <<>>) \o
                 <<Task("BranchTo", Cell(Value(p)))>>)
  BY DEF Enter, SkipReturn
<1>7. CASE ~steer /\ Ends("Branch") /\ buf' = buf
  BY <1>1, <1>2, <1>3, <1>7, Current, EndStep
<1>8. CASE steer /\ ~Valid(p) /\ Ends("Error") /\ buf' = Popped(sp)
  BY <1>1, <1>2, <1>3, <1>5, <1>8, Current, EndStep
<1>9. CASE /\ steer /\ Valid(p) /\ buf' = Popped(sp)
           /\ Goes((IF ExtraPop > 0 THEN Write(Reg("sp")) ELSE <<>>) \o
                   <<Task("BranchTo", Cell(Value(p)))>>)
  <2> DEFINE v == Value(p)
  <2>1. v \in Values
    BY <1>5, <1>9, Current, ValueTyped DEF Operands
  <2>2. PICK list : Goes(list) /\ ReturnList(list, v)
    <3> HIDE DEF v
    <3>1. CASE ExtraPop > 0
      BY <1>9, <2>1, <3>1, ReturnListed DEF v
    <3>2. CASE ~(ExtraPop > 0)
      BY <1>9, <2>1, <3>2, ReturnListed DEF v
    <3> QED BY <3>1, <3>2
  <2>3. todo' = list /\ (Running' <=> todo' # <<>>) /\ outcome' \in {"Running", "Next"}
    BY <2>2, GoesOn
  <2>4. wrote = {}
    <3>1. 1 \in DOMAIN todo BY Current, RestOf
    <3> QED BY <1>1, <3>1 DEF ContextInv, WritesLast
  <2>5. WellFormed(todo') /\ Asked(todo', answers') /\ ConditionHeld'
    BY <2>2, <2>3 DEF ReturnList, Asked, ConditionHeld
  <2>6. WritesLast'
    BY <1>1, <1>9, <2>4 DEF WritesLast
  <2>7. StackPopped'
    <3>1. wrote' = {} /\ store' = store /\ buf' = Popped(sp)
      BY <1>1, <1>9, <2>4
    <3>2. \A b \in DOMAIN todo' : todo'[b].do = "BranchTo" => todo'[b].on = Cell(v)
      BY <2>2, <2>3 DEF ReturnList
    <3>3. Value(ReturnLocation(store[Reg("sp")]))' = v
      BY <3>1 DEF Value, ReturnLocation
    <3>4. /\ \A j \in DOMAIN todo' : todo'[j].do # "Restore"
          /\ \A j \in DOMAIN todo' : todo'[j].do = "Store" => j = 1 /\ todo'[j].on = Reg("sp")
      BY <2>2, <2>3 DEF ReturnList
    <3> HIDE DEF v
    <3> QED BY <3>1, <3>2, <3>3, <3>4 DEF StackPopped, Returns
  <2>8. FailsClean' /\ outcome' \in {"Running", "Next", "Branch", "Halt", "Error", "Panic"}
    BY <2>3 DEF FailsClean
  <2> QED
    BY <1>1, <1>2, <1>3, <1>5, <1>9, <2>3, <2>5, <2>6, <2>7, <2>8, Current, Assembled
<1> QED BY <1>6, <1>7, <1>8, <1>9

LEMMA BeginStep == ASSUME NEW op \in Operations PROVE ContextInv /\ Begin(op) => ContextInv'
<1> SUFFICES ASSUME ContextInv, Begin(op) PROVE ContextInv'
  OBVIOUS
<1>1. /\ todo' = Tasks(op) /\ buf' = 0 /\ answers' = <<>> /\ steer' = FALSE
      /\ outcome' = "Running" /\ wrote' = {} /\ last' = NoTask /\ store' = store
  BY DEF Begin, NoTask
<1>2. /\ WellFormed(todo') /\ WritesLast' /\ StackPopped' /\ ConditionHeld'
      /\ Asked(todo', answers') /\ todo' # <<>>
  BY <1>1, FreshTasks, FreshKept
<1>3. StoreTyped'
  BY <1>1 DEF ContextInv, TypeOK, StoreTyped
<1>4. buf' \in Values /\ steer' \in BOOLEAN /\ wrote' \subseteq Places
      /\ answers' \in Seq(Answer) /\ Len(answers') <= NumHooks
  <2>1. <<>> \in Seq(Answer) /\ Len(<<>>) = 0 /\ 0 <= NumHooks /\ 0 \in Values
    BY ConcreteAssumption DEF Values
  <2> QED BY <1>1, <2>1
<1>5. Running' /\ FailsClean'
  BY <1>1 DEF Running, FailsClean
<1>6. ViolationsAnswered' /\ BranchesAsHeld' /\ SkippedCallReturns'
  <2>1. last'.do = "None" BY <1>1 DEF NoTask, Task
  <2> QED BY <2>1, OtherTask DEF Deciding
<1> QED BY <1>1, <1>2, <1>3, <1>4, <1>5, <1>6, Assembled

LEMMA ContextInit == Init => ContextInv
<1> SUFFICES ASSUME Init PROVE ContextInv
  OBVIOUS
<1>1. /\ todo = <<>> /\ buf = 0 /\ answers = <<>> /\ steer = FALSE /\ outcome = "Next"
      /\ last = NoTask /\ wrote = {}
  BY DEF Init, NoTask
<1>2. TypeOK
  <2>1. store \in [Places -> Values \cup {Unmapped}] /\ \A r \in Registers : store[Reg(r)] \in Values
    BY DEF Init, Places
  <2>2. Len(answers) <= NumHooks /\ buf \in Values
    <3>1. Len(<<>>) = 0 /\ 0 <= NumHooks /\ 0 \in Values BY ConcreteAssumption DEF Values
    <3> QED BY <1>1, <3>1
  <2> QED BY <1>1, <2>1, <2>2 DEF TypeOK, Running
<1>3. Typed /\ Asked(todo, answers) /\ WritesLast /\ ConditionHeld /\ StackPopped
  BY <1>1
     DEF Typed, WellFormed, Ordered, DecideFetched, Asked, AllPlain, WritesLast, ConditionHeld,
         StackPopped
<1>4. FailsClean /\ ViolationsAnswered /\ BranchesAsHeld /\ SkippedCallReturns
  <2>1. last.do = "None" BY <1>1 DEF NoTask, Task
  <2> QED BY <1>1, <2>1 DEF FailsClean, ViolationsAnswered, BranchesAsHeld, SkippedCallReturns
<1> QED BY <1>2, <1>3, <1>4 DEF ContextInv

LEMMA ContextUnchanged == ContextInv /\ UNCHANGED vars => ContextInv'
<1> SUFFICES ASSUME ContextInv, UNCHANGED vars PROVE ContextInv'
  OBVIOUS
<1>1. TypeOK' /\ Typed' /\ Asked(todo', answers')
  BY DEF vars, ContextInv, TypeOK, Running, Typed
<1>2. WritesLast' /\ ConditionHeld' /\ StackPopped'
  BY DEF vars, ContextInv, WritesLast, ConditionHeld, StackPopped, Value, Returns, ReturnLocation
<1>3. FailsClean' /\ ViolationsAnswered' /\ BranchesAsHeld' /\ SkippedCallReturns'
  BY DEF vars, ContextInv, FailsClean, ViolationsAnswered, BranchesAsHeld, SkippedCallReturns,
         Running, Value, ReturnLocation
<1> QED BY <1>1, <1>2, <1>3 DEF ContextInv

LEMMA ContextStep == ContextInv /\ [Next]_vars => ContextInv'
<1> SUFFICES ASSUME ContextInv, [Next]_vars PROVE ContextInv'
  OBVIOUS
<1>1. CASE UNCHANGED vars
  BY <1>1, ContextUnchanged
<1>2. CASE \E op \in Operations : Begin(op)
  BY <1>2, BeginStep
<1>3. CASE Step
  <2>1. Running /\ last' = Now
    BY <1>3 DEF Step
  <2>2. CASE HookFails BY <2>1, <2>2, HookFailsStep
  <2>3. CASE AccessHook BY <2>1, <2>3, AccessHookStep
  <2>4. CASE SteerHook BY <2>1, <2>4, SteerHookStep
  <2>5. CASE InvalidHook BY <2>1, <2>5, InvalidHookStep
  <2>6. CASE Fetch BY <2>1, <2>6, FetchStep
  <2>7. CASE Refetch BY <2>1, <2>7, RefetchStep
  <2>8. CASE Store BY <2>1, <2>8, StoreStep
  <2>9. CASE Restore BY <2>1, <2>9, RestoreStep
  <2>10. CASE Sized \/ Compute \/ Divide \/ Aim \/ Handle BY <2>1, <2>10, SidewardStep
  <2>11. CASE Dereference BY <2>1, <2>11, DereferenceStep
  <2>12. CASE Jump BY <2>1, <2>12, JumpStep
  <2>13. CASE Decide BY <2>1, <2>13, DecideStep
  <2>14. CASE Enter BY <2>1, <2>14, EnterStep
  <2> QED
    BY <1>3, <2>2, <2>3, <2>4, <2>5, <2>6, <2>7, <2>8, <2>9, <2>10, <2>11, <2>12, <2>13, <2>14
    DEF Step
<1> QED BY <1>1, <1>2, <1>3 DEF Next

-----------------------------------------------------------------------------
(* What is left to do of an operation.                                     *)

\* Tasks that put others in their place: a pointer that was read is followed
\* and a skipped call returns; an access that fails is asked about.
Expanders == {"LoadFrom", "StoreTo", "Enter"}
Accesses == {"Fetch", "Store"}

Expanding(s) == IF \E j \in DOMAIN s : s[j].do \in Expanders THEN 1 ELSE 0

\* The tasks from the first access on.
FromEnd(s) == {Len(s) + 1 - j : j \in {k \in DOMAIN s : s[k].do \in Accesses}}
Waiting(s) == IF FromEnd(s) = {} THEN 0 ELSE Max(FromEnd(s))

\* A list with less to do, in the lexicographic order.
Less(s, t) ==
    \/ Expanding(s) < Expanding(t)
    \/ Expanding(s) = Expanding(t) /\ Waiting(s) < Waiting(t)
    \/ Expanding(s) = Expanding(t) /\ Waiting(s) = Waiting(t) /\ Len(s) < Len(t)

\* The order is one of triples of naturals, and so well-founded.
Measured(s) == Expanding(s) \in Nat /\ Waiting(s) \in Nat /\ Len(s) \in Nat

LEMMA WaitingIs ==
    ASSUME NEW s \in Seq(TaskSet)
    PROVE  /\ Waiting(s) \in 0..Len(s)
           /\ Waiting(s) # 0 => s[Len(s) + 1 - Waiting(s)].do \in Accesses
           /\ \A j \in DOMAIN s : s[j].do \in Accesses => Len(s) + 1 - j <= Waiting(s)
<1>1. Len(s) \in Nat /\ DOMAIN s = 1..Len(s)
  OBVIOUS
<1>2. FromEnd(s) \in SUBSET (1..Len(s))
  BY <1>1 DEF FromEnd
<1>3. ASSUME NEW j \in DOMAIN s, s[j].do \in Accesses
      PROVE  Len(s) + 1 - j \in FromEnd(s)
  BY <1>3 DEF FromEnd
<1>4. CASE FromEnd(s) = {}
  BY <1>1, <1>3, <1>4 DEF Waiting
<1>5. CASE FromEnd(s) # {}
  <2>1. Max(FromEnd(s)) \in FromEnd(s) /\ \A y \in FromEnd(s) : Max(FromEnd(s)) >= y
    BY <1>1, <1>2, <1>5, LargestIs
  <2>2. PICK j \in DOMAIN s : s[j].do \in Accesses /\ Max(FromEnd(s)) = Len(s) + 1 - j
    BY <2>1 DEF FromEnd
  <2>3. Waiting(s) = Len(s) + 1 - j /\ \A y \in FromEnd(s) : Waiting(s) >= y
    BY <1>5, <2>1, <2>2 DEF Waiting
  <2>4. j \in 1..Len(s) /\ Len(s) + 1 - Waiting(s) = j
    BY <1>1, <2>3
  <2>5. ASSUME NEW k \in DOMAIN s, s[k].do \in Accesses PROVE Len(s) + 1 - k <= Waiting(s)
    <3>1. Len(s) + 1 - k \in FromEnd(s) BY <1>3, <2>5
    <3>2. Waiting(s) >= Len(s) + 1 - k BY <2>3, <3>1
    <3> QED BY <1>1, <2>3, <2>4, <3>2
  <2> QED BY <1>1, <2>2, <2>3, <2>4, <2>5
<1> QED BY <1>4, <1>5

LEMMA ListMeasured == ASSUME NEW s \in Seq(TaskSet) PROVE Measured(s)
<1>1. Waiting(s) \in Nat /\ Len(s) \in Nat
  BY WaitingIs
<1> QED BY <1>1 DEF Measured, Expanding

\* An operation that has ended has nothing left to do.
LEMMA NothingLess ==
    ASSUME NEW s \in Seq(TaskSet), s # <<>>
    PROVE  Less(<<>>, s)
<1>1. Expanding(<<>>) = 0 /\ Waiting(<<>>) = 0 /\ Len(<<>>) = 0
  BY DEF Expanding, Waiting, FromEnd
<1>2. Measured(s) /\ Len(s) # 0
  BY ListMeasured
<1> QED BY <1>1, <1>2 DEF Less, Measured

\* A list that does not add to either count, and is shorter.
LEMMA ShorterLess ==
    ASSUME NEW s \in Seq(TaskSet), NEW t \in Seq(TaskSet),
           Expanding(s) <= Expanding(t), Waiting(s) <= Waiting(t), Len(s) < Len(t)
    PROVE  Less(s, t)
<1>1. Measured(s) /\ Measured(t)
  BY ListMeasured
<1> QED BY <1>1 DEF Less, Measured

LEMMA RestLess ==
    ASSUME NEW s \in Seq(TaskSet), s # <<>>
    PROVE  Less(Tail(s), s)
<1> DEFINE t == Tail(s)
<1>1. /\ t \in Seq(TaskSet) /\ Len(t) = Len(s) - 1 /\ Len(s) \in Nat \ {0}
      /\ DOMAIN s = 1..Len(s) /\ DOMAIN t = 1..(Len(s) - 1)
      /\ \A j \in DOMAIN t : j + 1 \in DOMAIN s /\ t[j] = s[j + 1]
  BY RestOf
<1> HIDE DEF t
<1>2. Expanding(t) <= Expanding(s)
  <2>1. ASSUME NEW j \in DOMAIN t, t[j].do \in Expanders
        PROVE  \E k \in DOMAIN s : s[k].do \in Expanders
    BY <1>1, <2>1
  <2> QED BY <2>1 DEF Expanding
<1>3. Waiting(t) <= Waiting(s)
  <2>1. Waiting(t) \in 0..Len(t) /\ Waiting(s) \in 0..Len(s)
    BY <1>1, WaitingIs
  <2>2. CASE Waiting(t) # 0
    <3> DEFINE j == Len(t) + 1 - Waiting(t)
    <3>1. j \in DOMAIN t /\ t[j].do \in Accesses
      BY <1>1, <2>1, <2>2, WaitingIs
    <3>2. j + 1 \in DOMAIN s /\ s[j + 1].do \in Accesses
      BY <1>1, <3>1
    <3>3. Len(s) + 1 - (j + 1) <= Waiting(s)
      BY <3>2, WaitingIs
    <3>4. Len(s) + 1 - (j + 1) = Waiting(t)
      BY <1>1, <2>1
    <3> QED BY <3>3, <3>4
  <2> QED BY <2>1, <2>2
<1>4. Less(t, s)
  BY <1>1, <1>2, <1>3, ShorterLess
<1> QED BY <1>4 DEF t

\* A list of tasks that leads nowhere else is less than one that may.
LEMMA PlainLess ==
    ASSUME NEW s \in Seq(TaskSet), NEW t \in Seq(TaskSet), t # <<>>, t[1].do \in Expanders,
           \A j \in DOMAIN s : s[j].do \notin Expanders
    PROVE  Less(s, t)
<1>1. 1 \in DOMAIN t
  BY RestOf
<1> QED BY <1>1 DEF Less, Expanding

\* An access that failed puts its questions and its second attempt in its place,
\* and the list waits for one access less.
LEMMA AskingLess ==
    ASSUME NEW s \in Seq(TaskSet), s # <<>>, s[1].do \in Accesses,
           NEW o \in Operands, NEW via \in Vias, NEW x \in TaskSet, x.do \in Deciding
    PROVE  Less(ForHooks("InvalidHook", o, via) \o <<x>> \o Tail(s), s)
<1> DEFINE f == ForHooks("InvalidHook", o, via)
           r == Tail(s)
           a == f \o <<x>>
           t == a \o r
           n == NumHooks
<1>1. f \in Seq(TaskSet) /\ Len(f) = n /\ \A i \in 1..n : f[i].do = "InvalidHook"
  BY ForHooksTyped DEF Kinds
<1>2. /\ r \in Seq(TaskSet) /\ Len(r) = Len(s) - 1 /\ Len(s) \in Nat \ {0}
      /\ DOMAIN s = 1..Len(s) /\ 1 \in DOMAIN s /\ DOMAIN r = 1..(Len(s) - 1)
      /\ \A j \in DOMAIN r : j + 1 \in DOMAIN s /\ r[j] = s[j + 1]
  BY RestOf
<1>3. n \in Nat
  BY ConcreteAssumption
<1> HIDE DEF f, r, n
<1>4. a \in Seq(TaskSet) /\ Len(a) = n + 1
  BY <1>1, <1>3
<1>5. ASSUME NEW j \in 1..(n + 1) PROVE a[j].do \notin Expanders \cup Accesses
  <2>1. CASE j \in 1..n
    <3>1. a[j] = f[j] BY <1>1, <1>3, <2>1
    <3> QED BY <1>1, <2>1, <3>1 DEF Expanders, Accesses
  <2>2. CASE j = n + 1
    <3>1. a[j] = x BY <1>1, <1>3, <2>2
    <3> QED BY <3>1 DEF Deciding, Expanders, Accesses
  <2>3. j \in 1..n \/ j = n + 1 BY ONLY <1>3, <1>5
  <2> QED BY ONLY <2>1, <2>2, <2>3
<1> HIDE DEF a
<1>6. t \in Seq(TaskSet) /\ Len(t) = n + Len(s)
  <2>1. t \in Seq(TaskSet) /\ Len(t) = Len(a) + Len(r)
    BY <1>2, <1>4, Concatenated
  <2> HIDE DEF t
  <2> QED BY <1>2, <1>3, <1>4, <2>1
<1>7. ASSUME NEW j \in DOMAIN t, t[j].do \in Expanders \cup Accesses
      PROVE  j > n + 1 /\ j - n \in DOMAIN s /\ t[j] = s[j - n]
  <2>1. \/ j \in 1..(n + 1) /\ t[j] = a[j]
        \/ j - (n + 1) \in 1..Len(r) /\ t[j] = r[j - (n + 1)]
    BY <1>2, <1>4, InEither
  <2>2. j - (n + 1) \in 1..Len(r) /\ t[j] = r[j - (n + 1)]
    BY <1>5, <1>7, <2>1
  <2>3. j \in Nat BY <1>6
  <2>4. (j - (n + 1)) + 1 = j - n BY <1>3, <2>3
  <2> QED BY <1>2, <1>3, <2>2, <2>3, <2>4
<1> HIDE DEF t
<1>8. Expanding(t) <= Expanding(s)
  <2>1. ASSUME NEW j \in DOMAIN t, t[j].do \in Expanders
        PROVE  \E k \in DOMAIN s : s[k].do \in Expanders
    BY <1>7, <2>1
  <2> QED BY <2>1 DEF Expanding
<1>9. Waiting(s) = Len(s)
  <2>1. Len(s) + 1 - 1 <= Waiting(s) /\ Waiting(s) \in 0..Len(s)
    BY <1>2, WaitingIs
  <2> QED BY <1>2, <2>1
<1>10. Waiting(t) < Len(s)
  <2>1. Waiting(t) \in 0..Len(t)
    BY <1>6, WaitingIs
  <2>2. CASE Waiting(t) # 0
    <3> DEFINE j == Len(t) + 1 - Waiting(t)
    <3>1. j \in DOMAIN t BY <1>6, <2>1, <2>2
    <3>2. t[j].do \in Accesses BY <1>6, <2>2, WaitingIs
    <3>3. j > n + 1 BY <1>7, <3>1, <3>2
    <3> QED BY <1>2, <1>3, <1>6, <2>1, <3>3
  <2> QED BY <1>2, <2>1, <2>2
<1>11. Measured(s) /\ Measured(t)
  BY <1>6, ListMeasured
<1>12. Less(t, s)
  BY <1>8, <1>9, <1>10, <1>11 DEF Less, Measured
<1> QED BY <1>12 DEF t, a, f, r

-----------------------------------------------------------------------------
(* Every step leaves less to do.                                           *)

Shrinks == Less(todo', todo)

LEMMA EndShrinks ==
    ASSUME ContextInv, Running, todo' = <<>>
    PROVE  Shrinks
BY Current, NothingLess DEF Shrinks

LEMMA RestShrinks ==
    ASSUME ContextInv, Running, todo' = Rest
    PROVE  Shrinks
BY Current, RestLess DEF Shrinks

LEMMA AskingShrinks ==
    ASSUME ContextInv, Running, todo[1].do \in Accesses, NEW via \in Vias,
           NEW decide \in Deciding, Asking(via, decide)
    PROVE  Shrinks
<1> DEFINE x == [todo[1] EXCEPT !.do = decide]
<1>1. x \in TaskSet /\ x.do \in Deciding
  BY Current DEF TaskSet, Deciding, Kinds
<1>2. todo' = ForHooks("InvalidHook", todo[1].on, via) \o <<x>> \o Tail(todo)
  BY Current DEF Asking, Goes
<1> HIDE DEF x
<1>3. Less(ForHooks("InvalidHook", todo[1].on, via) \o <<x>> \o Tail(todo), todo)
  BY <1>1, Current, AskingLess
<1> QED BY <1>2, <1>3 DEF Shrinks

LEMMA DereferenceShrinks == ContextInv /\ Running /\ Dereference => Shrinks
<1> SUFFICES ASSUME ContextInv, Running, Dereference PROVE Shrinks
  OBVIOUS
<1>1. todo[1].do \in Expanders
  BY Current DEF Dereference, Doing, Expanders
<1>2. Cell(buf) \in Operands /\ Now.on \in Operands
  BY Current DEF Operands, Places, Cells
<1>3. PICK s, d \in Operands : todo' = Copy(s, d)
  BY <1>2 DEF Dereference, Goes
<1> DEFINE e == Size(s) \o Read(s, "Read")
<1>4. /\ e \in Seq(TaskSet) /\ \A j \in DOMAIN e : e[j].do \in EarlyKinds
  BY EarlyOperand, EarlyRead, EarlyJoined DEF Vias, Early
<1>5. /\ Write(d) \in Seq(TaskSet) /\ Len(Write(d)) = NumHooks + 1
      /\ \A j \in 1..(NumHooks + 1) : Write(d)[j].do \in {"Store", "WriteHook"}
  BY WriteListed, ConcreteAssumption
<1>6. todo' = e \o Write(d)
  BY <1>3 DEF Copy
<1> HIDE DEF e
<1>7. todo' \in Seq(TaskSet)
  BY <1>4, <1>5, <1>6, Concatenated
<1>8. ASSUME NEW j \in DOMAIN todo' PROVE todo'[j].do \notin Expanders
  <2>1. \/ j \in 1..Len(e) /\ todo'[j] = e[j]
        \/ j - Len(e) \in 1..Len(Write(d)) /\ todo'[j] = Write(d)[j - Len(e)]
    BY <1>4, <1>5, <1>6, InEither
  <2> QED BY <1>4, <1>5, <2>1 DEF EarlyKinds, Expanders
<1> QED BY <1>1, <1>7, <1>8, Current, PlainLess DEF Shrinks

LEMMA EnterShrinks == ContextInv /\ Running /\ Enter => Shrinks
<1> SUFFICES ASSUME ContextInv, Running, Enter PROVE Shrinks
  OBVIOUS
<1> DEFINE v == Value(ReturnLocation(store[Reg("sp")]))
           w == Write(Reg("sp"))
           b == <<Task("BranchTo", Cell(v))>>
<1>1. todo[1].do \in Expanders
  BY Current DEF Enter, Doing, Expanders
<1>2. \/ todo' = <<>>
      \/ Valid(ReturnLocation(store[Reg("sp")])) /\ todo' \in {w \o b, <<>> \o b}
  BY DEF Enter, SkipReturn, Goes, Ends
<1>3. CASE Valid(ReturnLocation(store[Reg("sp")])) /\ todo' \in {w \o b, <<>> \o b}
  <2>1. v \in Values
    <3>1. store[Reg("sp")] \in Values BY Current, ConcreteAssumption DEF StoreTyped
    <3>2. ReturnLocation(store[Reg("sp")]) \in Places BY <3>1, Current, ReturnPlace DEF StoreTyped
    <3> QED BY <1>3, <3>2, Current, ValueTyped DEF Operands
  <2>2. b \in Seq(TaskSet) /\ Len(b) = 1 /\ b[1].do = "BranchTo"
    <3>1. Cell(v) \in Operands BY <2>1 DEF Operands, Places, Cells
    <3>2. Task("BranchTo", Cell(v)) \in TaskSet /\ Task("BranchTo", Cell(v)).do = "BranchTo"
      BY <3>1, TaskTyped DEF Kinds
    <3> QED BY <3>2
  <2>3. /\ w \in Seq(TaskSet) /\ Len(w) = NumHooks + 1
        /\ \A j \in 1..(NumHooks + 1) : w[j].do \in {"Store", "WriteHook"}
    <3>1. Reg("sp") \in Operands BY ConcreteAssumption DEF Operands, Places
    <3> QED BY <3>1, WriteListed, ConcreteAssumption
  <2> HIDE DEF v, w, b
  <2>4. <<>> \o b = b /\ DOMAIN b = 1..1
    BY <2>2
  <2>5. ASSUME todo' = w \o b, NEW j \in DOMAIN todo' PROVE todo'[j].do \notin Expanders
    <3>1. \/ j \in 1..Len(w) /\ todo'[j] = w[j]
          \/ j - Len(w) \in 1..Len(b) /\ todo'[j] = b[j - Len(w)]
      BY <2>2, <2>3, <2>5, InEither
    <3>2. CASE j \in 1..Len(w) /\ todo'[j] = w[j]
      BY <2>3, <3>2 DEF Expanders
    <3>3. CASE j - Len(w) \in 1..Len(b) /\ todo'[j] = b[j - Len(w)]
      <4>1. j - Len(w) = 1 BY <2>2, <3>3
      <4> QED BY <2>2, <3>3, <4>1 DEF Expanders
    <3> QED BY <3>1, <3>2, <3>3
  <2>6. ASSUME todo' = <<>> \o b, NEW j \in DOMAIN todo' PROVE todo'[j].do \notin Expanders
    BY <2>2, <2>4, <2>6 DEF Expanders
  <2>7. todo' \in Seq(TaskSet)
    <3>1. w \o b \in Seq(TaskSet) BY <2>2, <2>3, Concatenated
    <3> QED BY <1>3, <2>2, <2>4, <3>1
  <2> QED BY <1>1, <1>3, <2>5, <2>6, <2>7, Current, PlainLess DEF Shrinks
<1> QED BY <1>2, <1>3, EndShrinks

LEMMA AccessShrinks == ContextInv /\ Running /\ (Fetch \/ Store) => Shrinks
<1> SUFFICES ASSUME ContextInv, Running, Fetch \/ Store PROVE Shrinks
  OBVIOUS
<1>1. todo[1].do \in Accesses /\ Now.via \in Vias
  BY Current DEF Fetch, Store, Doing, Accesses
<1>2. \/ todo' = Rest \/ todo' = <<>>
      \/ Asking(Now.via, "Refetch") \/ Asking("Write", "Restore")
  BY DEF Fetch, Store, Put, Goes, Ends
<1> QED BY <1>1, <1>2, EndShrinks, RestShrinks, AskingShrinks DEF Deciding, Vias

\* The other tasks go on with the rest, or end the operation.
LEMMA StepShrinks == ContextInv /\ Step => Shrinks
<1> SUFFICES ASSUME ContextInv, Step PROVE Shrinks
  OBVIOUS
<1>1. Running
  BY DEF Step
<1>2. CASE HookFails \/ AccessHook \/ SteerHook \/ InvalidHook
  <2>1. todo' = Rest \/ todo' = <<>>
    BY <1>2 DEF HookFails, AccessHook, SteerHook, InvalidHook, Goes, Ends
  <2> QED BY <1>1, <2>1, EndShrinks, RestShrinks
<1>3. CASE Refetch \/ Restore
  <2>1. todo' = Rest \/ todo' = <<>>
    BY <1>3 DEF Refetch, Restore, Retried, Put, Goes, Ends
  <2> QED BY <1>1, <2>1, EndShrinks, RestShrinks
<1>4. CASE Sized \/ Compute \/ Divide \/ Jump \/ Decide \/ Aim \/ Handle
  <2>1. todo' = Rest \/ todo' = <<>>
    BY <1>4 DEF Sized, Compute, Divide, Jump, Decide, Flipped, Put, Aim, Handle, Goes, Ends
  <2> QED BY <1>1, <2>1, EndShrinks, RestShrinks
<1> QED
  BY <1>1, <1>2, <1>3, <1>4, AccessShrinks, DereferenceShrinks, EnterShrinks DEF Step

-----------------------------------------------------------------------------
(* The theorems.                                                           *)

\* In every state of every run the list of tasks is in order and agrees with
\* what was asked, read and written so far.
LEMMA ContextHolds == Spec => []ContextInv
BY ContextInit, ContextStep, PTL DEF Spec

\* Registers always hold a value, whatever hooks do to the state, and an
\* operation has tasks left exactly as long as it runs: none of interpreter.rs's
\* operations is left half done without an outcome.
THEOREM ContextTyped == Spec => []TypeOK
<1>1. ContextInv => TypeOK BY DEF ContextInv
<1> QED BY <1>1, ContextHolds, PTL

\* An operation that fails has written nothing, unless a hook failed that was
\* told of the write (interpreter.rs:333-347) or a flipped branch has no valid
\* target: nothing else that comes after write_operand may fail.
THEOREM FailuresClean == Spec => []FailsClean
<1>1. ContextInv => FailsClean BY DEF ContextInv
<1> QED BY <1>1, ContextHolds, PTL

\* With a PolicyHook among the hooks no write fails for want of memory, and with
\* it last no read of data does, whatever the others answer
\* (interpreter.rs:243-273, 294-328; microx.rs:130-146).
THEOREM PoliciesAnswer == Spec => []ViolationsAnswered
<1>1. ContextInv => ViolationsAnswered BY DEF ContextInv
<1> QED BY <1>1, ContextHolds, PTL

\* A conditional branch is taken if and only if its condition holds in the state
\* it leaves, also when hooks flip it (interpreter.rs:778-798).
THEOREM BranchesHold == Spec => []BranchesAsHeld
<1>1. ContextInv => BranchesAsHeld BY DEF ContextInv
<1> QED BY <1>1, ContextHolds, PTL

\* A skipped call goes where the function would have returned to, with the
\* stack popped (interpreter.rs:511-553), although the hooks told of the new
\* stack pointer run between the read of the return address and the branch.
THEOREM SkippedCallsReturn == Spec => []SkippedCallReturns
<1>1. ContextInv => SkippedCallReturns BY DEF ContextInv
<1> QED BY <1>1, ContextHolds, PTL

\* Every step of an operation leaves less of it to do, in an order without
\* infinite descent: read_operand_with and write_operand (interpreter.rs:243-347)
\* try an access twice at most, whatever the hooks claim, and what a load, a
\* store or a skipped call goes on with does not lead to another one.
THEOREM OperationsShrink ==
    Spec => [][Running => Measured(todo) /\ Measured(todo') /\ Shrinks]_vars
<1>1. ASSUME ContextInv, [Next]_vars
      PROVE  [Running => Measured(todo) /\ Measured(todo') /\ Shrinks]_vars
  <2> SUFFICES ASSUME Next, Running PROVE Measured(todo) /\ Measured(todo') /\ Shrinks
    BY <1>1
  <2>1. Step BY DEF Next, Begin, Running
  <2>2. ContextInv' BY <1>1, ContextStep
  <2>3. todo \in Seq(TaskSet) /\ todo' \in Seq(TaskSet)
    BY <1>1, <2>2 DEF ContextInv, Typed, WellFormed
  <2> QED BY <1>1, <2>1, <2>3, StepShrinks, ListMeasured
<1> QED BY <1>1, ContextHolds, PTL DEF Spec
=============================================================================
