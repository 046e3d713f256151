--------------------------- MODULE AppLocalProofs ---------------------------
(***************************************************************************)
(* Proofs about applocal.ps1, for any number of deployers, trees and DLLs: *)
(* the directory that deployers share is closed in the end, and a          *)
(* half-written DLL is read only where that does no harm.                  *)
(*                                                                         *)
(* The times of a DLL in the directory only grow, because the mutex covers *)
(* the comparison and the copy together.  So what a deployer has found     *)
(* good enough for its tree stays so, and whoever writes a DLL has the     *)
(* search for that DLL's dependencies still ahead of it.                   *)
(***************************************************************************)
EXTENDS AppLocal, SequenceTheorems, TLAPS

\* The calls of resolve.
Frames == [binary : Files \cup {Root}, todo : Seq(Files)]

\* The elements of a sequence.
Items(t) == {t[j] : j \in DOMAIN t}

\* The DLLs in the loops of the calls of resolve in s.
Pending(s) == {g \in Files : \E i \in DOMAIN s : g \in Items(s[i].todo)}

\* A deployer has met g or will meet it.
Reached(d) == searched[d] \cup Pending(stack[d])

\* What the f of tree s needs from s.
Needs(s, f) == Items(Deps[s, f]) \cap Provided[s]

\* Where a deployer is in deployBinary.
HasFile == {"wait", "compare", "copy", "release"}

\* d writes f, or was killed while it did.
Writes(d, f) == Top(d).todo # <<>> /\ File(d) = f /\ from[d] = target[f].origin

\* f was half written by a deployer that was stopped.
Abandoned(f) == ~target[f].whole /\ \A q \in Deployers : pc[q] = "copy" => File(q) # f

\* The g in the directory, or the one that is being written, will do for tree s.
Settled(s, g) ==
  target[g].there /\ (Time[s, g] <= Time[target[g].origin, g] \/ Abandoned(g))

\* Where a deployer is.
Place(d) ==
  /\ stack[d] \in Seq(Frames)
  /\ pc[d] \in Running => stack[d] # <<>>
  /\ pc[d] = "done" => stack[d] = <<>>
  /\ pc[d] = "dump" =>
       /\ Top(d).todo = <<>>
       /\ Top(d).binary # Root =>
            Top(d).binary \in searched[d] /\ target[Top(d).binary].there
  /\ pc[d] \in HasFile =>
       Top(d).todo # <<>> /\ File(d) \in searched[d] /\ File(d) \in Provided[from[d]]
  /\ pc[d] \in {"compare", "copy", "release"} => mutex = d
  /\ pc[d] \in {"copy", "release"} => target[File(d)].there
  /\ pc[d] = "copy" => Writes(d, File(d)) /\ ~target[File(d)].whole

\* The files in the directory.
FilesOK ==
  \A f \in Files :
    /\ target[f].whole => target[f].there /\ target[f].time = Time[target[f].origin, f]
    /\ target[f].there /\ ~target[f].whole =>
         /\ target[f].time = Now
         /\ \E q \in Deployers : pc[q] \in {"copy", "killed"} /\ Writes(q, f)

\* What a deployer has met will do, but for what it is about to compare.
SearchedOK ==
  ~copyFailed =>
    \A d \in Deployers : pc[d] \in Running \cup {"done"} =>
      \A g \in searched[d] \cap Provided[from[d]] :
        Settled(from[d], g) \/ (pc[d] \in {"wait", "compare"} /\ g = File(d))

\* A DLL that is being replaced had not been good enough for its tree: the
\* other deployers for this tree have not met it, or wait for the mutex.
CopiedOnce ==
  ~copyFailed =>
    \A q, d \in Deployers :
      /\ pc[q] = "copy" /\ d # q /\ from[d] = from[q]
      /\ pc[d] \in Running \cup {"done"} /\ File(q) \in searched[d]
      => pc[d] = "wait" /\ File(d) = File(q)

\* A copy failed, or a deployer was stopped.
Trouble == copyFailed \/ \E q \in Deployers : pc[q] \in {"killed", "failed"}

\* d resolves f, or has it ahead.
TakesCare(d, f) ==
  \/ pc[d] \in {"copy", "release"} /\ File(d) = f
  \/ pc[d] = "dump" /\ Top(d).binary = f
  \/ Needs(from[d], f) \subseteq Reached(d)

\* Every binary and every DLL in the directory has a deployer that resolves it.
AllResolved ==
  ~Trouble =>
    /\ \A d \in Deployers : TakesCare(d, Root)
    /\ \A f \in Files : target[f].there /\ target[f].origin \in Sources =>
         \E d \in Deployers : from[d] = target[f].origin /\ TakesCare(d, f)

\* The inductive invariant.
DeployInv ==
  /\ TypeOK /\ (\A d \in Deployers : Place(d)) 
  /\ FilesOK /\ SearchedOK /\ CopiedOnce /\ AllResolved

-----------------------------------------------------------------------------
(***************************************************************************)
(* The stack of calls                                                      *)
(***************************************************************************)

\* A call on top of others.
LEMMA PushedFrame ==
  ASSUME NEW s \in Seq(Frames), NEW x \in Frames
  PROVE  /\ Append(s, x) \in Seq(Frames) /\ Append(s, x) # <<>>
         /\ Append(s, x)[Len(Append(s, x))] = x
         /\ Pending(Append(s, x)) = Pending(s) \cup Items(x.todo)
<1> DEFINE a == Append(s, x)
<1>1. a \in Seq(Frames) /\ Len(a) = Len(s) + 1 /\ Len(s) \in Nat /\ a[Len(s) + 1] = x
        /\ \A i \in 1..Len(s) : a[i] = s[i]
  OBVIOUS
<1>2. a # <<>> /\ a[Len(a)] = x
  BY <1>1
<1>3. DOMAIN s = 1..Len(s) /\ DOMAIN a = 1..Len(a) /\ Len(a) \in DOMAIN a
  BY <1>1
<1>4. DOMAIN a = DOMAIN s \cup {Len(a)} /\ \A i \in DOMAIN s : a[i] = s[i]
  BY <1>1, <1>3
<1>5. Items(x.todo) \subseteq Files
  BY DEF Items, Frames
<1> HIDE DEF a
<1>6. Pending(a) = Pending(s) \cup Items(x.todo)
  BY <1>2, <1>4, <1>5, Zenon DEF Pending
<1> QED
  BY <1>1, <1>2, <1>6 DEF a

\* A sequence without elements.
LEMMA NoLength ==
  ASSUME NEW S, NEW s \in Seq(S), Len(s) = 0
  PROVE  s = <<>>
BY EmptySeq

\* The top call, and those below it.
LEMMA TopFrame ==
  ASSUME NEW s \in Seq(Frames), s # <<>>
  PROVE  /\ s[Len(s)] \in Frames /\ SubSeq(s, 1, Len(s) - 1) \in Seq(Frames)
         /\ Pending(s) = Pending(SubSeq(s, 1, Len(s) - 1)) \cup Items(s[Len(s)].todo)
         /\ Len(s) = 1 => SubSeq(s, 1, Len(s) - 1) = <<>>
         /\ Len(s) # 1 => SubSeq(s, 1, Len(s) - 1) # <<>>
<1> DEFINE b == SubSeq(s, 1, Len(s) - 1)
<1>1. Len(s) \in Nat \ {0} /\ DOMAIN s = 1..Len(s) /\ s[Len(s)] \in Frames
  BY EmptySeq
<1>2. b \in Seq(Frames) /\ Len(b) = Len(s) - 1 /\ \A i \in 1..Len(s) - 1 : b[i] = s[i]
  BY <1>1, SubSeqProperties
<1>3. DOMAIN s = DOMAIN b \cup {Len(s)} /\ \A i \in DOMAIN b : b[i] = s[i]
  BY <1>1, <1>2
<1>4. ASSUME Len(s) = 1 PROVE b = <<>>
  <2>1. Len(b) = 0 /\ b \in Seq(Frames)
    BY <1>2, <1>4
  <2> HIDE DEF b
  <2> QED
    BY <2>1, NoLength, Zenon
<1>5. ASSUME Len(s) # 1 PROVE b # <<>>
  <2>1. Len(b) # 0
    BY <1>1, <1>2, <1>5
  <2>2. Len(<<>>) = 0
    BY EmptySeq
  <2> HIDE DEF b
  <2> QED
    BY <2>1, <2>2
<1>6. Items(s[Len(s)].todo) \subseteq Files
  BY <1>1 DEF Items, Frames
<1> HIDE DEF b
<1>7. Pending(s) = Pending(b) \cup Items(s[Len(s)].todo)
  BY <1>3, <1>6, Zenon DEF Pending
<1> QED
  BY <1>1, <1>2, <1>4, <1>5, <1>7 DEF b

\* The rest of a loop, after its first DLL.
LEMMA LoopAdvances ==
  ASSUME NEW t \in Seq(Files), t # <<>>
  PROVE  /\ Head(t) \in Files /\ Tail(t) \in Seq(Files)
         /\ Items(t) \subseteq {Head(t)} \cup Items(Tail(t))
<1>1. Len(t) \in Nat \ {0} /\ DOMAIN t = 1..Len(t)
  BY EmptySeq
<1>2. Head(t) = t[1] /\ Head(t) \in Files /\ Tail(t) \in Seq(Files) /\ Len(Tail(t)) = Len(t) - 1
        /\ \A i \in 1..Len(Tail(t)) : Tail(t)[i] = t[i + 1]
  BY <1>1
<1>3. ASSUME NEW i \in DOMAIN t, i # 1 PROVE t[i] \in Items(Tail(t))
  <2>1. i - 1 \in 1..Len(Tail(t)) /\ (i - 1) + 1 = i /\ DOMAIN Tail(t) = 1..Len(Tail(t))
    BY <1>1, <1>2, <1>3
  <2>2. Tail(t)[i - 1] = t[i] /\ i - 1 \in DOMAIN Tail(t)
    BY <1>2, <2>1
  <2> QED
    BY <2>2 DEF Items
<1> QED
  BY <1>2, <1>3 DEF Items

\* What deployer d has on its stack when it is in a loop, and when it goes on.
LEMMA StackOfLoop ==
  ASSUME NEW d \in Deployers, stack[d] \in Seq(Frames), stack[d] # <<>>
  PROVE  /\ Top(d) \in Frames /\ Top(d).todo \in Seq(Files) /\ Top(d).binary \in Files \cup {Root}
         /\ Below(d) \in Seq(Frames)
         /\ Pending(stack[d]) = Pending(Below(d)) \cup Items(Top(d).todo)
         /\ Len(stack[d]) = 1 => Below(d) = <<>>
         /\ Len(stack[d]) # 1 => Below(d) # <<>>
         /\ Top(d).todo # <<>> =>
              /\ File(d) \in Files
              /\ Advanced(d) \in Seq(Frames) /\ Advanced(d) # <<>>
              /\ Pending(stack[d]) \subseteq Pending(Advanced(d)) \cup {File(d)}
<1>1. /\ Top(d) \in Frames /\ Below(d) \in Seq(Frames)
      /\ Pending(stack[d]) = Pending(Below(d)) \cup Items(Top(d).todo)
      /\ Len(stack[d]) = 1 => Below(d) = <<>>
      /\ Len(stack[d]) # 1 => Below(d) # <<>>
  BY TopFrame DEF Top, Below
<1>2. Top(d).todo \in Seq(Files) /\ Top(d).binary \in Files \cup {Root}
  BY <1>1 DEF Frames
<1>3. ASSUME Top(d).todo # <<>>
      PROVE  /\ File(d) \in Files
             /\ Advanced(d) \in Seq(Frames) /\ Advanced(d) # <<>>
             /\ Pending(stack[d]) \subseteq Pending(Advanced(d)) \cup {File(d)}
  <2> DEFINE x == [Top(d) EXCEPT !.todo = Tail(@)]
  <2>1. File(d) \in Files /\ Tail(Top(d).todo) \in Seq(Files)
          /\ Items(Top(d).todo) \subseteq {File(d)} \cup Items(Tail(Top(d).todo))
    BY <1>2, <1>3, LoopAdvances DEF File
  <2>2. \A y \in Frames, t \in Seq(Files) :
          [y EXCEPT !.todo = t] \in Frames /\ [y EXCEPT !.todo = t].todo = t
    BY DEF Frames
  <2>3. x \in Frames /\ x.todo = Tail(Top(d).todo)
    BY <1>1, <2>1, <2>2
  <2>4. Advanced(d) = Append(Below(d), x)
    BY DEF Advanced
  <2> HIDE DEF x
  <2>5. Advanced(d) \in Seq(Frames) /\ Advanced(d) # <<>>
          /\ Pending(Advanced(d)) = Pending(Below(d)) \cup Items(x.todo)
    BY <1>1, <2>3, <2>4, PushedFrame
  <2> QED
    BY <1>1, <2>1, <2>3, <2>5
<1> QED
  BY <1>1, <1>2, <1>3

\* A call of resolve for b begins with nothing in its loop.
LEMMA NewCall ==
  ASSUME NEW b \in Files \cup {Root}
  PROVE  Call(b) \in Frames /\ Call(b).binary = b /\ Call(b).todo = <<>> /\ Items(<<>>) = {}
<1>1. <<>> \in Seq(Files) /\ DOMAIN <<>> = {}
  OBVIOUS
<1> QED
  BY <1>1, Zenon DEF Call, Frames, Items

-----------------------------------------------------------------------------
(***************************************************************************)
(* What the other deployers see of a step                                  *)
(***************************************************************************)

\* Nothing of another deployer than d changes.
OnlyMoves(d) ==
  /\ from' = from
  /\ \A q \in Deployers \ {d} :
       pc'[q] = pc[q] /\ stack'[q] = stack[q] /\ searched'[q] = searched[q]

\* A step of d changes nothing of the other deployers.
LEMMA OneMoves ==
  ASSUME TypeOK, NEW d \in Deployers, Step(d) \/ Kill(d)
  PROVE  OnlyMoves(d)
<1>1. CASE Dump(d) \/ Skip(d) \/ Search(d) \/ Return(d)
  BY <1>1 DEF Dump, Skip, Search, Return, Goto, Resolve, TypeOK, OnlyMoves
<1>2. CASE Wait(d) \/ Compare(d) \/ Copy(d) \/ Release(d) \/ Kill(d)
  BY <1>2 DEF Wait, Compare, Copy, Release, Kill, Goto, Resolve, TypeOK, OnlyMoves
<1> QED
  BY <1>1, <1>2 DEF Step

\* So the others have their stacks, files and searches as before.
LEMMA OthersStay ==
  ASSUME NEW d \in Deployers, OnlyMoves(d), NEW q \in Deployers, q # d
  PROVE  /\ pc'[q] = pc[q] /\ searched'[q] = searched[q] /\ stack'[q] = stack[q]
         /\ from'[q] = from[q]
         /\ Top(q)' = Top(q) /\ File(q)' = File(q) /\ Reached(q)' = Reached(q)
BY DEF OnlyMoves, Top, File, Reached, Pending

\* The times of the files of the trees.
LEMMA Times ==
  /\ \A s \in Origins, f \in Files : Time[s, f] \in Nat
  /\ \A s \in Sources, f \in Files : Time[s, f] < Now
  /\ Now \in Nat /\ Sources \subseteq Origins
BY TreesAssumption DEF Origins

\* The order of the times.
LEMMA NatOrder ==
  /\ \A k, m, n \in Nat : k <= m /\ m < n => k <= n
  /\ \A k, m \in Nat : k < m => ~(m <= k) /\ ~(m < k) /\ k <= m /\ k # m
  /\ \A k, m \in Nat : ~(k < m) => m <= k
  /\ \A k \in Nat : k <= k
OBVIOUS

\* The mutex is held by one deployer.
LEMMA MutexHolds ==
  ASSUME DeployInv, NEW d \in Deployers, NEW q \in Deployers,
         pc[d] \in {"compare", "copy", "release"}, pc[q] \in {"compare", "copy", "release"}
  PROVE  q = d
BY DEF DeployInv, Place

\* The steps that do not write to the directory.
LEMMA FilesStay ==
  ASSUME NEW d \in Deployers,
         \/ Dump(d) \/ Skip(d) \/ Search(d) \/ Return(d) \/ Wait(d) \/ Release(d) \/ Kill(d)
  PROVE  target' = target /\ copyFailed' = copyFailed
BY DEF Dump, Skip, Search, Return, Wait, Release, Kill, files

\* What the deployer that compares knows of the file if it has to copy it.
LEMMA ReplacedIsOlder ==
  ASSUME DeployInv, NEW d \in Deployers, pc[d] = "compare", NeedsCopy(d)
  PROVE  target[File(d)].there =>
           /\ target[File(d)].whole
           /\ Time[target[File(d)].origin, File(d)] < Time[from[d], File(d)]
<1> DEFINE f == File(d)
<1>1. from[d] \in Sources /\ f \in Files /\ target[f].time \in Nat
  <2>1. f \in Files
    BY StackOfLoop DEF DeployInv, Place, HasFile, Running
  <2> QED
    BY <2>1 DEF DeployInv, TypeOK
<1> SUFFICES ASSUME target[f].there
             PROVE  target[f].whole /\ Time[target[f].origin, f] < Time[from[d], f]
  OBVIOUS
<1>2. target[f].time < Time[from[d], f]
  BY DEF NeedsCopy
<1>3. target[f].whole
  <2>1. Time[from[d], f] < Now /\ Time[from[d], f] \in Nat /\ Now \in Nat
    BY <1>1, Times
  <2>2. target[f].time # Now
    <3>1. \A k, m, n \in Nat : k < m /\ m < n => k # n
      OBVIOUS
    <3> QED
      BY <1>1, <1>2, <2>1, <3>1, Zenon
  <2> QED
    BY <1>1, <2>2 DEF DeployInv, FilesOK
<1>4. target[f].time = Time[target[f].origin, f]
  BY <1>1, <1>3 DEF DeployInv, FilesOK
<1> QED
  BY <1>2, <1>3, <1>4

\* Compare, in its three branches.
LEMMA CompareCases ==
  ASSUME DeployInv, NEW d \in Deployers, Compare(d)
  PROVE  /\ pc[d] = "compare" /\ File(d) \in Files /\ from[d] \in Sources
         /\ stack' = stack /\ File(d)' = File(d) /\ Top(d)' = Top(d)
         /\ mutex' = mutex /\ searched' = searched /\ from' = from
         /\ \/ ~NeedsCopy(d) /\ pc'[d] = "release" /\ target' = target /\ copyFailed' = copyFailed
            \/ /\ NeedsCopy(d) /\ pc'[d] = "copy" /\ copyFailed' = copyFailed
               /\ \A g \in Files \ {File(d)} : target'[g] = target[g]
               /\ target'[File(d)].origin = from[d] /\ target'[File(d)].time = Now
               /\ target'[File(d)].there /\ ~target'[File(d)].whole
            \/ target[File(d)].there /\ pc'[d] = "release" /\ target' = target /\ copyFailed' = TRUE
<1>1. File(d) \in Files /\ from[d] \in Sources
  BY StackOfLoop DEF Compare, DeployInv, Place, HasFile, Running, TypeOK
<1>2. stack' = stack /\ mutex' = mutex /\ searched' = searched /\ from' = from
  BY DEF Compare, lock
<1>3. File(d)' = File(d) /\ Top(d)' = Top(d)
  BY <1>2 DEF File, Top
<1> DEFINE new == [origin |-> from[d], time |-> Now, there |-> TRUE, whole |-> FALSE]
<1>4. \/ ~NeedsCopy(d) /\ pc'[d] = "release" /\ target' = target /\ copyFailed' = copyFailed
      \/ /\ NeedsCopy(d) /\ pc'[d] = "copy" /\ copyFailed' = copyFailed
         /\ target' = [target EXCEPT ![File(d)] = new]
      \/ target[File(d)].there /\ pc'[d] = "release" /\ target' = target /\ copyFailed' = TRUE
  BY DEF Compare, Goto, DeployInv, TypeOK, files
<1>5. new.origin = from[d] /\ new.time = Now /\ new.there /\ ~new.whole
  OBVIOUS
<1> HIDE DEF new
<1>6. target' = [target EXCEPT ![File(d)] = new] =>
        target'[File(d)] = new /\ \A g \in Files \ {File(d)} : target'[g] = target[g]
  BY <1>1 DEF DeployInv, TypeOK
<1> QED
  BY <1>1, <1>2, <1>3, <1>4, <1>5, <1>6 DEF Compare

\* Copy gives the file the time of its source.
LEMMA CopyEffect ==
  ASSUME DeployInv, NEW d \in Deployers, Copy(d)
  PROVE  /\ pc[d] = "copy" /\ pc'[d] = "release" /\ File(d) \in Files /\ from[d] \in Sources
         /\ stack' = stack /\ File(d)' = File(d) /\ Top(d)' = Top(d)
         /\ mutex' = mutex /\ searched' = searched /\ from' = from /\ copyFailed' = copyFailed
         /\ target[File(d)].origin = from[d]
         /\ \A g \in Files \ {File(d)} : target'[g] = target[g]
         /\ target'[File(d)] = OfSource(from[d], File(d))
<1>1. File(d) \in Files /\ from[d] \in Sources /\ target[File(d)].origin = from[d]
  BY StackOfLoop DEF Copy, DeployInv, Place, HasFile, Running, TypeOK, Writes
<1>2. stack' = stack /\ mutex' = mutex /\ searched' = searched /\ from' = from
        /\ copyFailed' = copyFailed
  BY DEF Copy, lock
<1>3. File(d)' = File(d) /\ Top(d)' = Top(d)
  BY <1>2 DEF File, Top
<1> QED
  BY <1>1, <1>2, <1>3 DEF Copy, Goto, DeployInv, TypeOK

\* A file that is there stays there.
LEMMA ThereStays ==
  ASSUME DeployInv, NEW d \in Deployers, Step(d) \/ Kill(d), NEW g \in Files, target[g].there
  PROVE  target'[g].there
<1>1. CASE Compare(d)
  <2>1. CASE g = File(d)
    <3>1. CASE target' = target
      BY <3>1
    <3>2. CASE target'[File(d)].there
      BY <2>1, <3>2
    <3> QED
      BY <1>1, <3>1, <3>2, CompareCases
  <2>2. CASE g # File(d)
    BY <1>1, <2>2, CompareCases
  <2> QED
    BY <2>1, <2>2
<1>2. CASE Copy(d)
  <2>1. OfSource(from[d], g).there
    BY DEF OfSource
  <2>2. target'[g] = target[g] \/ target'[g] = OfSource(from[d], g)
    BY <1>2, CopyEffect, Zenon
  <2> QED
    BY <2>1, <2>2
<1> QED
  BY <1>1, <1>2, FilesStay DEF Step

\* Only Compare starts a copy.
LEMMA CopiesStart ==
  ASSUME DeployInv, NEW d \in Deployers, Step(d) \/ Kill(d), NEW q \in Deployers,
         pc'[q] = "copy", ~Compare(d)
  PROVE  pc[q] = "copy" /\ q # d /\ File(q)' = File(q) /\ Top(q)' = Top(q)
<1>1. OnlyMoves(d)
  BY OneMoves DEF DeployInv
<1>2. pc'[d] # "copy"
  BY CopyEffect DEF Step, Kill, Dump, Skip, Search, Return, Wait, Release, Goto,
     DeployInv, TypeOK
<1> QED
  BY <1>1, <1>2, OthersStay

\* What is good enough for a tree stays so: the times only grow.
LEMMA SettledStays ==
  ASSUME DeployInv, NEW d \in Deployers, Step(d) \/ Kill(d),
         NEW s \in Sources, NEW g \in Files, Settled(s, g)
  PROVE  Settled(s, g)'
<1>1. target'[g].there
  BY ThereStays DEF Settled
<1>2. CASE target'[g] = target[g] /\ ~Compare(d)
  <2>1. Abandoned(g) => Abandoned(g)'
    BY <1>2, CopiesStart DEF Abandoned
  <2> QED
    BY <1>2, <2>1 DEF Settled
<1>3. CASE Compare(d)
  <2>1. \A q \in Deployers : File(q)' = File(q)
    BY <1>3, CompareCases DEF File, Top
  <2>2. \A q \in Deployers \ {d} : pc'[q] = pc[q]
    BY OneMoves DEF DeployInv, OnlyMoves
  <2>3. CASE g # File(d)
    <3>1. target'[g] = target[g]
      BY <1>3, <2>3, CompareCases
    <3>2. Abandoned(g) => Abandoned(g)'
      BY <2>1, <2>2, <2>3, <3>1 DEF Abandoned
    <3> QED
      BY <3>1, <3>2 DEF Settled
  <2>4. CASE g = File(d) /\ target' = target /\ pc'[d] = "release"
    <3>1. Abandoned(g) => Abandoned(g)'
      BY <2>1, <2>2, <2>4 DEF Abandoned
    <3> QED
      BY <2>4, <3>1 DEF Settled
  <2>5. CASE /\ g = File(d) /\ NeedsCopy(d)
             /\ target'[File(d)].origin = from[d]
    <3>1. target[g].whole /\ Time[target[g].origin, g] < Time[from[d], g]
      BY <1>3, <2>5, CompareCases, ReplacedIsOlder DEF Settled
    <3>2. Time[s, g] <= Time[target[g].origin, g]
      BY <3>1 DEF Settled, Abandoned
    <3>3. from[d] \in Sources /\ target[g].origin \in Origins
      BY <1>3, CompareCases DEF DeployInv, TypeOK
    <3>4. /\ Time[s, g] \in Nat /\ Time[target[g].origin, g] \in Nat /\ Time[from[d], g] \in Nat
      BY <3>3, Times
    <3>5. Time[s, g] <= Time[from[d], g]
      <4>1. \A k, m, n \in Nat : k <= m /\ m < n => k <= n
        OBVIOUS
      <4> QED
        BY <3>1, <3>2, <3>4, <4>1, Zenon
    <3>6. target'[g].origin = from[d]
      BY <2>5
    <3> QED
      BY <1>1, <3>5, <3>6, Zenon DEF Settled
  <2> QED
    BY <1>3, <2>3, <2>4, <2>5, CompareCases
<1>4. CASE Copy(d)
  <2>1. CASE g # File(d)
    BY <1>2, <1>4, <2>1, CopyEffect DEF Copy, Compare
  <2>2. CASE g = File(d)
    <3>1. pc[d] = "copy" /\ target[g].origin = from[d] /\ target'[g] = OfSource(from[d], g)
      BY <1>4, <2>2, CopyEffect
    <3>2. Time[s, g] <= Time[from[d], g]
      BY <2>2, <3>1 DEF Settled, Abandoned
    <3>3. target'[g].origin = from[d]
      <4>1. OfSource(from[d], g).origin = from[d]
        BY DEF OfSource
      <4> QED
        BY <3>1, <4>1
    <3> QED
      BY <1>1, <3>2, <3>3, Zenon DEF Settled
  <2> QED
    BY <2>1, <2>2
<1> QED
  BY <1>2, <1>3, <1>4, FilesStay DEF Step

\* No step changes where another deployer is.
LEMMA OthersPlace ==
  ASSUME DeployInv, NEW d \in Deployers, Step(d) \/ Kill(d), NEW q \in Deployers, q # d
  PROVE  Place(q)'
<1>1. OnlyMoves(d) /\ Place(q) /\ Place(d)
  BY OneMoves DEF DeployInv
<1>2. /\ pc'[q] = pc[q] /\ searched'[q] = searched[q] /\ stack'[q] = stack[q]
      /\ from'[q] = from[q] /\ Top(q)' = Top(q) /\ File(q)' = File(q)
  BY <1>1, OthersStay
<1>3. pc[q] \in {"compare", "copy", "release"} => mutex' = q
  <2> SUFFICES ASSUME pc[q] \in {"compare", "copy", "release"} PROVE mutex' = q
    OBVIOUS
  <2>1. mutex = q /\ pc[d] \notin {"compare", "copy", "release"} /\ q # Free
    BY <1>1, MutexHolds, NamesAssumption DEF Place
  <2> QED
    BY <2>1 DEF Step, Dump, Skip, Search, Return, Wait, Compare, Copy, Release, Kill, lock
<1>4. pc[q] = "copy" => target'[File(q)] = target[File(q)] /\ File(q) \in Files
  <2> SUFFICES ASSUME pc[q] = "copy" PROVE target'[File(q)] = target[File(q)] /\ File(q) \in Files
    OBVIOUS
  <2>1. pc[d] \notin {"compare", "copy"}
    BY MutexHolds
  <2>2. File(q) \in Files
    BY <1>1, StackOfLoop DEF Place, HasFile, Running
  <2> QED
    BY <2>1, <2>2, FilesStay DEF Step, Compare, Copy
<1>5. \A g \in Files : target[g].there => target'[g].there
  BY ThereStays
<1>6. pc[q] \in {"copy", "release"} => File(q) \in Files
  BY <1>1, StackOfLoop DEF Place, HasFile, Running
<1>7. pc[q] = "dump" /\ Top(q).binary # Root => Top(q).binary \in Files
  BY <1>1, StackOfLoop DEF Place, Running
<1> QED
  BY <1>1, <1>2, <1>3, <1>4, <1>5, <1>6, <1>7 DEF Place, Writes

-----------------------------------------------------------------------------
(***************************************************************************)
(* The types of the state, and where the deployer is after its step        *)
(***************************************************************************)

\* What a deployer has before any of its steps.
LEMMA RunsOnStack ==
  ASSUME DeployInv, NEW d \in Deployers, pc[d] \in Running
  PROVE  /\ stack[d] \in Seq(Frames) /\ stack[d] # <<>> /\ from[d] \in Sources
         /\ Top(d).todo \in Seq(Files) /\ Top(d) \in Frames
         /\ Below(d) \in Seq(Frames)
         /\ Top(d).todo # <<>> => File(d) \in Files /\ Advanced(d) \in Seq(Frames)
BY StackOfLoop DEF DeployInv, Place, TypeOK

\* The list of dependencies that dumpbin prints.
LEMMA DumpedTypes ==
  ASSUME DeployInv, NEW d \in Deployers, pc[d] = "dump"
  PROVE  /\ Dumped(d) \in Seq(Files)
         /\ [Top(d) EXCEPT !.todo = Dumped(d)] \in Frames
         /\ [Top(d) EXCEPT !.todo = Dumped(d)].todo = Dumped(d)
<1>1. Top(d) \in Frames /\ from[d] \in Sources /\ Top(d).binary \in Files \cup {Root}
  BY RunsOnStack DEF Running, Frames
<1>2. <<>> \in Seq(Files) /\ \A s \in Origins, f \in Files \cup {Root} : Deps[s, f] \in Seq(Files)
  BY TreesAssumption, EmptySeq
<1>3. \A f \in Files : target[f].origin \in Origins
  BY DEF DeployInv, TypeOK
<1>4. Dumped(d) \in Seq(Files)
  BY <1>1, <1>2, <1>3, Zenon DEF Dumped, Origins
<1>5. \A x \in Frames, t \in Seq(Files) :
        [x EXCEPT !.todo = t] \in Frames /\ [x EXCEPT !.todo = t].todo = t
  BY DEF Frames
<1> QED
  BY <1>1, <1>4, <1>5

\* The new stack of resolve.
LEMMA ResolveStack ==
  ASSUME DeployInv, NEW d \in Deployers, pc[d] \in Running, Top(d).todo # <<>>,
         Resolve(d, File(d))
  PROVE  /\ stack'[d] \in Seq(Frames) /\ stack'[d] # <<>>
         /\ Top(d)' = Call(File(d))
         /\ Top(d)'.todo = <<>> /\ Top(d)'.binary = File(d)
         /\ Pending(stack[d]) \subseteq Pending(stack'[d]) \cup {File(d)}
<1>1. /\ File(d) \in Files /\ Advanced(d) \in Seq(Frames)
      /\ Pending(stack[d]) \subseteq Pending(Advanced(d)) \cup {File(d)}
  BY RunsOnStack, StackOfLoop
<1>2. Call(File(d)) \in Frames /\ Call(File(d)).binary = File(d) /\ Call(File(d)).todo = <<>>
  BY <1>1, NewCall
<1>3. stack'[d] = Append(Advanced(d), Call(File(d)))
  BY DEF Resolve, DeployInv, TypeOK
<1>4. /\ stack'[d] \in Seq(Frames) /\ stack'[d] # <<>>
      /\ stack'[d][Len(stack'[d])] = Call(File(d))
      /\ Pending(Advanced(d)) \subseteq Pending(stack'[d])
  BY <1>1, <1>2, <1>3, PushedFrame
<1> QED
  BY <1>1, <1>2, <1>4 DEF Top

\* The two ways to write the type of a stack.
LEMMA StackTypes == Seq(Frames) = Seq([binary : Files \cup {Root}, todo : Seq(Files)])
BY DEF Frames

\* The deployer reads dependencies.
LEMMA DumpPlace ==
  ASSUME DeployInv, NEW d \in Deployers, Dump(d)
  PROVE  /\ TypeOK' /\ Place(d)' /\ pc'[d] = "loop"
         /\ Reached(d) \cup Items(Dumped(d)) \subseteq Reached(d)'
<1> DEFINE x == [Top(d) EXCEPT !.todo = Dumped(d)]
<1>1. pc[d] = "dump" /\ Below(d) \in Seq(Frames) /\ stack[d] \in Seq(Frames) /\ stack[d] # <<>>
        /\ Top(d).todo = <<>>
  BY RunsOnStack DEF Dump, Running, DeployInv, Place
<1>2. x \in Frames /\ x.todo = Dumped(d)
  BY <1>1, DumpedTypes
<1>3. stack' = [stack EXCEPT ![d] = Append(Below(d), x)] /\ pc' = [pc EXCEPT ![d] = "loop"]
  BY DEF Dump, Goto
<1> HIDE DEF x
<1>4. /\ Append(Below(d), x) \in Seq(Frames) /\ Append(Below(d), x) # <<>>
      /\ Pending(Append(Below(d), x)) = Pending(Below(d)) \cup Items(Dumped(d))
  BY <1>1, <1>2, PushedFrame
<1>5. Pending(stack[d]) = Pending(Below(d)) \cup {}
  <2>1. Items(<<>>) = {}
    BY NewCall
  <2> QED
    BY <1>1, <2>1, StackOfLoop
<1>6. stack'[d] = Append(Below(d), x) /\ pc'[d] = "loop"
  BY <1>3 DEF DeployInv, TypeOK
<1>7. TypeOK'
  <2>1. stack' \in [Deployers -> Seq(Frames)]
    BY <1>3, <1>4, StackTypes DEF DeployInv, TypeOK
  <2> QED
    BY <1>3, <2>1, StackTypes DEF Dump, DeployInv, TypeOK, Running, files, lock
<1>8. Place(d)'
  BY <1>4, <1>6 DEF Place, HasFile
<1>9. Reached(d) \cup Items(Dumped(d)) \subseteq Reached(d)'
  BY <1>4, <1>5, <1>6 DEF Dump, Reached
<1> QED
  BY <1>6, <1>7, <1>8, <1>9

\* It passes over a dependency.
LEMMA SkipPlace ==
  ASSUME DeployInv, NEW d \in Deployers, Skip(d)
  PROVE  /\ TypeOK' /\ Place(d)' /\ pc'[d] = "loop" /\ Reached(d) \subseteq Reached(d)'
         /\ searched'[d] = searched[d] \cup {File(d)}
         /\ File(d) \in Files /\ (File(d) \in searched[d] \/ File(d) \notin Provided[from[d]])
<1>1. /\ pc[d] = "loop" /\ Top(d).todo # <<>> /\ File(d) \in Files
      /\ Advanced(d) \in Seq(Frames) /\ Advanced(d) # <<>>
      /\ Pending(stack[d]) \subseteq Pending(Advanced(d)) \cup {File(d)}
  BY RunsOnStack, StackOfLoop DEF Skip, Running
<1>2. stack'[d] = Advanced(d) /\ searched'[d] = searched[d] \cup {File(d)} /\ pc' = pc
  BY DEF Skip, DeployInv, TypeOK
<1>3. TypeOK'
  <2>1. stack' \in [Deployers -> Seq(Frames)]
    BY <1>1, StackTypes DEF Skip, DeployInv, TypeOK
  <2> QED
    BY <1>1, <2>1, StackTypes DEF Skip, DeployInv, TypeOK, files, lock
<1>4. Place(d)'
  BY <1>1, <1>2 DEF Place, HasFile
<1>5. Reached(d) \subseteq Reached(d)'
  BY <1>1, <1>2 DEF Reached
<1> QED
  BY <1>1, <1>2, <1>3, <1>4, <1>5 DEF Skip

\* It searches a dependency.
LEMMA SearchPlace ==
  ASSUME DeployInv, NEW d \in Deployers, Search(d)
  PROVE  /\ TypeOK' /\ Place(d)' /\ Reached(d) \subseteq Reached(d)'
         /\ searched'[d] = searched[d] \cup {File(d)} /\ File(d) \in Files
         /\ pc'[d] \in {"wait", "dump"}
         /\ File(d) \in Provided[from[d]] => pc'[d] = "wait" /\ File(d)' = File(d)
<1>1. /\ pc[d] = "loop" /\ Top(d).todo # <<>> /\ File(d) \in Files
      /\ stack[d] \in Seq(Frames) /\ stack[d] # <<>>
  BY RunsOnStack, StackOfLoop DEF Search, Running
<1>2. searched'[d] = searched[d] \cup {File(d)} /\ UNCHANGED <<from, files, lock, copiedLog>>
        /\ searched' \in [Deployers -> SUBSET Files]
  BY <1>1 DEF Search, DeployInv, TypeOK
<1>3. CASE File(d) \in Provided[from[d]]
  <2>1. stack' = stack /\ pc' = [pc EXCEPT ![d] = "wait"]
    BY <1>3 DEF Search, Goto
  <2>2. Top(d)' = Top(d) /\ File(d)' = File(d) /\ from'[d] = from[d] /\ pc'[d] = "wait"
    BY <1>2, <2>1 DEF Top, File, DeployInv, TypeOK
  <2>3. TypeOK'
    BY <1>2, <2>1 DEF DeployInv, TypeOK, files, lock, Running
  <2>4. Place(d)'
    BY <1>1, <1>2, <1>3, <2>1, <2>2 DEF Place, HasFile
  <2> QED
    BY <1>1, <1>2, <2>1, <2>2, <2>3, <2>4 DEF Reached
<1>4. CASE File(d) \notin Provided[from[d]]
  <2>1. Resolve(d, File(d)) /\ pc' = [pc EXCEPT ![d] = "dump"] /\ target[File(d)].there
    BY <1>4 DEF Search, Goto
  <2>2. /\ stack'[d] \in Seq(Frames) /\ stack'[d] # <<>>
        /\ Top(d)'.todo = <<>> /\ Top(d)'.binary = File(d)
        /\ Pending(stack[d]) \subseteq Pending(stack'[d]) \cup {File(d)}
    BY <1>1, <2>1, ResolveStack DEF Running
  <2>3. pc'[d] = "dump" /\ target' = target
    BY <1>2, <2>1 DEF DeployInv, TypeOK, files
  <2>4. TypeOK'
    <3>1. stack' \in [Deployers -> Seq(Frames)]
      BY <2>1, <2>2, StackTypes DEF Resolve, DeployInv, TypeOK
    <3> QED
      BY <1>2, <2>1, <3>1, StackTypes DEF DeployInv, TypeOK, files, lock, Running
  <2>5. Place(d)'
    BY <1>2, <2>1, <2>2, <2>3 DEF Place, HasFile
  <2> QED
    BY <1>1, <1>2, <1>4, <2>2, <2>3, <2>4, <2>5 DEF Reached
<1> QED
  BY <1>3, <1>4

\* A loop is at its end.
LEMMA ReturnPlace ==
  ASSUME DeployInv, NEW d \in Deployers, Return(d)
  PROVE  /\ TypeOK' /\ Place(d)' /\ pc'[d] \in {"loop", "done"} /\ Reached(d) \subseteq Reached(d)'
         /\ searched' = searched
<1>1. /\ pc[d] = "loop" /\ Top(d).todo = <<>> /\ stack[d] \in Seq(Frames) /\ stack[d] # <<>>
      /\ Below(d) \in Seq(Frames)
      /\ Pending(stack[d]) = Pending(Below(d)) \cup Items(Top(d).todo)
      /\ Len(stack[d]) = 1 => Below(d) = <<>>
      /\ Len(stack[d]) # 1 => Below(d) # <<>>
  BY RunsOnStack, StackOfLoop DEF Return, Running
<1>2. stack'[d] = Below(d) /\ searched' = searched
        /\ pc'[d] = IF Len(stack[d]) = 1 THEN "done" ELSE "loop"
  BY <1>1 DEF Return, Goto, DeployInv, TypeOK
<1>3. Items(<<>>) = {}
  BY NewCall
<1>4. TypeOK'
  <2>1. stack' \in [Deployers -> Seq(Frames)]
    BY <1>1, StackTypes DEF Return, DeployInv, TypeOK
  <2> QED
    BY <1>1, <2>1, StackTypes DEF Return, Goto, DeployInv, TypeOK, files, lock
<1>5. Place(d)'
  BY <1>1, <1>2 DEF Place, HasFile, Running
<1> QED
  BY <1>1, <1>2, <1>3, <1>4, <1>5 DEF Reached

\* It waits for the mutex.
LEMMA WaitPlace ==
  ASSUME DeployInv, NEW d \in Deployers, Wait(d)
  PROVE  /\ TypeOK' /\ Place(d)' /\ pc[d] = "wait" /\ pc'[d] \in {"compare", "failed"}
         /\ Reached(d)' = Reached(d) /\ File(d)' = File(d) /\ searched' = searched
<1>1. /\ pc[d] = "wait" /\ stack' = stack /\ searched' = searched /\ from' = from
      /\ target' = target
      /\ \/ pc' = [pc EXCEPT ![d] = "compare"] /\ mutex' = d
         \/ pc' = [pc EXCEPT ![d] = "failed"] /\ mutex' = mutex
  BY DEF Wait, Goto, files
<1>2. Top(d)' = Top(d) /\ File(d)' = File(d) /\ Reached(d)' = Reached(d)
  BY <1>1 DEF Top, File, Reached
<1>3. TypeOK'
  BY <1>1 DEF Wait, DeployInv, TypeOK, files, Running
<1>4. pc'[d] \in {"compare", "failed"} /\ (pc'[d] = "compare" => mutex' = d)
  BY <1>1 DEF DeployInv, TypeOK
<1>5. Place(d)'
  BY <1>1, <1>2, <1>4 DEF DeployInv, Place, HasFile, Running
<1> QED
  BY <1>1, <1>2, <1>3, <1>4, <1>5

\* It compares, and may start to copy.
LEMMA ComparePlace ==
  ASSUME DeployInv, NEW d \in Deployers, Compare(d)
  PROVE  TypeOK' /\ Place(d)' /\ Reached(d)' = Reached(d)
<1>1. /\ stack' = stack /\ searched' = searched /\ from' = from /\ mutex' = mutex
      /\ pc[d] = "compare" /\ File(d) \in Files /\ from[d] \in Sources
      /\ File(d)' = File(d) /\ Top(d)' = Top(d) /\ pc'[d] \in {"copy", "release"}
  BY CompareCases
<1>2. Place(d)
  BY DEF DeployInv
<1>3. target'[File(d)].there
  <2>1. ~NeedsCopy(d) => target[File(d)].there
    BY DEF NeedsCopy
  <2> QED
    BY <2>1, CompareCases
<1>4. pc'[d] = "copy" => target'[File(d)].origin = from[d] /\ ~target'[File(d)].whole
  BY CompareCases
<1>5. Place(d)'
  BY <1>1, <1>2, <1>3, <1>4 DEF Place, HasFile, Running, Writes
<1>6. TypeOK'
  <2>1. target' \in [Files -> [origin : Origins, time : Nat, there : BOOLEAN, whole : BOOLEAN]]
    <3>1. [origin |-> from[d], time |-> Now, there |-> TRUE, whole |-> FALSE]
            \in [origin : Origins, time : Nat, there : BOOLEAN, whole : BOOLEAN]
      BY <1>1, Times
    <3> QED
      BY <3>1 DEF Compare, DeployInv, TypeOK, files
  <2>2. pc' \in [Deployers -> Running \cup {"done", "failed", "killed"}] /\ copyFailed' \in BOOLEAN
    BY DEF Compare, Goto, DeployInv, TypeOK, files, Running
  <2> QED
    BY <2>1, <2>2 DEF Compare, DeployInv, TypeOK, lock
<1> QED
  BY <1>1, <1>5, <1>6 DEF Reached

\* It has copied.
LEMMA CopyPlace ==
  ASSUME DeployInv, NEW d \in Deployers, Copy(d)
  PROVE  TypeOK' /\ Place(d)' /\ Reached(d)' = Reached(d)
<1>1. /\ stack' = stack /\ searched' = searched /\ from' = from /\ mutex' = mutex
      /\ pc[d] = "copy" /\ File(d) \in Files /\ from[d] \in Sources
      /\ File(d)' = File(d) /\ Top(d)' = Top(d) /\ pc'[d] = "release"
      /\ target'[File(d)] = OfSource(from[d], File(d))
  BY CopyEffect
<1>2. OfSource(from[d], File(d)) \in [origin : Origins, time : Nat, there : BOOLEAN, whole : BOOLEAN]
        /\ OfSource(from[d], File(d)).there
  BY <1>1, Times DEF OfSource
<1>3. target'[File(d)].there
  BY <1>1, <1>2
<1>4. Place(d)'
  BY <1>1, <1>3 DEF DeployInv, Place, HasFile, Running
<1>5. TypeOK'
  <2>1. target' \in [Files -> [origin : Origins, time : Nat, there : BOOLEAN, whole : BOOLEAN]]
    BY <1>2 DEF Copy, DeployInv, TypeOK
  <2> QED
    BY <2>1 DEF Copy, Goto, DeployInv, TypeOK, lock, Running
<1> QED
  BY <1>1, <1>4, <1>5 DEF Reached

\* It gives the mutex back and resolves the file.
LEMMA ReleasePlace ==
  ASSUME DeployInv, NEW d \in Deployers, Release(d)
  PROVE  /\ TypeOK' /\ Place(d)' /\ Reached(d) \subseteq Reached(d)' /\ pc[d] = "release"
         /\ pc'[d] = "dump" /\ Top(d)'.binary = File(d) /\ searched' = searched
<1>1. /\ pc[d] = "release" /\ Resolve(d, File(d)) /\ searched' = searched /\ target' = target
      /\ pc'[d] = "dump" /\ File(d) \in searched[d] /\ target[File(d)].there
      /\ Top(d).todo # <<>> /\ pc[d] \in Running /\ File(d) \in Files
  BY RunsOnStack DEF Release, Goto, files, DeployInv, TypeOK, Place, HasFile, Running
<1>2. /\ stack'[d] \in Seq(Frames) /\ stack'[d] # <<>>
      /\ Top(d)'.todo = <<>> /\ Top(d)'.binary = File(d)
      /\ Pending(stack[d]) \subseteq Pending(stack'[d]) \cup {File(d)}
  BY <1>1, ResolveStack
<1>3. TypeOK'
  <2>1. stack' \in [Deployers -> Seq(Frames)]
    BY <1>1, <1>2, StackTypes DEF Resolve, DeployInv, TypeOK
  <2>2. copiedLog' \in [Deployers -> SUBSET Files]
    BY <1>1 DEF Release, DeployInv, TypeOK
  <2> QED
    BY <2>1, <2>2, StackTypes DEF Release, Goto, DeployInv, TypeOK, files, Running
<1>4. Place(d)'
  BY <1>1, <1>2 DEF Place, HasFile
<1> QED
  BY <1>1, <1>2, <1>3, <1>4 DEF Reached

\* It is stopped.
LEMMA KillPlace ==
  ASSUME DeployInv, NEW d \in Deployers, Kill(d)
  PROVE  /\ TypeOK' /\ Place(d)' /\ pc'[d] = "killed"
         /\ Top(d)' = Top(d) /\ File(d)' = File(d) /\ searched' = searched
<1>1. stack' = stack /\ searched' = searched /\ from' = from /\ pc'[d] = "killed"
  BY DEF Kill, Goto, DeployInv, TypeOK
<1>2. TypeOK'
  BY DEF Kill, Goto, DeployInv, TypeOK, files, lock
<1>3. Place(d)'
  BY <1>1 DEF DeployInv, Place, HasFile, Running
<1> QED
  BY <1>1, <1>2, <1>3 DEF Top, File

\* Types and places after a step of any deployer.
LEMMA PlacesKept ==
  ASSUME DeployInv, NEW d \in Deployers, Step(d) \/ Kill(d)
  PROVE  TypeOK' /\ \A q \in Deployers : Place(q)'
<1>1. TypeOK' /\ Place(d)'
  BY DumpPlace, SkipPlace, SearchPlace, ReturnPlace, WaitPlace, ComparePlace, CopyPlace,
     ReleasePlace, KillPlace
  DEF Step
<1> QED
  BY <1>1, OthersPlace

-----------------------------------------------------------------------------
(***************************************************************************)
(* The files in the directory, and what was found good enough              *)
(***************************************************************************)

\* Who writes a file, or was killed while it did, stays known by its stack.
LEMMA WritersStay ==
  ASSUME DeployInv, NEW d \in Deployers, Step(d) \/ Kill(d), NEW q \in Deployers, NEW f \in Files,
         pc[q] \in {"copy", "killed"}, Writes(q, f), target'[f].origin = target[f].origin,
         ~Copy(d) \/ q # d
  PROVE  pc'[q] \in {"copy", "killed"} /\ Writes(q, f)'
<1>1. OnlyMoves(d)
  BY OneMoves DEF DeployInv
<1>2. CASE q = d
  <2>1. Kill(d)
    BY <1>2 DEF Step, Dump, Skip, Search, Return, Wait, Compare, Copy, Release, Kill, Running
  <2>2. pc'[q] = "killed" /\ Top(q)' = Top(q) /\ File(q)' = File(q)
    BY <1>2, <2>1, KillPlace
  <2> QED
    BY <1>1, <2>2 DEF Writes, OnlyMoves
<1>3. CASE q # d
  <2>1. pc'[q] = pc[q] /\ Top(q)' = Top(q) /\ File(q)' = File(q) /\ from'[q] = from[q]
    BY <1>1, <1>3, OthersStay
  <2> QED
    BY <2>1 DEF Writes
<1> QED
  BY <1>2, <1>3

\* The files in the directory after a step.
LEMMA FilesKept ==
  ASSUME DeployInv, NEW d \in Deployers, Step(d) \/ Kill(d)
  PROVE  FilesOK'
<1> DEFINE OK(f) ==
      /\ target[f].whole => target[f].there /\ target[f].time = Time[target[f].origin, f]
      /\ target[f].there /\ ~target[f].whole =>
           /\ target[f].time = Now
           /\ \E q \in Deployers : pc[q] \in {"copy", "killed"} /\ Writes(q, f)
<1> SUFFICES ASSUME NEW f \in Files PROVE OK(f)'
  BY DEF FilesOK
<1>1. OK(f)
  BY DEF DeployInv, FilesOK
<1>2. CASE target'[f] = target[f] /\ ~(Copy(d) /\ f = File(d))
  <2>1. \A q \in Deployers : pc[q] \in {"copy", "killed"} /\ Writes(q, f) =>
          pc'[q] \in {"copy", "killed"} /\ Writes(q, f)'
    <3>1. target'[f].origin = target[f].origin
      BY <1>2
    <3>2. \A q \in Deployers : Writes(q, f) => ~Copy(d) \/ q # d
      BY <1>2 DEF Writes
    <3> QED
      BY <3>1, <3>2, WritersStay
  <2> QED
    BY <1>1, <1>2, <2>1
<1>3. CASE Compare(d) /\ f = File(d) /\ target'[f] # target[f]
  <2>1. /\ pc'[d] = "copy" /\ target'[f].origin = from[d] /\ target'[f].time = Now
        /\ target'[f].there /\ ~target'[f].whole /\ File(d)' = f /\ Top(d)' = Top(d) /\ from' = from
    BY <1>3, CompareCases
  <2>2. Top(d).todo # <<>>
    BY <1>3 DEF Compare, DeployInv, Place, HasFile
  <2>3. Writes(d, f)'
    BY <2>1, <2>2 DEF Writes
  <2> QED
    BY <2>1, <2>3
<1>4. CASE Copy(d) /\ f = File(d)
  <2>1. target'[f] = OfSource(from[d], f)
    BY <1>4, CopyEffect
  <2>2. /\ OfSource(from[d], f).whole /\ OfSource(from[d], f).there
        /\ OfSource(from[d], f).time = Time[OfSource(from[d], f).origin, f]
    BY DEF OfSource
  <2> QED
    BY <2>1, <2>2
<1>5. Compare(d) => f = File(d) \/ target'[f] = target[f]
  BY CompareCases
<1>6. Copy(d) => f = File(d) \/ target'[f] = target[f]
  BY CopyEffect
<1>7. Copy(d) => ~Compare(d)
  BY DEF Copy, Compare
<1> HIDE DEF OK
<1>8. ~Compare(d) /\ ~Copy(d) => target' = target
  BY FilesStay DEF Step
<1> QED
  BY <1>2, <1>3, <1>4, <1>5, <1>6, <1>7, <1>8

\* A failed copy is not forgotten.
LEMMA FailureStays ==
  ASSUME DeployInv, NEW d \in Deployers, Step(d) \/ Kill(d), ~copyFailed'
  PROVE  ~copyFailed
<1>1. Compare(d) => ~copyFailed
  BY CompareCases DEF DeployInv, TypeOK
<1>2. Copy(d) => ~copyFailed
  BY CopyEffect
<1> QED
  BY <1>1, <1>2, FilesStay DEF Step

\* After its comparison a deployer finds the file good enough for its tree.
LEMMA CompareSettles ==
  ASSUME DeployInv, NEW d \in Deployers, Compare(d), ~copyFailed'
  PROVE  Settled(from[d], File(d))'
<1> DEFINE f == File(d)
<1>1. f \in Files /\ from[d] \in Sources /\ f' = f /\ from' = from /\ pc[d] = "compare"
  BY CompareCases
<1>2. target[f].origin \in Origins /\ target[f].time \in Nat
  BY <1>1 DEF DeployInv, TypeOK
<1>3. /\ Time[from[d], f] \in Nat /\ Time[target[f].origin, f] \in Nat
  BY <1>1, <1>2, Times
<1>6. /\ target'[f].there
      /\ Time[from[d], f] <= Time[target'[f].origin, f] \/ Abandoned(f)'
      => Settled(from[d], File(d))'
  BY <1>1, Zenon DEF Settled
<1>4. CASE ~NeedsCopy(d) /\ pc'[d] = "release" /\ target' = target
  <2>1. target[f].there /\ ~(target[f].time < Time[from[d], f])
    BY <1>4 DEF NeedsCopy
  <2>2. Time[from[d], f] <= target[f].time
    BY <1>2, <1>3, <2>1, NatOrder, Zenon
  <2>3. target[f].whole => Time[from[d], f] <= Time[target[f].origin, f]
    BY <1>1, <2>2 DEF DeployInv, FilesOK
  <2>4. ASSUME NEW q \in Deployers PROVE pc'[q] # "copy"
    <3>1. CASE q = d
      BY <1>4, <3>1
    <3>2. CASE q # d
      BY <1>1, <3>2, MutexHolds, OneMoves DEF Step, DeployInv, OnlyMoves
    <3> QED
      BY <3>1, <3>2
  <2>5. ~target[f].whole => Abandoned(f)'
    BY <1>1, <1>4, <2>4 DEF Abandoned
  <2> QED
    BY <1>4, <1>6, <2>1, <2>3, <2>5, Zenon
<1>5. CASE target'[File(d)].origin = from[d] /\ target'[File(d)].there
  <2>1. Time[from[d], f] <= Time[from[d], f]
    BY <1>3, NatOrder, Zenon
  <2> QED
    BY <1>5, <1>6, <2>1, Zenon
<1> QED
  BY <1>4, <1>5, CompareCases

\* What the deployers have met, after a step.
LEMMA SearchedKept ==
  ASSUME DeployInv, NEW d \in Deployers, Step(d) \/ Kill(d)
  PROVE  SearchedOK'
<1>1. OnlyMoves(d) /\ from' = from
  BY OneMoves DEF DeployInv, OnlyMoves
<1> SUFFICES ASSUME ~copyFailed', NEW q \in Deployers, pc'[q] \in Running \cup {"done"},
                    NEW g \in searched'[q] \cap Provided[from[q]]
             PROVE  Settled(from[q], g)' \/ (pc'[q] \in {"wait", "compare"} /\ g = File(q)')
  BY <1>1 DEF SearchedOK
<1>2. ~copyFailed /\ from[q] \in Sources /\ TypeOK'
  BY FailureStays, PlacesKept DEF DeployInv, TypeOK
<1>3. g \in Files
  BY <1>2 DEF TypeOK
<1>4. Settled(from[q], g) => Settled(from[q], g)'
  BY <1>1, <1>2, <1>3, SettledStays DEF Settled
<1>5. pc[q] \in Running \cup {"done"} /\ g \in searched[q] =>
        Settled(from[q], g) \/ (pc[q] \in {"wait", "compare"} /\ g = File(q))
  BY <1>2 DEF DeployInv, SearchedOK
<1>6. CASE q # d
  BY <1>1, <1>4, <1>5, <1>6, OthersStay
<1>7. CASE q = d
  <2>1. CASE Dump(d) \/ Copy(d) \/ Return(d) \/ Release(d)
    BY <1>4, <1>5, <1>7, <2>1 DEF Dump, Copy, Return, Release, Running
  <2>2. CASE Skip(d)
    BY <1>4, <1>5, <1>7, <2>2, SkipPlace DEF Skip, Running
  <2>3. CASE Search(d)
    <3>1. pc[q] = "loop" /\ searched'[q] = searched[q] \cup {File(q)}
      BY <1>7, <2>3, SearchPlace DEF Search
    <3>2. g \in searched[q] => Settled(from[q], g)'
      BY <1>4, <1>5, <3>1 DEF Running
    <3>3. g = File(q) => pc'[q] = "wait" /\ File(q)' = File(q)
      BY <1>7, <2>3, SearchPlace
    <3> QED
      BY <3>1, <3>2, <3>3
  <2>4. CASE Wait(d)
    BY <1>4, <1>5, <1>7, <2>4, WaitPlace DEF Running
  <2>5. CASE Compare(d)
    <3>1. pc[q] = "compare" /\ searched' = searched
      BY <1>7, <2>5, CompareCases
    <3>2. Settled(from[d], File(d))' /\ File(d)' = File(d)
      BY <2>5, CompareSettles, CompareCases
    <3>3. g = File(q) => Settled(from[q], g)'
      BY <1>1, <1>7, <3>2 DEF Settled, Abandoned
    <3> QED
      BY <1>4, <1>5, <3>1, <3>3 DEF Running
  <2>6. CASE Kill(d)
    BY <1>7, <2>6, KillPlace DEF Running
  <2> QED
    BY <2>1, <2>2, <2>3, <2>4, <2>5, <2>6 DEF Step
<1> QED
  BY <1>6, <1>7

\* A deployer that starts to copy is the first of its tree to need the file.
LEMMA FirstToCopy ==
  ASSUME DeployInv, NEW d \in Deployers, Compare(d), pc'[d] = "copy", ~copyFailed,
         NEW e \in Deployers, e # d, from[e] = from[d],
         pc[e] \in Running \cup {"done"}, File(d) \in searched[e]
  PROVE  pc[e] = "wait" /\ File(e) = File(d)
<1> DEFINE f == File(d)
<1>1. f \in Files /\ from[d] \in Sources /\ pc[d] = "compare" /\ f \in Provided[from[d]]
        /\ target[f].origin \in Origins
  BY CompareCases DEF DeployInv, Place, HasFile, TypeOK
<1>2. Settled(from[d], f) \/ (pc[e] \in {"wait", "compare"} /\ f = File(e))
  BY <1>1 DEF DeployInv, SearchedOK
<1>3. pc[e] # "compare"
  BY <1>1, MutexHolds
<1>4. ~Settled(from[d], f)
  <2> SUFFICES ASSUME Settled(from[d], f) PROVE FALSE
    OBVIOUS
  <2>1. NeedsCopy(d)
    BY CompareCases
  <2>2. target[f].whole /\ Time[target[f].origin, f] < Time[from[d], f]
    BY <1>1, <2>1, ReplacedIsOlder DEF Settled
  <2>3. Time[from[d], f] <= Time[target[f].origin, f]
    BY <2>2 DEF Settled, Abandoned
  <2>4. Time[from[d], f] \in Nat /\ Time[target[f].origin, f] \in Nat
    BY <1>1, Times
  <2>5. \A k, m \in Nat : k < m => ~(m <= k)
    OBVIOUS
  <2> QED
    BY <2>2, <2>3, <2>4, <2>5, Zenon
<1> QED
  BY <1>2, <1>3, <1>4

\* No DLL is copied twice for one tree, after a step.
LEMMA CopiedOnceKept ==
  ASSUME DeployInv, NEW d \in Deployers, Step(d) \/ Kill(d)
  PROVE  CopiedOnce'
<1>1. OnlyMoves(d) /\ from' = from
  BY OneMoves DEF DeployInv, OnlyMoves
<1> SUFFICES ASSUME ~copyFailed', NEW q \in Deployers, NEW e \in Deployers,
                    pc'[q] = "copy", e # q, from[e] = from[q],
                    pc'[e] \in Running \cup {"done"}, File(q)' \in searched'[e]
             PROVE  pc'[e] = "wait" /\ File(e)' = File(q)'
  BY <1>1 DEF CopiedOnce
<1>2. ~copyFailed
  BY FailureStays
<1>3. CASE Compare(d)
  <2>1. q = d
    <3> SUFFICES ASSUME q # d PROVE FALSE
      OBVIOUS
    <3>1. pc[q] = "copy" /\ pc[d] = "compare"
      BY <1>1, <1>3, OthersStay, CompareCases
    <3> QED
      BY <3>1, MutexHolds
  <2>2. /\ pc'[e] = pc[e] /\ searched'[e] = searched[e] /\ File(e)' = File(e)
        /\ File(q)' = File(q)
    BY <1>1, <1>3, <2>1, OthersStay, CompareCases
  <2> QED
    BY <1>2, <1>3, <2>1, <2>2, FirstToCopy
<1>4. CASE ~Compare(d)
  <2>1. pc[q] = "copy" /\ q # d /\ File(q)' = File(q)
    BY <1>4, CopiesStart
  <2>2. pc[e] \in Running \cup {"done"} /\ File(q) \in searched[e] =>
          pc[e] = "wait" /\ File(e) = File(q)
    BY <1>2, <2>1 DEF DeployInv, CopiedOnce
  <2>3. CASE e # d
    BY <1>1, <2>1, <2>2, <2>3, OthersStay
  <2>4. CASE e = d
    <3>1. mutex = q /\ mutex # Free /\ pc[d] \notin {"compare", "copy", "release"}
            /\ File(q) \in Provided[from[d]]
      BY <2>1, <2>4, MutexHolds, NamesAssumption DEF DeployInv, Place, HasFile
    <3>2. CASE Dump(d) \/ Return(d)
      BY <2>1, <2>2, <2>4, <3>2 DEF Dump, Return, Running
    <3>3. CASE Skip(d)
      BY <2>1, <2>2, <2>4, <3>1, <3>3, SkipPlace DEF Skip, Running
    <3>4. CASE Search(d)
      <4>1. pc[d] = "loop" /\ searched'[d] = searched[d] \cup {File(d)}
        BY <3>4, SearchPlace DEF Search
      <4>2. File(q) = File(d)
        BY <2>1, <2>2, <2>4, <4>1 DEF Running
      <4> QED
        BY <2>1, <2>4, <3>1, <3>4, <4>2, SearchPlace
    <3>5. ~Wait(d) /\ ~Copy(d) /\ ~Release(d)
      BY <3>1 DEF Wait, Copy, Release
    <3>6. CASE Kill(d)
      BY <2>4, <3>6, KillPlace DEF Running
    <3> QED
      BY <1>4, <3>2, <3>3, <3>4, <3>5, <3>6 DEF Step
  <2> QED
    BY <2>3, <2>4
<1> QED
  BY <1>3, <1>4

-----------------------------------------------------------------------------
(***************************************************************************)
(* Who resolves what                                                       *)
(***************************************************************************)

\* Trouble is not forgotten.
LEMMA TroubleStays ==
  ASSUME DeployInv, NEW d \in Deployers, Step(d) \/ Kill(d), ~Trouble'
  PROVE  ~Trouble /\ ~Kill(d)
<1>1. ~copyFailed
  BY FailureStays DEF Trouble
<1>2. ASSUME NEW q \in Deployers PROVE pc[q] \notin {"killed", "failed"}
  <2>1. CASE q = d
    BY <2>1 DEF Step, Dump, Skip, Search, Return, Wait, Compare, Copy, Release, Kill, Running
  <2>2. CASE q # d
    BY <2>2, OneMoves DEF DeployInv, OnlyMoves, Trouble
  <2> QED
    BY <2>1, <2>2
<1>3. ~Kill(d)
  BY KillPlace DEF Trouble
<1> QED
  BY <1>1, <1>2, <1>3 DEF Trouble

\* A deployer meets what it is about to dump.
LEMMA DumpReaches ==
  ASSUME DeployInv, NEW d \in Deployers, Dump(d),
         \/ Top(d).binary = Root
         \/ target[Top(d).binary].whole /\ target[Top(d).binary].origin = from[d]
  PROVE  Needs(from[d], Top(d).binary) \subseteq Reached(d)'
<1>1. Dumped(d) = Deps[from[d], Top(d).binary]
  BY DEF Dumped
<1> QED
  BY <1>1, DumpPlace DEF Needs

\* Who has a DLL ahead of it, or in work, goes on to resolve it.
LEMMA CareStays ==
  ASSUME DeployInv, NEW d \in Deployers, Step(d), NEW q \in Deployers,
         NEW f \in Files \cup {Root}, TakesCare(q, f),
         f = Root \/ from[q] = target[f].origin
  PROVE  TakesCare(q, f)' \/ (q = d /\ Dump(d) /\ f # Root /\ ~target[f].whole)
<1>1. OnlyMoves(d) /\ from' = from
  BY OneMoves DEF DeployInv, OnlyMoves
<1>2. CASE q # d
  <2>1. /\ pc'[q] = pc[q] /\ Top(q)' = Top(q) /\ File(q)' = File(q) /\ Reached(q)' = Reached(q)
        /\ from'[q] = from[q]
    BY <1>1, <1>2, OthersStay
  <2> QED
    BY <2>1 DEF TakesCare, Needs
<1>3. CASE q = d
  <2>1. Reached(d) \subseteq Reached(d)'
    BY DumpPlace, SkipPlace, SearchPlace, ReturnPlace, WaitPlace, ComparePlace, CopyPlace,
       ReleasePlace
    DEF Step
  <2>2. CASE Needs(from[d], f) \subseteq Reached(d)
    <3>1. Needs(from[d], f)' \subseteq Reached(d)'
      BY <1>1, <2>1, <2>2 DEF Needs
    <3> QED
      BY <1>3, <3>1 DEF TakesCare
  <2>3. CASE pc[d] \in {"copy", "release"} /\ File(d) = f
    <3>1. CASE Copy(d)
      BY <1>3, <2>3, <3>1, CopyEffect DEF TakesCare
    <3>2. CASE Release(d)
      BY <1>3, <2>3, <3>2, ReleasePlace DEF TakesCare
    <3> QED
      BY <2>3, <3>1, <3>2 DEF Step, Dump, Skip, Search, Return, Wait, Compare
  <2>4. CASE pc[d] = "dump" /\ Top(d).binary = f
    <3>1. Dump(d)
      BY <2>4 DEF Step, Skip, Search, Return, Wait, Compare, Copy, Release
    <3>2. CASE f = Root \/ target[f].whole
      <4>1. Needs(from[d], f) \subseteq Reached(d)'
        BY <1>3, <2>4, <3>1, <3>2, DumpReaches
      <4>2. Needs(from[d], f)' \subseteq Reached(d)'
        BY <1>1, <4>1 DEF Needs
      <4> QED
        BY <1>3, <4>2 DEF TakesCare
    <3> QED
      BY <1>3, <3>1, <3>2
  <2> QED
    BY <1>3, <2>2, <2>3, <2>4 DEF TakesCare
<1> QED
  BY <1>2, <1>3

\* Every binary and DLL has its deployer after a step.
LEMMA AllResolvedKept ==
  ASSUME DeployInv, NEW d \in Deployers, Step(d) \/ Kill(d)
  PROVE  AllResolved'
<1> SUFFICES ASSUME ~Trouble'
             PROVE  /\ \A q \in Deployers : TakesCare(q, Root)'
                    /\ \A f \in Files : target'[f].there /\ target'[f].origin \in Sources =>
                         \E q \in Deployers : from'[q] = target'[f].origin /\ TakesCare(q, f)'
  BY DEF AllResolved
<1>1. ~Trouble /\ Step(d) /\ OnlyMoves(d) /\ from' = from
  BY TroubleStays, OneMoves DEF DeployInv, OnlyMoves
<1>2. ASSUME NEW q \in Deployers PROVE TakesCare(q, Root)'
  <2>1. TakesCare(q, Root)
    BY <1>1 DEF DeployInv, AllResolved
  <2> QED
    BY <1>1, <2>1, CareStays
<1>3. ASSUME NEW f \in Files, target'[f].there, target'[f].origin \in Sources
      PROVE  \E q \in Deployers : from'[q] = target'[f].origin /\ TakesCare(q, f)'
  <2>1. CASE target'[f] = target[f]
    <3>1. PICK q \in Deployers : from[q] = target[f].origin /\ TakesCare(q, f)
      BY <1>1, <1>3, <2>1 DEF DeployInv, AllResolved
    <3>2. CASE TakesCare(q, f)'
      BY <1>1, <2>1, <3>1, <3>2
    <3>3. CASE q = d /\ Dump(d) /\ ~target[f].whole
      <4>1. PICK e \in Deployers : pc[e] \in {"copy", "killed"} /\ Writes(e, f)
        BY <1>3, <2>1, <3>3 DEF DeployInv, FilesOK
      <4>2. pc[e] = "copy" /\ e # d /\ File(e) = f /\ from[e] = target[f].origin
        BY <1>1, <3>3, <4>1 DEF Trouble, Writes, Dump
      <4>3. TakesCare(e, f)'
        BY <1>1, <4>2, OthersStay DEF TakesCare
      <4> QED
        BY <1>1, <2>1, <4>2, <4>3
    <3> QED
      BY <1>1, <3>1, <3>2, <3>3, CareStays
  <2>2. CASE target'[f] # target[f]
    <3>1. CASE Compare(d)
      <4>1. f = File(d) /\ pc'[d] = "copy" /\ target'[f].origin = from[d] /\ File(d)' = f
        BY <1>3, <2>2, <3>1, CompareCases
      <4> QED
        BY <1>1, <4>1 DEF TakesCare
    <3>2. CASE Copy(d)
      <4>1. f = File(d) /\ pc'[d] = "release" /\ target'[f] = OfSource(from[d], f) /\ File(d)' = f
        BY <1>3, <2>2, <3>2, CopyEffect
      <4>2. OfSource(from[d], f).origin = from[d]
        BY DEF OfSource
      <4> QED
        BY <1>1, <4>1, <4>2 DEF TakesCare
    <3> QED
      BY <1>1, <2>2, <3>1, <3>2, FilesStay DEF Step
  <2> QED
    BY <2>1, <2>2
<1> QED
  BY <1>2, <1>3

-----------------------------------------------------------------------------
(***************************************************************************)
(* The invariant and its consequences                                      *)
(***************************************************************************)

\* The invariant holds at first: every deployer is about to read its binary.
LEMMA DeployStarts == Init => DeployInv
<1> SUFFICES ASSUME Init PROVE DeployInv
  OBVIOUS
<1>1. Call(Root) \in Frames /\ Call(Root).binary = Root /\ Call(Root).todo = <<>>
  BY NewCall
<1>2. ASSUME NEW d \in Deployers
      PROVE  /\ stack[d] \in Seq(Frames) /\ stack[d] # <<>> /\ Top(d) = Call(Root)
             /\ pc[d] = "dump" /\ searched[d] = {}
  BY <1>1, <1>2 DEF Init, Top
<1>3. ASSUME NEW f \in Files
      PROVE  /\ target[f] = OfSource(Local, f) \/ target[f] = NoFile
             /\ OfSource(Local, f) \in [origin : Origins, time : Nat, there : BOOLEAN, whole : BOOLEAN]
             /\ NoFile \in [origin : Origins, time : Nat, there : BOOLEAN, whole : BOOLEAN]
  <2>1. target[f] = OfSource(Local, f) \/ target[f] = NoFile
    BY <1>3 DEF Init
  <2>2. Local \in Origins /\ Time[Local, f] \in Nat
    BY <1>3, Times DEF Origins
  <2> QED
    BY <2>1, <2>2 DEF OfSource, NoFile
<1>4. \A f \in Files :
        /\ OfSource(Local, f).origin = Local /\ OfSource(Local, f).whole
        /\ OfSource(Local, f).there /\ OfSource(Local, f).time = Time[Local, f]
  BY DEF OfSource
<1>5. NoFile.origin = Local /\ ~NoFile.whole /\ ~NoFile.there
  BY DEF NoFile
<1>6. TypeOK
  <2>1. stack \in [Deployers -> Seq(Frames)]
    BY <1>1 DEF Init
  <2>2. target \in [Files -> [origin : Origins, time : Nat, there : BOOLEAN, whole : BOOLEAN]]
    <3>1. \A f \in Files :
            target[f] \in [origin : Origins, time : Nat, there : BOOLEAN, whole : BOOLEAN]
      BY <1>3
    <3>2. target = [f \in Files |-> target[f]]
      BY DEF Init
    <3> QED
      BY <3>1, <3>2
  <2> QED
    BY <2>1, <2>2, StackTypes DEF Init, TypeOK, Running
<1>7. ASSUME NEW d \in Deployers PROVE Place(d)
  <2>1. /\ stack[d] \in Seq(Frames) /\ stack[d] # <<>> /\ pc[d] = "dump"
        /\ Top(d).todo = <<>> /\ Top(d).binary = Root
    BY <1>1, <1>2
  <2> QED
    BY <2>1 DEF Place, HasFile
<1>8. FilesOK
  <2>1. ASSUME NEW f \in Files
        PROVE  \/ ~target[f].whole /\ ~target[f].there
               \/ /\ target[f].whole /\ target[f].there
                  /\ target[f].time = Time[target[f].origin, f]
    <3>1. CASE target[f] = NoFile
      BY <1>5, <3>1
    <3>2. CASE target[f] = OfSource(Local, f)
      BY <1>4, <3>2
    <3> QED
      BY <1>3, <3>1, <3>2
  <2> QED
    BY <2>1 DEF FilesOK
<1>9. SearchedOK /\ CopiedOnce
  BY <1>2 DEF SearchedOK, CopiedOnce
<1>10. AllResolved
  <2>1. \A d \in Deployers : TakesCare(d, Root)
    BY <1>1, <1>2 DEF TakesCare
  <2>2. \A f \in Files : target[f].origin \notin Sources
    BY <1>3, <1>4, <1>5, NamesAssumption
  <2> QED
    BY <2>1, <2>2 DEF AllResolved
<1> QED
  BY <1>6, <1>7, <1>8, <1>9, <1>10 DEF DeployInv

\* Every step keeps the invariant.
LEMMA DeployNextKeepsInv == DeployInv /\ [Next]_vars => DeployInv'
<1> SUFFICES ASSUME DeployInv, [Next]_vars PROVE DeployInv'
  OBVIOUS
<1>1. ASSUME NEW d \in Deployers, Step(d) \/ Kill(d) PROVE DeployInv'
  BY <1>1, PlacesKept, FilesKept, SearchedKept, CopiedOnceKept, AllResolvedKept DEF DeployInv
<1>2. CASE UNCHANGED vars
  <2>1. /\ UNCHANGED <<from, target, copyFailed, mutex, abandoned, pc, stack, searched, copiedLog>>
    BY <1>2 DEF vars, files, lock
  <2>2. TypeOK'
    BY <2>1 DEF DeployInv, TypeOK
  <2>5. ASSUME NEW d \in Deployers PROVE Place(d)'
    <3>1. Place(d)
      BY DEF DeployInv
    <3> QED
      BY <2>1, <3>1 DEF Place, Top, File, Writes
  <2>3. FilesOK'
    BY <2>1 DEF DeployInv, FilesOK, Writes, Top, File
  <2>6. SearchedOK'
    BY <2>1 DEF DeployInv, SearchedOK, Settled, Abandoned, Top, File
  <2>7. CopiedOnce'
    BY <2>1 DEF DeployInv, CopiedOnce, Top, File
  <2>4. AllResolved'
    BY <2>1 DEF DeployInv, AllResolved, Trouble, TakesCare, Needs, Reached, Top, File
  <2> QED
    BY <2>2, <2>3, <2>4, <2>5, <2>6, <2>7 DEF DeployInv
<1> QED
  BY <1>1, <1>2 DEF Next

\* The invariant holds throughout.
LEMMA DeployInvHolds == Spec => []DeployInv
BY DeployStarts, DeployNextKeepsInv, PTL DEF Spec

\* When all deployers are done, what one of them has met is deployed.
LEMMA MetIsDeployed ==
  ASSUME DeployInv, \A q \in Deployers : pc[q] = "done", ~copyFailed,
         NEW d \in Deployers, NEW f \in Files \cup {Root}, TakesCare(d, f)
  PROVE  Satisfied(from[d], f)
<1>1. from[d] \in Sources /\ pc[d] = "done" /\ stack[d] = <<>> /\ searched[d] \subseteq Files
  BY DEF DeployInv, Place, TypeOK
<1>2. Reached(d) = searched[d]
  BY <1>1 DEF Reached, Pending
<1>3. Needs(from[d], f) \subseteq searched[d]
  BY <1>1, <1>2 DEF TakesCare
<1> SUFFICES ASSUME NEW i \in DOMAIN Deps[from[d], f], Deps[from[d], f][i] \in Provided[from[d]]
             PROVE  Deployed(from[d], Deps[from[d], f][i])
  BY DEF Satisfied
<1> DEFINE g == Deps[from[d], f][i]
<1>4. g \in searched[d] /\ g \in Provided[from[d]] /\ g \in Files
  BY <1>1, <1>3 DEF Needs, Items
<1> HIDE DEF g
<1>5. Settled(from[d], g)
  BY <1>1, <1>4 DEF DeployInv, SearchedOK
<1>6. target[g].whole /\ target[g].time = Time[target[g].origin, g]
  BY <1>4, <1>5 DEF DeployInv, FilesOK, Settled
<1>7. Time[from[d], g] <= target[g].time
  BY <1>5, <1>6 DEF Settled, Abandoned
<1> QED
  BY <1>6, <1>7 DEF Deployed, g

\* The state of the deployers and of their directory has its types.
THEOREM DeployTypeIsInvariant == Spec => []TypeOK
BY DeployInvHolds, PTL DEF DeployInv

\* When every deployer is done, was not stopped and no copy failed, the linked
\* binaries and every DLL of a tree that stands in the directory find their
\* dependencies there, complete and no older than those of their tree.
THEOREM DirectoryIsClosedInTheEnd == Spec => []DirectoryIsClosed
<1>1. DeployInv => DirectoryIsClosed
  <2> SUFFICES ASSUME DeployInv, \A d \in Deployers : pc[d] = "done", ~copyFailed
               PROVE  /\ \A d \in Deployers : Satisfied(from[d], Root)
                      /\ \A f \in Files : target[f].there /\ target[f].origin \in Sources =>
                           Satisfied(target[f].origin, f)
    BY DEF DirectoryIsClosed
  <2>1. ~Trouble
    BY DEF Trouble
  <2>2. ASSUME NEW d \in Deployers PROVE Satisfied(from[d], Root)
    BY <2>1, MetIsDeployed DEF DeployInv, AllResolved
  <2>3. ASSUME NEW f \in Files, target[f].there, target[f].origin \in Sources
        PROVE  Satisfied(target[f].origin, f)
    <3>1. PICK d \in Deployers : from[d] = target[f].origin /\ TakesCare(d, f)
      BY <2>1, <2>3 DEF DeployInv, AllResolved
    <3>2. Satisfied(from[d], f)
      BY <3>1, MetIsDeployed
    <3> QED
      BY <3>1, <3>2
  <2> QED
    BY <2>2, <2>3
<1> QED
  BY <1>1, DeployInvHolds, PTL

\* The dependencies of a half-written DLL are read only by a deployer of
\* another tree than the one that writes it, or after that one was stopped.
THEOREM HalfWrittenIsHarmless == Spec => []HalfWrittenIsNotRead
<1>1. DeployInv => HalfWrittenIsNotRead
  <2> SUFFICES ASSUME DeployInv, NEW d \in Deployers, pc[d] = "dump", Top(d).binary # Root,
                      ~copyFailed, ~target[Top(d).binary].whole
               PROVE  \E q \in Deployers :
                        /\ pc[q] = "killed" \/ (pc[q] = "copy" /\ from[q] # from[d])
                        /\ Top(q).todo # <<>> /\ File(q) = Top(d).binary
                        /\ from[q] = target[Top(d).binary].origin
    BY DEF HalfWrittenIsNotRead
  <2> DEFINE b == Top(d).binary
  <2>1. b \in searched[d] /\ target[b].there /\ b \in Files
    BY DEF DeployInv, Place, TypeOK
  <2>2. PICK q \in Deployers : pc[q] \in {"copy", "killed"} /\ Writes(q, b)
    BY <2>1 DEF DeployInv, FilesOK
  <2>3. ASSUME pc[q] = "copy" PROVE from[q] # from[d]
    BY <2>1, <2>2, <2>3 DEF DeployInv, CopiedOnce, Writes, Running
  <2> QED
    BY <2>2, <2>3 DEF Writes
<1> QED
  BY <1>1, DeployInvHolds, PTL
=============================================================================
