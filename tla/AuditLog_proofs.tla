--------------------------- MODULE AuditLog_proofs ---------------------------
(***************************************************************************)
(* Proofs about the rotation of the audit log, for any number of           *)
(* generations, any size limit and any number of events: its types with    *)
(* any number of processes, and its promises when one process writes it.   *)
(***************************************************************************)
EXTENDS AuditLog, TLAPS

(* The loop of _rotate stays within the names there are.                     *)
TypeInv ==
    /\ TypeOK
    /\ \A p \in Proc : pc[p] = "shift" => index[p] > 0

(* One rename keeps the types, within the names there are.                   *)
LEMMA RenameType ==
    ASSUME TypeOK, NEW from \in Names, NEW to \in Names, Rename(from, to)
    PROVE  /\ names' \in [Names -> Segments \cup {NoSegment}]
           /\ discarded' \subseteq Segments
BY DEF TypeOK, Rename

LEMMA TypeStep == TypeInv /\ [Next]_vars => TypeInv'
<1> SUFFICES ASSUME TypeInv, [Next]_vars PROVE TypeInv'
  OBVIOUS
<1>0. /\ 0 \in Names /\ 1 \in Names
      /\ MaxEvents + 1 \in Segments
      /\ MaxRotations - 1 \in 0..(MaxRotations - 1)
  BY AuditAssumption DEF Names, Segments
<1> USE DEF TypeInv, TypeOK, Steps, Goto, NoFault, Happens
<1>1. ASSUME NEW p \in Proc, Open(p) PROVE TypeInv'
  <2>1. CASE names[0] # NoSegment
    BY <1>0, <1>1, <2>1 DEF Open
  <2>2. CASE names[0] = NoSegment
    <3>1. made + 1 \in Segments /\ made' \in 0..(MaxEvents + 1)
      BY <1>1, <2>2, AuditAssumption DEF Open, Segments
    <3>2. QED
      BY <1>0, <1>1, <2>2, <3>1 DEF Open
  <2>3. QED
    BY <2>1, <2>2
<1>2. ASSUME NEW p \in Proc, OpenFails(p) PROVE TypeInv'
  BY <1>2 DEF OpenFails
<1>3. ASSUME NEW p \in Proc, Write(p) PROVE TypeInv'
  <2>1. fd[p] \in Segments /\ events' \in 0..MaxEvents
    BY <1>3, AuditAssumption DEF Write
  <2>2. QED
    BY <1>3, <2>1 DEF Write
<1>4. ASSUME NEW p \in Proc, Stat(p) PROVE TypeInv'
  BY <1>0, <1>4 DEF Stat, CloseFd, FirstIndex
<1>5. ASSUME NEW p \in Proc, Shift(p) PROVE TypeInv'
  <2>1. /\ index[p] \in Names /\ index[p] + 1 \in Names
        /\ index[p] - 1 \in 0..(MaxRotations - 1)
    BY <1>5, AuditAssumption DEF Names, Shift
  <2>2. /\ names' \in [Names -> Segments \cup {NoSegment}]
        /\ discarded' \subseteq Segments
    BY <1>5, <2>1, RenameType DEF Shift, RenameOrSkip
  <2>3. QED
    BY <1>5, <2>1, <2>2 DEF Shift, RenameOrSkip, NextIndex
<1>6. ASSUME NEW p \in Proc, Retire(p) PROVE TypeInv'
  <2>1. /\ names' \in [Names -> Segments \cup {NoSegment}]
        /\ discarded' \subseteq Segments
    BY <1>0, <1>6, RenameType DEF Retire, RenameOrSkip
  <2>2. QED
    BY <1>6, <2>1 DEF Retire, RenameOrSkip
<1>7. ASSUME NEW p \in Proc, Close(p) \/ Crash(p) PROVE TypeInv'
  BY <1>7 DEF Close, CloseFd, Crash
<1>8. CASE UNCHANGED vars
  BY <1>8 DEF vars, logVars
<1>9. QED
  BY <1>1, <1>2, <1>3, <1>4, <1>5, <1>6, <1>7, <1>8 DEF Next

(* What has failed stays recorded.                                            *)
LEMMA FailuresGrow == [Next]_vars => failures \subseteq failures'
BY DEF Next, vars, Open, OpenFails, Write, Stat, Shift, Retire, Close, Crash,
       RenameOrSkip, NoFault, Happens

LEMMA TypeInit == Init => TypeInv
BY AuditAssumption DEF Init, TypeInv, TypeOK, Steps, Segments

LEMMA TypeInvHolds == Spec => []TypeInv
BY TypeInit, TypeStep, PTL DEF Spec

(* The log's state has the types its declarations give it, whatever number    *)
(* of processes write it and whatever goes wrong.                             *)
THEOREM TypeCorrect == Spec => []TypeOK
<1>1. TypeInv => TypeOK
  BY DEF TypeInv
<1>2. QED
  BY <1>1, TypeInvHolds, PTL

-----------------------------------------------------------------------------
(* From here on one process writes the log.                                   *)
OneProcess == \E p : Proc = {p}

(* Only a process between rotations has a descriptor, and while it does       *)
(* nobody renames audit.log, whatever fails.                                  *)
ActiveInv ==
    /\ TypeInv
    /\ \A p \in Proc :
         /\ fd[p] # NoSegment => pc[p] \in {"idle", "wrote"} /\ fd[p] = names[0]
         /\ pc[p] = "wrote" => fd[p] # NoSegment

LEMMA ActiveStep ==
    OneProcess /\ ActiveInv /\ [Next]_vars => ActiveInv'
<1> SUFFICES ASSUME OneProcess, ActiveInv, [Next]_vars
             PROVE  \A p \in Proc :
                      /\ fd'[p] # NoSegment =>
                           pc'[p] \in {"idle", "wrote"} /\ fd'[p] = names'[0]
                      /\ pc'[p] = "wrote" => fd'[p] # NoSegment
  BY TypeStep DEF ActiveInv
<1>1. PICK p : Proc = {p}
  BY DEF OneProcess
<1> DEFINE Good == /\ fd'[p] # NoSegment =>
                        pc'[p] \in {"idle", "wrote"} /\ fd'[p] = names'[0]
                   /\ pc'[p] = "wrote" => fd'[p] # NoSegment
<1>2. SUFFICES Good
  BY <1>1
<1> HIDE DEF Good
<1>0. /\ 0 \in Names /\ p \in Proc
      /\ names \in [Names -> Segments \cup {NoSegment}]
      /\ fd \in [Proc -> Segments \cup {NoSegment}] /\ pc \in [Proc -> Steps]
  BY <1>1, AuditAssumption DEF ActiveInv, TypeInv, TypeOK, Names
<1>3. /\ fd[p] # NoSegment => pc[p] \in {"idle", "wrote"} /\ fd[p] = names[0]
      /\ pc[p] = "wrote" => fd[p] # NoSegment
  BY <1>0 DEF ActiveInv
<1> USE DEF Good, Goto
<1>4. CASE Open(p)
  BY <1>0, <1>4 DEF Open
<1>5. CASE OpenFails(p)
  BY <1>0, <1>3, <1>5 DEF OpenFails
<1>6. CASE Write(p)
  BY <1>0, <1>3, <1>6 DEF Write
<1>7. CASE Stat(p)
  BY <1>0, <1>3, <1>7 DEF Stat, CloseFd
<1>8. CASE Shift(p) \/ Retire(p)
  <2>1. fd'[p] = NoSegment /\ pc'[p] # "wrote"
    BY <1>0, <1>3, <1>8 DEF Shift, Retire
  <2>2. QED
    BY <2>1
<1>9. CASE Close(p) \/ Crash(p)
  BY <1>0, <1>9 DEF Close, CloseFd, Crash
<1>10. CASE UNCHANGED vars
  BY <1>3, <1>10 DEF vars, logVars
<1>11. QED
  BY <1>1, <1>4, <1>5, <1>6, <1>7, <1>8, <1>9, <1>10 DEF Next

(* With one writer, a descriptor is open on audit.log only, at every step of  *)
(* a rotation, also when renames and opens fail or the process is killed.     *)
THEOREM WritesToActiveHolds == OneProcess => (Spec => []WritesToActive)
<1> SUFFICES ASSUME OneProcess PROVE Spec => []WritesToActive
  OBVIOUS
<1>1. Init => ActiveInv
  BY TypeInit DEF Init, ActiveInv
<1>2. ActiveInv /\ [Next]_vars => ActiveInv'
  BY ActiveStep
<1>3. ActiveInv => WritesToActive
  BY DEF ActiveInv, WritesToActive
<1>4. QED
  BY <1>1, <1>2, <1>3, PTL DEF Spec

-----------------------------------------------------------------------------
(* The inductive invariant behind OnlyOldestDiscarded: a higher number is an  *)
(* older segment, and in a rotation the name that the next rename overwrites  *)
(* is the last one or free.                                                   *)
Sorted ==
    \A m, n \in Names :
        m < n /\ names[m] # NoSegment /\ names[n] # NoSegment => names[m] > names[n]

NextTarget(p) == IF pc[p] = "shift" THEN index[p] + 1 ELSE 1

OrderInv ==
    /\ TypeInv
    /\ Sorted
    /\ \A n \in Names : names[n] # NoSegment => names[n] <= made
    /\ \A p \in Proc : pc[p] \in {"shift", "retire"} =>
         NextTarget(p) = MaxRotations \/ names[NextTarget(p)] = NoSegment

(* Renaming a file to the next number keeps the order, and overwrites nothing *)
(* but the last name.                                                         *)
LEMMA RenameOrder ==
    ASSUME OrderInv, NEW from \in Names, from + 1 \in Names,
           from + 1 = MaxRotations \/ names[from + 1] = NoSegment,
           names[from] # NoSegment, Rename(from, from + 1)
    PROVE  /\ Sorted'
           /\ \A n \in Names : names'[n] # NoSegment => names'[n] <= made
           /\ names'[from] = NoSegment
           /\ \A s \in discarded' \ discarded, n \in Names :
                names[n] # NoSegment => names[n] >= s
<1>1. /\ names \in [Names -> Segments \cup {NoSegment}]
      /\ from \in Nat /\ from # from + 1
      /\ \A n \in Names : n \in Nat /\ n <= MaxRotations
      /\ \A n \in Names : names[n] # NoSegment => names[n] \in Nat
  BY AuditAssumption DEF OrderInv, TypeInv, TypeOK, Names, Segments
<1>2. \A n \in Names : names'[n] = IF n = from THEN NoSegment
                                   ELSE IF n = from + 1 THEN names[from]
                                   ELSE names[n]
  BY <1>1 DEF Rename
<1>3. Sorted'
  <2> SUFFICES ASSUME NEW m \in Names, NEW n \in Names, m < n,
                      names'[m] # NoSegment, names'[n] # NoSegment
               PROVE  names'[m] > names'[n]
    BY DEF Sorted
  <2>1. m # from /\ n # from
    BY <1>2
  <2>2. CASE m = from + 1
    <3>1. from < n /\ names'[m] = names[from] /\ names'[n] = names[n]
      BY <1>1, <1>2, <2>1, <2>2
    <3>2. QED
      BY <3>1 DEF OrderInv, Sorted
  <2>3. CASE n = from + 1
    <3>1. m < from /\ names'[m] = names[m] /\ names'[n] = names[from]
      BY <1>1, <1>2, <2>1, <2>3
    <3>2. QED
      BY <3>1 DEF OrderInv, Sorted
  <2>4. CASE m # from + 1 /\ n # from + 1
    BY <1>2, <2>1, <2>4 DEF OrderInv, Sorted
  <2>5. QED
    BY <2>2, <2>3, <2>4
<1>4. \A n \in Names : names'[n] # NoSegment => names'[n] <= made
  BY <1>2 DEF OrderInv
<1>5. ASSUME NEW s \in discarded' \ discarded, NEW n \in Names,
             names[n] # NoSegment
      PROVE  names[n] >= s
  <2>1. s = names[from + 1] /\ s # NoSegment /\ from + 1 = MaxRotations
    BY <1>5 DEF Rename
  <2>2. CASE n = from + 1
    BY <1>1, <2>1, <2>2
  <2>3. CASE n # from + 1
    <3>1. n < from + 1
      BY <1>1, <2>1, <2>3
    <3>2. names[n] > names[from + 1]
      BY <1>5, <2>1, <3>1 DEF OrderInv, Sorted
    <3>3. QED
      BY <1>1, <1>5, <2>1, <3>2
  <2>4. QED
    BY <2>2, <2>3
<1>6. QED
  BY <1>2, <1>3, <1>4, <1>5

LEMMA OrderStep ==
    ASSUME OneProcess, "rename" \notin failures', OrderInv, [Next]_vars
    PROVE  /\ OrderInv'
           /\ \A s \in discarded' \ discarded, n \in Names :
                names[n] # NoSegment => names[n] >= s
<1> DEFINE Target(q) == pc'[q] \in {"shift", "retire"} =>
                          \/ NextTarget(q)' = MaxRotations
                          \/ names'[NextTarget(q)'] = NoSegment
           Goal == /\ Sorted'
                   /\ \A n \in Names : names'[n] # NoSegment => names'[n] <= made'
                   /\ \A q \in Proc : Target(q)
                   /\ \A s \in discarded' \ discarded, n \in Names :
                        names[n] # NoSegment => names[n] >= s
<1>1. PICK p : Proc = {p}
  BY DEF OneProcess
<1>2. TypeInv /\ TypeInv'
  BY TypeStep DEF OrderInv
<1>3. SUFFICES Goal
  BY <1>2 DEF OrderInv
<1>0. /\ 0 \in Names /\ 1 \in Names /\ p \in Proc /\ MaxRotations \in Nat
      /\ names \in [Names -> Segments \cup {NoSegment}] /\ made \in Nat
      /\ pc \in [Proc -> Steps] /\ index \in [Proc -> 0..(MaxRotations - 1)]
      /\ \A n \in Names : names[n] # NoSegment => names[n] \in Nat
  BY <1>1, <1>2, AuditAssumption DEF TypeInv, TypeOK, Names, Segments
<1>4. ASSUME UNCHANGED <<names, made, discarded>>, Target(p)
      PROVE  Goal
  BY <1>1, <1>4 DEF OrderInv, Sorted
<1>5. CASE Open(p)
  <2>1. Target(p) /\ UNCHANGED discarded
    BY <1>0, <1>5 DEF Open, Goto
  <2>2. CASE names[0] # NoSegment
    BY <1>4, <1>5, <2>1, <2>2 DEF Open
  <2>3. CASE names[0] = NoSegment
    <3>1. made' = made + 1 /\ names' = [names EXCEPT ![0] = made + 1]
      BY <1>5, <2>3 DEF Open
    <3>2. \A n \in Names : n # 0 => names'[n] = names[n] /\ ~(n < 0)
      BY <1>0, <3>1 DEF Names
    <3>3. names'[0] = made + 1
      BY <1>0, <3>1
    <3>4. \A n \in Names : names'[n] # NoSegment => names'[n] <= made'
      BY <1>0, <3>1, <3>2, <3>3 DEF OrderInv
    <3>5. Sorted'
      BY <1>0, <3>2, <3>3 DEF OrderInv, Sorted
    <3>6. QED
      BY <1>1, <2>1, <3>4, <3>5
  <2>4. QED
    BY <2>2, <2>3
<1>6. CASE OpenFails(p) \/ Write(p) \/ Close(p) \/ Crash(p)
  <2>1. Target(p)
    BY <1>0, <1>6 DEF OpenFails, Write, Close, Crash, Goto
  <2>2. QED
    BY <1>4, <1>6, <2>1 DEF OpenFails, Write, Close, Crash
<1>7. CASE Stat(p)
  <2>1. Target(p)
    BY <1>0, <1>7 DEF Stat, Goto, NextTarget, FirstIndex
  <2>2. QED
    BY <1>4, <1>7, <2>1 DEF Stat
<1>8. CASE Shift(p)
  <2> DEFINE from == index[p]
  <2>1. from \in Names /\ from + 1 \in Names /\ from > 0 /\ from \in Nat
    BY <1>0, <1>2, <1>8 DEF Shift, TypeInv, Names
  <2>2. from + 1 = MaxRotations \/ names[from + 1] = NoSegment
    BY <1>0, <1>8 DEF OrderInv, Shift, NextTarget
  <2>3. UNCHANGED made /\ NextTarget(p)' = from
    BY <1>0, <1>8, <2>1 DEF Shift, NextIndex, Goto, NextTarget
  <2>4. CASE names[from] # NoSegment /\ Rename(from, from + 1)
    <3>1. Target(p)
      BY <2>1, <2>2, <2>3, <2>4, RenameOrder
    <3>2. QED
      BY <1>1, <2>1, <2>2, <2>3, <2>4, <3>1, RenameOrder
  <2>5. CASE names[from] = NoSegment /\ UNCHANGED <<names, discarded>>
    BY <1>4, <2>3, <2>5
  <2>6. QED
    <3>1. RenameOrSkip(from, from + 1)
      BY <1>8 DEF Shift
    <3>2. Happens("rename") => "rename" \in failures'
      BY DEF Happens
    <3>3. \/ names[from] # NoSegment /\ Rename(from, from + 1)
          \/ names[from] = NoSegment /\ UNCHANGED <<names, discarded>>
      BY <3>1, <3>2 DEF RenameOrSkip
    <3>4. QED
      BY <2>4, <2>5, <3>3
<1>9. CASE Retire(p)
  <2>1. 1 = MaxRotations \/ names[1] = NoSegment
    BY <1>0, <1>9 DEF OrderInv, Retire, NextTarget
  <2>2. UNCHANGED made /\ Target(p)
    BY <1>0, <1>9 DEF Retire, Goto
  <2>3. CASE names[0] # NoSegment /\ Rename(0, 0 + 1)
    <3> DEFINE from == 0
    <3>1. from \in Names /\ from + 1 \in Names
      BY <1>0
    <3>2. from + 1 = MaxRotations \/ names[from + 1] = NoSegment
      BY <2>1
    <3> HIDE DEF from
    <3>3. names[from] # NoSegment /\ Rename(from, from + 1)
      BY <2>3 DEF from
    <3>4. /\ Sorted'
          /\ \A n \in Names : names'[n] # NoSegment => names'[n] <= made
          /\ \A s \in discarded' \ discarded, n \in Names :
               names[n] # NoSegment => names[n] >= s
      BY <3>1, <3>2, <3>3, RenameOrder
    <3>5. QED
      BY <1>1, <2>2, <3>4
  <2>4. CASE UNCHANGED <<names, discarded>>
    BY <1>4, <2>2, <2>4
  <2>5. RenameOrSkip(0, 1)
    BY <1>9 DEF Retire
  <2>6. 0 + 1 = 1
    OBVIOUS
  <2>7. (names[0] # NoSegment /\ Rename(0, 1)) \/ UNCHANGED <<names, discarded>>
    BY <2>5 DEF RenameOrSkip
  <2>8. (names[0] # NoSegment /\ Rename(0, 0 + 1)) \/ UNCHANGED <<names, discarded>>
    BY <2>6, <2>7
  <2>9. QED
    BY <2>3, <2>4, <2>8
<1>10. CASE UNCHANGED vars
  <2>1. Target(p)
    BY <1>0, <1>10 DEF vars, logVars, OrderInv, NextTarget
  <2>2. QED
    BY <1>4, <1>10, <2>1 DEF vars, logVars
<1>11. QED
  BY <1>1, <1>5, <1>6, <1>7, <1>8, <1>9, <1>10 DEF Next

(* With one writer a rotation only ever gives up the oldest segment, also     *)
(* when earlier rotations were cut short by a crash, as long as no rename     *)
(* failed.                                                                    *)
THEOREM OnlyOldestDiscardedHolds == OneProcess => (Spec => OnlyOldestDiscarded)
<1> SUFFICES ASSUME OneProcess PROVE  Spec => OnlyOldestDiscarded
  OBVIOUS
<1> DEFINE Inv == TypeInv /\ ("rename" \notin failures => OrderInv)
<1>1. Init => Inv
  BY TypeInit DEF Init, OrderInv, Sorted
<1>2. Inv /\ [Next]_vars
        => /\ Inv'
           /\ [\A s \in discarded' \ discarded, n \in Names :
                 "rename" \notin failures' /\ names[n] # NoSegment
                   => names[n] >= s]_vars
  BY OrderStep, TypeStep, FailuresGrow
<1>3. QED
  BY <1>1, <1>2, PTL DEF Spec, OnlyOldestDiscarded

-----------------------------------------------------------------------------
(* The inductive invariant behind KeepsGenerations: with one writer and no    *)
(* fault the names hold the latest segments without a gap, except that a      *)
(* rotation in progress has moved those above its index up by one, and a      *)
(* segment is given up only when that made room for it.                       *)
Segment(k) == IF k > 0 THEN k ELSE NoSegment

Rung(p, n) ==
    CASE pc[p] = "open" -> IF n = 0 THEN NoSegment ELSE Segment(made + 1 - n)
      [] pc[p] \in {"shift", "retire"} ->
           IF n <= index[p] THEN Segment(made - n)
           ELSE IF n = index[p] + 1
             THEN IF n = MaxRotations THEN Segment(made - n) ELSE NoSegment
             ELSE Segment(made + 1 - n)
      [] OTHER -> Segment(made - n)

Rotating(p) == pc[p] \in {"shift", "retire", "open"}

LadderInv ==
    /\ TypeInv
    /\ \A p \in Proc :
         /\ \A n \in Names : names[n] = Rung(p, n)
         /\ pc[p] = "retire" => index[p] = 0
         /\ Rotating(p) => made > 0
         /\ pc[p] \in {"idle", "wrote"} => made > 0 /\ fd[p] # NoSegment
         /\ \A s \in discarded :
              s + MaxRotations < made \/ (Rotating(p) /\ s + MaxRotations = made)

LEMMA LadderInit == Init => LadderInv
<1> SUFFICES ASSUME Init PROVE LadderInv
  OBVIOUS
<1>1. \A n \in Names : n \in Nat /\ ~(0 - n > 0)
  BY DEF Names
<1>2. QED
  BY <1>1, TypeInit DEF Init, LadderInv, Rung, Rotating, Segment

LEMMA LadderStep ==
    ASSUME OneProcess, failures' = {}, LadderInv, [Next]_vars
    PROVE  LadderInv'
<1> SUFFICES ASSUME NEW p \in Proc
             PROVE  /\ \A n \in Names : names'[n] = Rung(p, n)'
                    /\ pc'[p] = "retire" => index'[p] = 0
                    /\ Rotating(p)' => made' > 0
                    /\ pc'[p] \in {"idle", "wrote"} => made' > 0 /\ fd'[p] # NoSegment
                    /\ \A s \in discarded' :
                         \/ s + MaxRotations < made'
                         \/ Rotating(p)' /\ s + MaxRotations = made'
  BY TypeStep DEF LadderInv
<1>1. Proc = {p}
  BY DEF OneProcess
<1>2. TypeInv /\ TypeInv'
  BY TypeStep DEF LadderInv
<1>0. /\ 0 \in Names /\ 1 \in Names /\ p \in Proc
      /\ MaxRotations \in Nat \ {0} /\ made \in Nat /\ NoSegment \notin Nat
      /\ names \in [Names -> Segments \cup {NoSegment}]
      /\ fd \in [Proc -> Segments \cup {NoSegment}]
      /\ pc \in [Proc -> Steps] /\ index \in [Proc -> 0..(MaxRotations - 1)]
      /\ discarded \subseteq Nat
      /\ \A n \in Names : n \in Nat /\ n <= MaxRotations
  BY <1>1, <1>2, AuditAssumption DEF TypeInv, TypeOK, Names, Segments
<1>4. /\ \A n \in Names : names[n] = Rung(p, n)
      /\ pc[p] = "retire" => index[p] = 0
      /\ Rotating(p) => made > 0
      /\ pc[p] \in {"idle", "wrote"} => made > 0 /\ fd[p] # NoSegment
      /\ \A s \in discarded :
           s + MaxRotations < made \/ (Rotating(p) /\ s + MaxRotations = made)
  BY <1>0 DEF LadderInv
<1>5. CASE Open(p)
  <2>1. pc'[p] = "idle" /\ pc[p] \in {"down", "open"} /\ UNCHANGED discarded
    BY <1>0, <1>5 DEF Open, Goto
  <2>2. CASE names[0] # NoSegment
    <3>1. /\ UNCHANGED <<names, made>> /\ fd'[p] = names[0]
          /\ pc[p] = "down" /\ made > 0
      BY <1>0, <1>4, <1>5, <2>1, <2>2 DEF Open, Rung, Segment
    <3>2. \A n \in Names : names'[n] = Rung(p, n)'
      BY <1>4, <2>1, <3>1 DEF Rung
    <3>3. QED
      BY <1>0, <1>4, <2>1, <2>2, <3>1, <3>2 DEF Rotating
  <2>3. CASE names[0] = NoSegment
    <3>1. /\ made' = made + 1 /\ fd'[p] = made + 1
          /\ names' = [names EXCEPT ![0] = made + 1]
      BY <1>0, <1>5, <2>3 DEF Open
    <3>2. \A n \in Names : n # 0 => names[n] = Segment(made + 1 - n)
      <4>1. CASE pc[p] = "open"
        BY <1>4, <4>1 DEF Rung
      <4>2. CASE pc[p] = "down"
        <5>1. made = 0
          BY <1>0, <1>4, <2>3, <4>2 DEF Rung, Segment
        <5>2. \A n \in Names : names[n] = Segment(made - n)
          BY <1>4, <4>2 DEF Rung
        <5>3. QED
          BY <1>0, <5>1, <5>2 DEF Segment
      <4>3. QED
        BY <2>1, <4>1, <4>2
    <3>3. \A n \in Names : names'[n] = Rung(p, n)'
      BY <1>0, <2>1, <3>1, <3>2 DEF Rung, Segment
    <3>4. ASSUME NEW s \in discarded' PROVE s + MaxRotations < made'
      <4>1. s \in discarded /\ s \in Nat
        BY <1>0, <2>1
      <4>2. s + MaxRotations <= made
        BY <1>0, <1>4, <4>1
      <4>3. QED
        BY <1>0, <3>1, <4>1, <4>2
    <3>5. QED
      BY <1>0, <2>1, <3>1, <3>3, <3>4 DEF Rotating
  <2>4. QED
    BY <2>2, <2>3
<1>6. CASE Write(p) \/ Close(p)
  <2>1. /\ UNCHANGED <<names, made, discarded, index>>
        /\ pc[p] = "idle" /\ pc'[p] \in {"wrote", "down"}
        /\ pc'[p] = "wrote" => UNCHANGED fd
    BY <1>0, <1>6 DEF Write, Close, Goto
  <2>2. QED
    BY <1>4, <2>1 DEF Rung, Rotating
<1>7. CASE Stat(p)
  <2>1. UNCHANGED <<names, made, discarded>> /\ pc[p] = "wrote"
    BY <1>7 DEF Stat
  <2>2. /\ made > 0 /\ fd[p] # NoSegment
        /\ \A n \in Names : names[n] = Segment(made - n)
    BY <1>4, <2>1 DEF Rung
  <2>3. CASE pc'[p] = "idle" /\ UNCHANGED fd
    BY <1>0, <1>4, <2>1, <2>2, <2>3 DEF Rung, Rotating
  <2>4. CASE /\ index'[p] = MaxRotations - 1
             /\ pc'[p] = IF MaxRotations - 1 > 0 THEN "shift" ELSE "retire"
    BY <1>0, <1>4, <2>1, <2>2, <2>4 DEF Rung, Rotating
  <2>5. QED
    BY <1>0, <1>7, <2>3, <2>4 DEF Stat, FirstIndex, Goto
<1>8. CASE Shift(p)
  <2> DEFINE from == index[p]
  <2>1. /\ from \in Names /\ from + 1 \in Names /\ from \in Nat /\ from > 0
        /\ pc[p] = "shift" /\ made > 0
    BY <1>0, <1>2, <1>4, <1>8 DEF Shift, TypeInv, Names, Rotating
  <2>2. /\ index'[p] = from - 1 /\ UNCHANGED made
        /\ pc'[p] = IF from - 1 > 0 THEN "shift" ELSE "retire"
    BY <1>0, <1>8 DEF Shift, NextIndex, Goto
  <2>3. /\ names[from] = Segment(made - from)
        /\ names[from + 1] = IF from + 1 = MaxRotations
                               THEN Segment(made - (from + 1)) ELSE NoSegment
        /\ \A n \in Names : n < from => names[n] = Segment(made - n)
        /\ \A n \in Names : n > from + 1 => names[n] = Segment(made + 1 - n)
    BY <1>0, <1>4, <2>1 DEF Rung
  <2>4. from # MaxRotations
    BY <1>0, <2>1
  <2>5. \A n \in Names : names'[n] = IF n < from THEN Segment(made - n)
                                     ELSE IF n = from THEN NoSegment
                                     ELSE Segment(made + 1 - n)
    <3>1. CASE names[from] # NoSegment /\ Rename(from, from + 1)
      <4>1. \A n \in Names : names'[n] = IF n = from THEN NoSegment
                                         ELSE IF n = from + 1 THEN names[from]
                                         ELSE names[n]
        BY <1>0, <2>1, <3>1 DEF Rename
      <4>2. Segment(made - from) = Segment(made + 1 - (from + 1))
        BY <1>0, <2>1 DEF Segment
      <4>3. QED
        BY <1>0, <2>1, <2>3, <4>1, <4>2
    <3>2. CASE names[from] = NoSegment /\ UNCHANGED names
      <4>1. ~(made - from > 0)
        BY <1>0, <2>1, <2>3, <3>2 DEF Segment
      <4>2. Segment(made + 1 - (from + 1)) = NoSegment /\ names[from + 1] = NoSegment
        BY <1>0, <2>1, <2>3, <4>1 DEF Segment
      <4>3. QED
        BY <1>0, <2>1, <2>3, <3>2, <4>2
    <3>3. QED
      BY <1>8, <3>1, <3>2 DEF Shift, RenameOrSkip, Happens
  <2>6. \A n \in Names : names'[n] = Rung(p, n)'
    BY <1>0, <2>1, <2>2, <2>4, <2>5 DEF Rung
  <2>7. \A s \in discarded' : s + MaxRotations < made' \/ s + MaxRotations = made'
    <3>1. ASSUME NEW s \in discarded' \ discarded PROVE s + MaxRotations = made
      <4>1. s = names[from + 1] /\ s # NoSegment
        BY <1>8, <3>1 DEF Shift, RenameOrSkip, Rename
      <4>2. QED
        BY <1>0, <2>1, <2>3, <4>1 DEF Segment
    <3>2. QED
      BY <1>4, <2>2, <3>1
  <2>8. QED
    BY <1>0, <2>1, <2>2, <2>6, <2>7 DEF Rotating
<1>9. CASE Retire(p)
  <2>1. pc[p] = "retire" /\ index[p] = 0 /\ made > 0
    BY <1>4, <1>9 DEF Retire, Rotating
  <2>2. pc'[p] = "open" /\ UNCHANGED <<made, index>>
    BY <1>0, <1>9 DEF Retire, Goto
  <2>3. /\ names[0] = made
        /\ names[1] = IF MaxRotations = 1 THEN Segment(made - 1) ELSE NoSegment
        /\ \A n \in Names : n > 1 => names[n] = Segment(made + 1 - n)
    BY <1>0, <1>4, <2>1 DEF Rung, Segment
  <2>4. Rename(0, 1)
    BY <1>0, <1>9, <2>1, <2>3 DEF Retire, RenameOrSkip, Happens
  <2>5. \A n \in Names : names'[n] = IF n = 0 THEN NoSegment
                                     ELSE IF n = 1 THEN made ELSE names[n]
    BY <1>0, <2>3, <2>4 DEF Rename
  <2>6. \A n \in Names : names'[n] = Rung(p, n)'
    BY <1>0, <2>1, <2>2, <2>3, <2>5 DEF Rung, Segment
  <2>7. \A s \in discarded' : s + MaxRotations < made' \/ s + MaxRotations = made'
    <3>1. ASSUME NEW s \in discarded' \ discarded PROVE s + MaxRotations = made
      <4>1. s = names[1] /\ s # NoSegment
        BY <2>4, <3>1 DEF Rename
      <4>2. QED
        BY <1>0, <2>3, <4>1 DEF Segment
    <3>2. QED
      BY <1>4, <2>2, <3>1
  <2>8. QED
    BY <2>1, <2>2, <2>6, <2>7 DEF Rotating
<1>10. CASE UNCHANGED vars
  BY <1>4, <1>10 DEF vars, logVars, Rung, Rotating
<1>11. QED
  BY <1>1, <1>5, <1>6, <1>7, <1>8, <1>9, <1>10 DEF Next, OpenFails, Crash, Happens

(* With one writer the log keeps MaxRotations generations as long as nothing  *)
(* fails.                                                                     *)
THEOREM KeepsGenerationsHolds == OneProcess => (Spec => []KeepsGenerations)
<1> SUFFICES ASSUME OneProcess PROVE Spec => []KeepsGenerations
  OBVIOUS
<1> DEFINE Inv == failures = {} => LadderInv
<1>1. Inv /\ [Next]_vars => Inv'
  BY LadderStep, FailuresGrow
<1>2. Inv => KeepsGenerations
  <2> SUFFICES ASSUME LadderInv, \A p \in Proc : pc[p] \in {"down", "idle", "wrote"},
                      NEW s \in discarded
               PROVE  made - s > MaxRotations
    BY DEF KeepsGenerations
  <2>1. s + MaxRotations < made
    BY DEF OneProcess, LadderInv, Rotating
  <2>2. s \in Nat /\ made \in Nat /\ MaxRotations \in Nat
    BY AuditAssumption DEF LadderInv, TypeInv, TypeOK, Segments
  <2>3. QED
    BY <2>1, <2>2
<1>3. Init => Inv
  BY LadderInit
<1>4. QED
  BY <1>1, <1>2, <1>3, PTL DEF Spec
=============================================================================
