--------------------------- MODULE MenuIndexProofs ---------------------------
(***************************************************************************)
(* Proofs about the lazily loaded menu index, for any number of threads    *)
(* between which the process may switch anywhere, any embedding models,    *)
(* edits and restarts.                                                     *)
(*                                                                         *)
(* CheckedWhenQuiet is not inductive: an outdated index may be in memory   *)
(* while threads load and check.  What is kept is that somebody is still   *)
(* answerable for it: a thread that has yet to check the model, that has   *)
(* yet to compare the times of an index of the right model, or that is     *)
(* building a new one.  A thread past its look at the model answers no     *)
(* longer for an index of another model, since one that is loaded later    *)
(* has its loader to answer for it.                                        *)
(***************************************************************************)
EXTENDS MenuIndex, TLAPS

\* A thread that builds has the menus it builds from.
MenusRead ==
  \A t \in Thread : pc[t] \in {"encode", "publish"} => menus \in Version

Answerable(t) ==
  \/ pc[t] \in {"check_model", "build", "encode", "publish"}
  \/ pc[t] = "check_mtime" /\ index.model = model

Replaceable == Outdated /\ ~failed => \E t \in Thread : Answerable(t)

IndexInv == TypeOK /\ MenusRead /\ Replaceable

-----------------------------------------------------------------------------
(* Types *)

LEMMA GotoType ==
  ASSUME TypeOK, NEW t \in Thread, NEW label \in PC, Goto(t, label)
  PROVE  /\ pc' \in [Thread -> PC]
         /\ pc'[t] = label
         /\ \A u \in Thread : u # t => pc'[u] = pc[u]
BY DEF TypeOK, Goto

LEMMA TypesKept ==
  ASSUME MenuIndexAssumption, TypeOK, MenusRead, [Next]_vars
  PROVE  TypeOK' /\ MenusRead'
<1>1. /\ menu_file \in Version /\ menu_file \in Nat /\ MaxEdits \in Nat /\ starts \in Nat
      /\ started \in 1 .. menu_file /\ Menus \in Version
  BY DEF TypeOK, Version, Menus, MenuIndexAssumption
<1>2. ASSUME NEW t \in Thread, Search(t)
      PROVE  TypeOK' /\ MenusRead'
  <2>1. PICK label \in {"search", "open", "build"} : Goto(t, label)
    BY <1>2 DEF Search
  <2>2. /\ pc' \in [Thread -> PC] /\ pc'[t] = label
        /\ \A u \in Thread : u # t => pc'[u] = pc[u]
    BY <2>1, GotoType DEF PC
  <2> QED
    BY <1>1, <1>2, <2>2 DEF Search, fileVars, processVars, TypeOK, MenusRead
<1>3. ASSUME NEW t \in Thread, Load(t)
      PROVE  TypeOK' /\ MenusRead'
  <2>1. PICK label \in {"build", "check_model"} : Goto(t, label)
    BY <1>3 DEF Load
  <2>2. /\ pc' \in [Thread -> PC] /\ pc'[t] = label
        /\ \A u \in Thread : u # t => pc'[u] = pc[u]
    BY <2>1, GotoType DEF PC
  <2> QED
    BY <1>3, <2>2 DEF Load, fileVars, processVars, TypeOK, MenusRead
<1>4. ASSUME NEW t \in Thread,
             CheckModel(t) \/ CheckMtime(t) \/ Score(t) \/ Answer(t)
      PROVE  TypeOK' /\ MenusRead'
  <2>1. PICK label \in {"check_mtime", "build", "search", "answer", "idle"} : Goto(t, label)
    BY <1>4 DEF CheckModel, CheckMtime, Score, Answer
  <2>2. /\ pc' \in [Thread -> PC] /\ pc'[t] = label
        /\ \A u \in Thread : u # t => pc'[u] = pc[u]
    BY <2>1, GotoType DEF PC
  <2>3. UNCHANGED <<menu_file, index_file, model, started, starts, menus, index, failed>>
    BY <1>4 DEF CheckModel, CheckMtime, Score, Answer, fileVars, processVars
  <2> QED
    BY <2>2, <2>3 DEF TypeOK, MenusRead
<1>5. ASSUME NEW t \in Thread, ReadMenus(t)
      PROVE  TypeOK' /\ MenusRead'
  <2>1. pc' \in [Thread -> PC]
    BY <1>5, GotoType DEF ReadMenus, PC
  <2> QED
    BY <1>1, <1>5, <2>1 DEF ReadMenus, fileVars, processVars, TypeOK, MenusRead
<1>6. ASSUME NEW t \in Thread, Encode(t)
      PROVE  TypeOK' /\ MenusRead'
  <2>1. PICK label \in {"publish", "idle"} : Goto(t, label)
    BY <1>6 DEF Encode
  <2>2. /\ pc' \in [Thread -> PC] /\ pc'[t] = label
        /\ \A u \in Thread : u # t => pc'[u] = pc[u]
    BY <2>1, GotoType DEF PC
  <2>3. pc[t] = "encode" /\ failed' \in BOOLEAN
    BY <1>6 DEF Encode, TypeOK
  <2> QED
    BY <1>6, <2>2, <2>3 DEF Encode, fileVars, processVars, TypeOK, MenusRead
<1>7. ASSUME NEW t \in Thread, Publish(t)
      PROVE  TypeOK' /\ MenusRead'
  <2>1. /\ pc' \in [Thread -> PC] /\ pc'[t] = "save"
        /\ \A u \in Thread : u # t => pc'[u] = pc[u]
    BY <1>7, GotoType DEF Publish, PC
  <2>2. index' \in Index
    BY <1>1, <1>7 DEF Publish, Index, TypeOK, MenusRead
  <2> QED
    BY <1>7, <2>1, <2>2 DEF Publish, fileVars, processVars, TypeOK, MenusRead
<1>8. ASSUME NEW t \in Thread, OpenToSave(t) \/ Dump(t)
      PROVE  TypeOK' /\ MenusRead'
  <2>1. PICK label \in {"saving", "search"} : Goto(t, label)
    BY <1>8 DEF OpenToSave, Dump
  <2>2. /\ pc' \in [Thread -> PC] /\ pc'[t] = label
        /\ \A u \in Thread : u # t => pc'[u] = pc[u]
    BY <2>1, GotoType DEF PC
  <2>3. /\ UNCHANGED <<menu_file, model, started, starts, menus, index, failed>>
        /\ index_file' \in {index_file, index, Torn}
    BY <1>8 DEF OpenToSave, Dump, processVars
  <2> QED
    BY <2>2, <2>3 DEF TypeOK, MenusRead
<1>9. CASE Edit
  <2>1. menu_file' \in Version /\ started' \in 1 .. menu_file'
    BY <1>1, <1>9 DEF Edit, Version, processVars
  <2> QED
    BY <1>9, <2>1 DEF Edit, processVars, TypeOK, MenusRead
<1>10. CASE Restart
  <2>1. starts' \in 1 .. MaxStarts /\ started' \in 1 .. menu_file'
    BY <1>1, <1>10 DEF Restart, Version, TypeOK, MenuIndexAssumption
  <2>2. pc' \in [Thread -> PC] /\ \A t \in Thread : pc'[t] = "idle"
    BY <1>10 DEF Restart, PC
  <2> QED
    BY <1>10, <2>1, <2>2 DEF Restart, TypeOK, MenusRead
<1>11. CASE UNCHANGED vars
  BY <1>11 DEF vars, TypeOK, MenusRead
<1> QED
  BY <1>2, <1>3, <1>4, <1>5, <1>6, <1>7, <1>8, <1>9, <1>10, <1>11 DEF Next, Step

-----------------------------------------------------------------------------
(* Somebody answers for an outdated index *)

LEMMA ReplaceableKept ==
  ASSUME IndexInv, [Next]_vars
  PROVE  Replaceable'
<1> SUFFICES ASSUME Outdated', ~failed'
             PROVE  \E t \in Thread : Answerable(t)'
  BY DEF Replaceable
<1>1. /\ menu_file \in Nat /\ started \in Nat /\ started <= menu_file
      /\ \A t \in Thread, label \in PC : Goto(t, label) =>
           pc'[t] = label /\ \A u \in Thread : u # t => pc'[u] = pc[u]
  BY GotoType DEF IndexInv, TypeOK, Version
<1>2. ASSUME UNCHANGED <<index, model, started>>, failed \in BOOLEAN, failed => failed'
      PROVE  \E t \in Thread : Answerable(t)
  BY <1>2 DEF IndexInv, Replaceable, Outdated
<1>3. failed \in BOOLEAN
  BY DEF IndexInv, TypeOK
<1>4. ASSUME NEW t \in Thread, Search(t)
      PROVE  \E u \in Thread : Answerable(u)'
  <2>1. PICK u \in Thread : Answerable(u)
    BY <1>2, <1>3, <1>4 DEF Search, processVars
  <2>2. pc[t] = "idle" /\ \E label \in PC : Goto(t, label)
    BY <1>4 DEF Search, PC
  <2>3. pc'[u] = pc[u]
    BY <1>1, <2>1, <2>2 DEF Answerable
  <2> QED
    BY <1>4, <2>1, <2>3 DEF Search, processVars, Answerable
<1>5. ASSUME NEW t \in Thread, Load(t)
      PROVE  \E u \in Thread : Answerable(u)'
  <2>1. pc'[t] \in {"build", "check_model"}
    BY <1>1, <1>5 DEF Load, PC
  <2> QED
    BY <2>1 DEF Answerable
<1>6. ASSUME NEW t \in Thread, CheckModel(t)
      PROVE  \E u \in Thread : Answerable(u)'
  <2>1. CASE index.model = model
    <3>1. pc'[t] = "check_mtime" /\ index' = index /\ model' = model
      BY <1>1, <1>6, <2>1 DEF CheckModel, PC, processVars
    <3> QED
      BY <2>1, <3>1 DEF Answerable
  <2>2. CASE index.model # model
    <3>1. pc'[t] = "build"
      BY <1>1, <1>6, <2>2 DEF CheckModel, PC
    <3> QED
      BY <3>1 DEF Answerable
  <2> QED
    BY <2>1, <2>2
<1>7. ASSUME NEW t \in Thread, CheckMtime(t)
      PROVE  \E u \in Thread : Answerable(u)'
  <2>1. UNCHANGED <<index, model, started, failed>>
    BY <1>7 DEF CheckMtime, processVars
  <2>2. CASE index.mtime = menu_file
    <3>1. index.model # model
      BY <1>1, <2>1, <2>2 DEF Outdated
    <3>2. PICK u \in Thread : Answerable(u)
      BY <1>2, <1>3, <2>1
    <3>3. pc'[u] = pc[u]
      BY <1>1, <1>7, <2>2, <3>1, <3>2 DEF CheckMtime, Answerable, PC
    <3> QED
      BY <2>1, <3>2, <3>3 DEF Answerable
  <2>3. CASE index.mtime # menu_file
    <3>1. pc'[t] = "build"
      BY <1>1, <1>7, <2>3 DEF CheckMtime, PC
    <3> QED
      BY <3>1 DEF Answerable
  <2> QED
    BY <2>2, <2>3
<1>8. ASSUME NEW t \in Thread, ReadMenus(t) \/ Encode(t)
      PROVE  \E u \in Thread : Answerable(u)'
  <2>1. pc'[t] \in {"encode", "publish"}
    BY <1>1, <1>8 DEF ReadMenus, Encode, PC
  <2> QED
    BY <2>1 DEF Answerable
<1>9. ASSUME NEW t \in Thread, Publish(t)
      PROVE  FALSE
  BY <1>1, <1>9 DEF Publish, Outdated, processVars
<1>10. ASSUME NEW t \in Thread, OpenToSave(t) \/ Dump(t) \/ Score(t) \/ Answer(t)
      PROVE  \E u \in Thread : Answerable(u)'
  <2>1. UNCHANGED <<index, model, started, failed>>
    BY <1>10 DEF OpenToSave, Dump, Score, Answer, processVars
  <2>2. PICK u \in Thread : Answerable(u)
    BY <1>2, <1>3, <2>1
  <2>3. pc[t] \in {"save", "saving", "search", "answer"} /\ \E label \in PC : Goto(t, label)
    BY <1>10 DEF OpenToSave, Dump, Score, Answer, PC
  <2>4. pc'[u] = pc[u]
    BY <1>1, <2>2, <2>3 DEF Answerable
  <2> QED
    BY <2>1, <2>2, <2>4 DEF Answerable
<1>11. CASE Edit
  <2>1. UNCHANGED <<index, model, started, failed, pc>>
    BY <1>11 DEF Edit, processVars
  <2> QED
    BY <1>2, <1>3, <2>1 DEF Answerable
<1>12. CASE Restart
  BY <1>12 DEF Restart, Outdated
<1>13. CASE UNCHANGED vars
  BY <1>2, <1>3, <1>13 DEF vars, Answerable
<1> QED
  BY <1>4, <1>5, <1>6, <1>7, <1>8, <1>9, <1>10, <1>11, <1>12, <1>13 DEF Next, Step

LEMMA IndexInvariance == Spec => []IndexInv
<1>1. Init => IndexInv
  <2> SUFFICES ASSUME Init
               PROVE  IndexInv
    OBVIOUS
  <2>1. menu_file \in Version /\ started \in 1 .. menu_file /\ starts \in 1 .. MaxStarts
    BY MenuIndexAssumption DEF Init, MenuIndexAssumption, Version
  <2> QED
    BY <2>1 DEF Init, IndexInv, TypeOK, MenusRead, Replaceable, Outdated, PC
<1>2. IndexInv /\ [Next]_vars => IndexInv'
  BY TypesKept, ReplaceableKept, MenuIndexAssumption DEF IndexInv
<1> QED
  BY <1>1, <1>2, PTL DEF Spec

-----------------------------------------------------------------------------
(* Theorems *)

\* For every number of threads, edits and starts: the file, the index and the
\* menus in memory are what a build or an interrupted dump can leave.
THEOREM MenuIndexTypeCorrect == Spec => []TypeOK
<1>1. IndexInv => TypeOK
  BY DEF IndexInv
<1> QED
  BY <1>1, IndexInvariance, PTL

\* For every number of threads that load, check and build over one another, and
\* a process that may have died anywhere before: once nobody loads and no build
\* has raised, the index in memory is of the running model and not older than
\* the edits before the start.
THEOREM QuietIndexChecked == Spec => []CheckedWhenQuiet
<1>1. IndexInv => CheckedWhenQuiet
  BY DEF IndexInv, Replaceable, Answerable, CheckedWhenQuiet, Loading
<1> QED
  BY <1>1, IndexInvariance, PTL
=============================================================================
