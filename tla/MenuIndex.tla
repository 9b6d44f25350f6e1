------------------------------ MODULE MenuIndex ------------------------------
(***************************************************************************)
(* The lazily loaded index of the semantic menu search                     *)
(* (app/llm/rag.py): one MenuRetriever per process, shared by the worker   *)
(* threads of the turns and the event loop's own thread, with a file that  *)
(* outlives the process.                                                   *)
(*                                                                         *)
(* Menus are the version of menu_data.yaml they were read from, and the    *)
(* file's modification time is its version.  No lock guards the index: a   *)
(* thread may be interrupted between any two accesses to it or to a file.  *)
(* The embedding model is external, it may fail to load.  Left out: how    *)
(* similarity is computed.                                                 *)
(***************************************************************************)
EXTENDS Integers, FiniteSets

CONSTANTS
  Thread,       \* the threads that search
  Model,        \* embedding models a release of the program may name
  MaxEdits,     \* bound: versions of menu_data.yaml
  MaxStarts,    \* bound: starts of the process
  None          \* no index, no file, no menu read yet

ASSUME MenuIndexAssumption ==
  /\ MaxEdits \in Nat \ {0}
  /\ MaxStarts \in Nat \ {0}
  /\ Model # {}

VARIABLES
  menu_file,    \* version of menu_data.yaml
  index_file,   \* rag_index_<cafe>.pkl
  model,        \* EMBEDDING_MODEL_NAME of the running process
  menus,        \* what load_menu() keeps for the life of the process
  index,        \* MenuRetriever._index
  pc,           \* where each thread is in search()
  failed,       \* a build raised in this process
  started,      \* version of menu_data.yaml when the process started
  starts        \* number of starts

fileVars    == <<menu_file, index_file>>
processVars == <<model, started, starts>>
vars == <<menu_file, index_file, model, menus, index, pc, failed, started, starts>>

Version == 1 .. MaxEdits
Index   == [menus : Version, model : Model, mtime : Version]

\* What an interrupted pickle.dump leaves: pickle.load raises on it.
Torn == [menus |-> 0, model |-> None, mtime |-> 0]

PC == {"idle", "open", "check_model", "check_mtime", "build", "encode", "publish",
       "save", "saving", "search", "answer"}

Init ==
  /\ menu_file = 1
  /\ index_file = None
  /\ model \in Model
  /\ menus = None
  /\ index = None
  /\ pc = [t \in Thread |-> "idle"]
  /\ failed = FALSE
  /\ started = 1
  /\ starts = 1

Goto(t, label) == pc' = [pc EXCEPT ![t] = label]

\* load_menu(): read once per process.
Menus == IF menus = None THEN menu_file ELSE menus

-----------------------------------------------------------------------------
(* _load_or_build *)

\* A search begins, from build_menu_context, where a look-up in the menu comes
\* first, or from inquire_menu_info, where none does.
Search(t) ==
  /\ pc[t] = "idle"
  /\ menus' \in {menus, Menus}
  /\ Goto(t, IF index # None THEN "search"
             ELSE IF index_file # None THEN "open" ELSE "build")
  /\ UNCHANGED <<fileVars, processVars, index, failed>>

\* What was loaded becomes the index of all threads before it is checked.
Load(t) ==
  /\ pc[t] = "open"
  /\ IF index_file = Torn
     THEN Goto(t, "build") /\ UNCHANGED index
     ELSE Goto(t, "check_model") /\ index' = index_file
  /\ UNCHANGED <<fileVars, processVars, menus, failed>>

\* Fault: the index of any model will do.
AnyModel(t) ==
  /\ pc[t] = "check_model"
  /\ Goto(t, "check_mtime")
  /\ UNCHANGED <<fileVars, processVars, menus, index, failed>>

\* The checks read the shared attribute again.
CheckModel(t) ==
  /\ pc[t] = "check_model"
  /\ Goto(t, IF index.model = model THEN "check_mtime" ELSE "build")
  /\ UNCHANGED <<fileVars, processVars, menus, index, failed>>

\* Fault: only a file older than the index is noticed.
CheckOlder(t) ==
  /\ pc[t] = "check_mtime"
  /\ Goto(t, IF index.mtime <= menu_file THEN "search" ELSE "build")
  /\ UNCHANGED <<fileVars, processVars, menus, index, failed>>

CheckMtime(t) ==
  /\ pc[t] = "check_mtime"
  /\ Goto(t, IF index.mtime = menu_file THEN "search" ELSE "build")
  /\ UNCHANGED <<fileVars, processVars, menus, index, failed>>

\* Fault: the build relies on somebody else having read the menu.
ReadMenusLate(t) ==
  /\ pc[t] = "build"
  /\ Goto(t, "encode")
  /\ UNCHANGED <<fileVars, processVars, menus, index, failed>>

\* _build_index: the menus, then the model and the embeddings, then the time.
ReadMenus(t) ==
  /\ pc[t] = "build"
  /\ menus' = Menus
  /\ Goto(t, "encode")
  /\ UNCHANGED <<fileVars, processVars, index, failed>>

\* The model may not be installed: the caller of search() catches it.
Encode(t) ==
  /\ pc[t] = "encode"
  /\ \/ Goto(t, "publish") /\ UNCHANGED failed
     \/ Goto(t, "idle") /\ failed' = TRUE
  /\ UNCHANGED <<fileVars, processVars, menus, index>>

Publish(t) ==
  /\ pc[t] = "publish"
  /\ index' = [menus |-> menus, model |-> model, mtime |-> menu_file]
  /\ Goto(t, "save")
  /\ UNCHANGED <<fileVars, processVars, menus, failed>>

\* Opening the file for writing empties it; if it fails the search goes on.
OpenToSave(t) ==
  /\ pc[t] = "save"
  /\ \/ /\ index_file' = Torn
        /\ Goto(t, "saving")
     \/ Goto(t, "search") /\ UNCHANGED index_file
  /\ UNCHANGED <<menu_file, processVars, menus, index, failed>>

\* The index written is the shared one; a failure, or another thread that writes
\* the file at the same time, leaves a file nobody can load.
Dump(t) ==
  /\ pc[t] = "saving"
  /\ index_file' \in {index, Torn}
  /\ Goto(t, "search")
  /\ UNCHANGED <<menu_file, processVars, menus, index, failed>>

\* search() itself: the query is embedded, which may fail, and scored.
Score(t) ==
  /\ pc[t] = "search"
  /\ \/ Goto(t, "answer")
     \/ Goto(t, "idle")
  /\ UNCHANGED <<fileVars, processVars, menus, index, failed>>

\* The menus of the best scores are taken out of the shared index.
Answer(t) ==
  /\ pc[t] = "answer"
  /\ Goto(t, "idle")
  /\ UNCHANGED <<fileVars, processVars, menus, index, failed>>

-----------------------------------------------------------------------------
(* Around it *)

\* Somebody edits menu_data.yaml.
Edit ==
  /\ menu_file < MaxEdits
  /\ menu_file' = menu_file + 1
  /\ UNCHANGED <<index_file, processVars, menus, index, pc, failed>>

\* The process stops anywhere and starts again, perhaps as another release.
Restart ==
  /\ starts < MaxStarts
  /\ starts' = starts + 1
  /\ model' \in Model
  /\ menus' = None
  /\ index' = None
  /\ pc' = [t \in Thread |-> "idle"]
  /\ failed' = FALSE
  /\ started' = menu_file
  /\ UNCHANGED <<menu_file, index_file>>

Step(t) ==
  \/ Load(t) \/ CheckModel(t) \/ CheckMtime(t)
  \/ ReadMenus(t) \/ Encode(t) \/ Publish(t) \/ OpenToSave(t) \/ Dump(t)
  \/ Score(t) \/ Answer(t)

Next == Edit \/ Restart \/ \E t \in Thread : Search(t) \/ Step(t)

Spec == Init /\ [][Next]_vars

\* A thread in search() runs on.
FairSpec == Spec /\ \A t \in Thread : WF_vars(Step(t))

-----------------------------------------------------------------------------
(* Properties *)

TypeOK ==
  /\ menu_file \in Version
  /\ index_file \in Index \cup {None, Torn}
  /\ model \in Model
  /\ menus \in Version \cup {None}
  /\ index \in Index \cup {None}
  /\ pc \in [Thread -> PC]
  /\ failed \in BOOLEAN
  /\ started \in 1 .. menu_file
  /\ starts \in 1 .. MaxStarts

\* The index is of another model, or dates from before the edits that preceded
\* the start of the process.
Outdated == index # None /\ (index.model # model \/ index.mtime < started)

Loading == {"open", "check_model", "check_mtime", "build", "encode", "publish"}

\* Once no thread is in _load_or_build and no build has raised, the index in
\* memory has passed the checks, whichever thread published it last: loads,
\* checks and builds of several threads may overlap, and the process may have
\* died anywhere before, also while it wrote the file.
CheckedWhenQuiet ==
  (~failed /\ \A t \in Thread : pc[t] \notin Loading) => ~Outdated

\* An outdated index does not stay: some thread replaces it, unless its build
\* raises.
OutdatedReplaced == Outdated ~> (~Outdated \/ failed)

\* What the README says of the index, and a comment where the file is loaded:
\* it is rebuilt when menu_data.yaml was changed; so no search of a process
\* answers with menus from before an edit that preceded its start.
EditNoticed ==
  \A t \in Thread : pc[t] = "answer" => index.menus >= started
=============================================================================
