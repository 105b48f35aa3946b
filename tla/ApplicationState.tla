--------------------------- MODULE ApplicationState ---------------------------
(***************************************************************************)
(* The application-global state of TerminalSettingsModel/ApplicationState  *)
(* (ApplicationState.cpp): a few "warning dismissed" flags kept in         *)
(* state.json next to the user's settings.  Every window process holds its *)
(* own ApplicationState objects and reaches the one file through           *)
(* CreateFileW with FILE_SHARE_READ | FILE_SHARE_WRITE.                     *)
(*                                                                         *)
(* state.json is a record: file is "absent" (no file), "empty" (the       *)
(* zero-length file CREATE_ALWAYS leaves before WriteFile fills it) or     *)
(* "json", and keys is the set of keys the JSON document holds as true.   *)
(***************************************************************************)
EXTENDS Naturals, Sequences, FiniteSets

CONSTANTS
    Procs,          \* the window processes sharing state.json
    Keys,           \* the dismissal flags (CloseAllTabsWarningDismissed, ...)
    MaxObjects      \* bound on the ApplicationState objects ever created

VARIABLES
    disk,       \* the content of state.json
    objs,       \* every ApplicationState object created, in creation order
    storage,    \* storage[p]: the object _getStaticStorage holds in p, or 0
    pc,         \* pc[p]: the Commit p has between CreateFileW and WriteFile
    durable,    \* history: keys some completed Commit wrote since the last Reset
    sinceReset  \* history: keys dismissed since the last Reset

vars == <<disk, objs, storage, pc, durable, sinceReset>>

Absent == [file |-> "absent", keys |-> {}]
Empty  == [file |-> "empty", keys |-> {}]
Json(ks) == [file |-> "json", keys |-> ks]
NoCommit == [obj |-> 0, content |-> {}]

Object == [proc: Procs, flags: SUBSET Keys, invalidated: BOOLEAN, live: BOOLEAN]

TypeOK ==
    /\ disk \in {Absent, Empty} \cup {Json(ks) : ks \in SUBSET Keys}
    /\ objs \in Seq(Object) /\ Len(objs) <= MaxObjects
    /\ storage \in [Procs -> {0} \cup DOMAIN objs]
    /\ pc \in [Procs -> {NoCommit} \cup [obj: 1..MaxObjects, content: SUBSET Keys]]
    /\ durable \subseteq Keys /\ sinceReset \subseteq Keys

(* The objects process p can still call: every object it was handed and   *)
(* that its process instance still holds (a caller may keep one across    *)
(* Reload).                                                                *)
ObjectsOf(p) == {o \in DOMAIN objs : objs[o].proc = p /\ objs[o].live}

(* _load with LayerJson: a missing file, or one the reader cannot parse,   *)
(* leaves every flag at its default false; a parsed document sets each key *)
(* it holds.                                                               *)
Load(d) == IF d.file = "json" THEN d.keys ELSE {}

Init ==
    /\ disk \in {Absent} \cup {Json(ks) : ks \in SUBSET Keys}
    /\ objs = << >>
    /\ storage = [p \in Procs |-> 0]
    /\ pc = [p \in Procs |-> NoCommit]
    /\ durable = Load(disk)
    /\ sinceReset = Load(disk)

Idle(p) == pc[p] = NoCommit

Invalidated == {o \in DOMAIN objs : objs[o].invalidated}

(* Mutant of GetForCurrentApp: the new object is stored without _load.    *)
GetForCurrentAppNoLoad(p) ==
    /\ Idle(p)
    /\ storage[p] \in {0} \cup Invalidated
    /\ Len(objs) < MaxObjects
    /\ objs' = Append(objs, [proc |-> p, flags |-> {},
                             invalidated |-> FALSE, live |-> TRUE])
    /\ storage' = [storage EXCEPT ![p] = Len(objs) + 1]
    /\ UNCHANGED <<disk, pc, durable, sinceReset>>

(* Mutant of GetForCurrentApp: the stored index is one past the new one. *)
GetForCurrentAppSkipsSlot(p) ==
    /\ Idle(p)
    /\ storage[p] \in {0} \cup Invalidated
    /\ Len(objs) < MaxObjects
    /\ objs' = Append(objs, [proc |-> p, flags |-> Load(disk),
                             invalidated |-> FALSE, live |-> TRUE])
    /\ storage' = [storage EXCEPT ![p] = Len(objs) + 2]
    /\ UNCHANGED <<disk, pc, durable, sinceReset>>

(* GetForCurrentApp: under the mutex, hand out the stored object unless it *)
(* is missing or invalidated; otherwise create one, _load it from disk and *)
(* store it.  Handing out the stored object changes no state.              *)
GetForCurrentApp(p) ==
    /\ Idle(p)
    /\ storage[p] \in {0} \cup Invalidated
    /\ Len(objs) < MaxObjects
    /\ objs' = Append(objs, [proc |-> p, flags |-> Load(disk),
                             invalidated |-> FALSE, live |-> TRUE])
    /\ storage' = [storage EXCEPT ![p] = Len(objs) + 1]
    /\ UNCHANGED <<disk, pc, durable, sinceReset>>

(* A caller sets one of the generated flag properties to true (the user   *)
(* dismissed that warning).                                               *)
Dismiss(p, o, k) ==
    /\ Idle(p)
    /\ o \in ObjectsOf(p)
    /\ k \notin objs[o].flags
    /\ objs' = [objs EXCEPT ![o].flags = @ \cup {k}]
    /\ sinceReset' = sinceReset \cup {k}
    /\ UNCHANGED <<disk, storage, pc, durable>>

(* Mutant of CommitOpen: no early return for an invalidated object.      *)
CommitOpenIgnoresInvalidated(p, o) ==
    /\ Idle(p)
    /\ o \in ObjectsOf(p)
    /\ pc' = [pc EXCEPT ![p] = [obj |-> o, content |-> objs[o].flags]]
    /\ disk' = Empty
    /\ UNCHANGED <<objs, storage, durable, sinceReset>>

(* Commit up to CreateFileW: an invalidated object returns; otherwise      *)
(* ToJson snapshots the flags and CREATE_ALWAYS truncates state.json.      *)
CommitOpen(p, o) ==
    /\ Idle(p)
    /\ o \in ObjectsOf(p)
    /\ ~objs[o].invalidated
    /\ pc' = [pc EXCEPT ![p] = [obj |-> o, content |-> objs[o].flags]]
    /\ disk' = Empty
    /\ UNCHANGED <<objs, storage, durable, sinceReset>>

(* Commit's WriteFile: the snapshot becomes the file.                      *)
CommitWrite(p) ==
    /\ ~Idle(p)
    /\ disk' = Json(pc[p].content)
    /\ pc' = [pc EXCEPT ![p] = NoCommit]
    /\ durable' = durable \cup pc[p].content
    /\ UNCHANGED <<objs, storage, sinceReset>>

(* Reload: mark the object invalidated, so the next GetForCurrentApp       *)
(* loads a fresh one.                                                      *)
Reload(p, o) ==
    /\ Idle(p)
    /\ o \in ObjectsOf(p)
    /\ objs' = [objs EXCEPT ![o].invalidated = TRUE]
    /\ UNCHANGED <<disk, storage, pc, durable, sinceReset>>

(* _delete: remove state.json and mark object o invalidated.              *)
Delete(o) ==
    /\ disk' = Absent
    /\ objs' = [objs EXCEPT ![o].invalidated = TRUE]

(* Reset: _delete, then mark the object invalidated (again).  Only object  *)
(* o is invalidated: the object _getStaticStorage holds is another one     *)
(* when o is a handle kept across a Reload.                                *)
Reset(p, o) ==
    /\ Idle(p)
    /\ o \in ObjectsOf(p)
    /\ Delete(o)
    /\ durable' = {}
    /\ sinceReset' = {}
    /\ UNCHANGED <<storage, pc>>

Next ==
    \E p \in Procs :
        \/ GetForCurrentApp(p)
        \/ CommitWrite(p)
        \/ \E o \in DOMAIN objs :
              \/ CommitOpen(p, o)
              \/ Reload(p, o)
              \/ Reset(p, o)
              \/ \E k \in Keys : Dismiss(p, o, k)

Spec == Init /\ [][Next]_vars

(***************************************************************************)
(* Faults the code meets but does not handle.                              *)
(***************************************************************************)

(* WriteFile fails (a full disk): THROW_LAST_ERROR_IF leaves the file      *)
(* CREATE_ALWAYS truncated and the Commit throws.                          *)
CommitWriteFails(p) ==
    /\ ~Idle(p)
    /\ pc' = [pc EXCEPT ![p] = NoCommit]
    /\ UNCHANGED <<disk, objs, storage, durable, sinceReset>>

(* Process p dies (the window is killed) at any point, between Commit's    *)
(* two calls included; a restart begins with no stored object.            *)
Crash(p) ==
    /\ objs' = [o \in DOMAIN objs |->
                   IF objs[o].proc = p THEN [objs[o] EXCEPT !.live = FALSE]
                   ELSE objs[o]]
    /\ storage' = [storage EXCEPT ![p] = 0]
    /\ pc' = [pc EXCEPT ![p] = NoCommit]
    /\ UNCHANGED <<disk, durable, sinceReset>>

FaultNext == Next \/ \E p \in Procs : CommitWriteFails(p) \/ Crash(p)

FaultSpec == Init /\ [][FaultNext]_vars

(***************************************************************************)
(* Properties                                                              *)
(***************************************************************************)

(* A Commit that returned saved the user's dismissals: whenever no Commit  *)
(* is between CreateFileW and WriteFile, every flag that a returned Commit *)
(* wrote since the last Reset (or that state.json held at start) loads     *)
(* from state.json again.  Reload, Reset and handles kept across them must *)
(* not lose one, and neither may another process or a crash.              *)
CommittedDismissalsPersist ==
    (\A p \in Procs : Idle(p)) => durable \subseteq Load(disk)

(* Reset forgets: after Reset deletes state.json, no flag dismissed before *)
(* it comes back from disk, through a stale handle, a Commit or another    *)
(* process.                                                                *)
ResetIsFinal == Load(disk) \subseteq sinceReset

===============================================================================
