----------------------------- MODULE Registry ------------------------------
(***************************************************************************)
(* The module registry as spec.md (3, 4.6, 4.7, 7) promises it to its      *)
(* callers: a map from coordinate to an immutable module archive.  Every   *)
(* call takes effect at one instant between its invocation and its return: *)
(* GetModule reads the map, UploadModule stores its body only where no     *)
(* module is stored, ListModuleVersions returns every module stored when   *)
(* it was called and only stored ones, and MigrateModules adopts the 0.7   *)
(* modules into the map without replacing any module.  A call may fail     *)
(* with a backend error; a failed UploadModule may have stored its body    *)
(* first (spec.md 7: no rollback).                                         *)
(***************************************************************************)
CONSTANTS
  Coords,        \* module coordinates
  Requests,      \* concurrent callers, one call each
  UploadCoords,  \* UploadCoords[r]: coordinates caller r may upload
  Bodies,        \* archive bodies a caller may upload
  OldBody,       \* the archive of every 0.7 module
  LegacyCoords,  \* coordinates of the 0.7 modules
  NoObject,      \* no module stored
  Blank          \* a coordinate with an empty field

VARIABLES
  modules,  \* coordinate -> stored archive, or NoObject
  calls,    \* caller -> its call: operation, arguments, phase and result
  migr      \* the operator's MigrateModules command

vars == <<modules, calls, migr>>

Stored == {c \in Coords : modules[c] # NoObject}

IdleCall == [op |-> "none", c |-> Blank, body |-> NoObject, pc |-> "idle",
             res |-> "none", stored |-> FALSE, snap |-> {}, out |-> {}]

Finish(r, res) == calls' = [calls EXCEPT ![r].pc = "done", ![r].res = res]

CallGetModule(r) ==
  /\ calls[r].pc = "idle"
  /\ \E c \in Coords : calls' = [calls EXCEPT ![r].op = "GetModule", ![r].c = c,
                                              ![r].pc = "busy"]
  /\ UNCHANGED <<modules, migr>>

\* a call with an empty coordinate field fails validation at once
CallUploadModule(r) ==
  /\ calls[r].pc = "idle"
  /\ \E c \in UploadCoords[r] \union {Blank}, b \in Bodies :
       calls' = [calls EXCEPT ![r].op = "UploadModule", ![r].c = c, ![r].body = b,
                              ![r].pc = IF c = Blank THEN "done" ELSE "busy",
                              ![r].res = IF c = Blank THEN "Validation" ELSE "none"]
  /\ UNCHANGED <<modules, migr>>

\* the listing remembers what was stored when it was called
CallListModuleVersions(r) ==
  /\ calls[r].pc = "idle"
  /\ calls' = [calls EXCEPT ![r].op = "ListModuleVersions", ![r].pc = "busy",
                            ![r].snap = Stored]
  /\ UNCHANGED <<modules, migr>>

GetModule(r) ==
  /\ calls[r].pc = "busy" /\ calls[r].op = "GetModule"
  /\ \/ Finish(r, IF calls[r].c \in Stored THEN "ok" ELSE "ModuleNotFound")
     \/ Finish(r, "Error")
  /\ UNCHANGED <<modules, migr>>

UploadAlreadyExists(r) ==
  /\ calls[r].pc = "busy" /\ calls[r].op = "UploadModule" /\ ~calls[r].stored
  /\ calls[r].c \in Stored
  /\ Finish(r, "AlreadyExists")
  /\ UNCHANGED <<modules, migr>>

\* the atomic put-if-absent
UploadStore(r) ==
  /\ calls[r].pc = "busy" /\ calls[r].op = "UploadModule" /\ ~calls[r].stored
  /\ calls[r].c \notin Stored
  /\ modules' = [modules EXCEPT ![calls[r].c] = calls[r].body]
  /\ calls' = [calls EXCEPT ![r].stored = TRUE]
  /\ UNCHANGED migr

\* an upload reports success only after it stored its body
UploadReturn(r) ==
  /\ calls[r].pc = "busy" /\ calls[r].op = "UploadModule"
  /\ \/ calls[r].stored /\ Finish(r, "ok")
     \/ Finish(r, "Error")
  /\ UNCHANGED <<modules, migr>>

ListModuleVersions(r) ==
  /\ calls[r].pc = "busy" /\ calls[r].op = "ListModuleVersions"
  /\ \/ \E out \in SUBSET Stored :
          /\ calls[r].snap \subseteq out
          /\ calls' = [calls EXCEPT ![r].pc = "done", ![r].res = "ok", ![r].out = out]
     \/ Finish(r, "Error")
  /\ UNCHANGED <<modules, migr>>

MigrateStart ==
  /\ migr.pc = "idle"
  /\ \E dry \in BOOLEAN : migr' = [pc |-> "running", dry |-> dry, res |-> "none"]
  /\ UNCHANGED <<modules, calls>>

\* a live run adopts a 0.7 module where no module is stored
MigrateCopy ==
  /\ migr.pc = "running" /\ ~migr.dry
  /\ \E c \in LegacyCoords \ Stored : modules' = [modules EXCEPT ![c] = OldBody]
  /\ UNCHANGED <<calls, migr>>

\* success means every 0.7 module is in the map, unless the run was a dry run
MigrateEnd ==
  /\ migr.pc = "running"
  /\ \/ /\ migr.dry \/ LegacyCoords \subseteq Stored
        /\ migr' = [migr EXCEPT !.pc = "idle", !.res = "ok"]
     \/ migr' = [migr EXCEPT !.pc = "idle", !.res = "error"]
  /\ UNCHANGED <<modules, calls>>

Init ==
  /\ modules = [c \in Coords |-> NoObject]
  /\ calls = [r \in Requests |-> IdleCall]
  /\ migr = [pc |-> "idle", dry |-> FALSE, res |-> "none"]

Next ==
  \/ \E r \in Requests :
       \/ CallGetModule(r) \/ CallUploadModule(r) \/ CallListModuleVersions(r)
       \/ GetModule(r) \/ UploadAlreadyExists(r) \/ UploadStore(r)
       \/ UploadReturn(r) \/ ListModuleVersions(r)
  \/ MigrateStart \/ MigrateCopy \/ MigrateEnd

Spec == Init /\ [][Next]_vars
=============================================================================
