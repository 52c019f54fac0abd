------------------------------ MODULE Versions ------------------------------
(***************************************************************************)
(* The versions of an application's monitoring profile: an edit and a      *)
(* rollback each store the profile as it is and then change it, in two     *)
(* commits of a request; several requests of the web process run at once.  *)
(* The switch of monitoring and the deletion change a field of the profile *)
(* too, in one commit and without a version.                               *)
(*                                                                         *)
(* A profile is one field standing for most of VERSIONED_FIELDS, which an  *)
(* edit sets or leaves, and monitoring_enabled, which has other writers.   *)
(***************************************************************************)
EXTENDS FiniteSetsExt, Integers, Sequences

CONSTANTS
  Requests,    \* requests of the web process that may overlap
  Values,      \* of the field
  Forms,       \* the sets of fields that an edit sends
  MaxVersions  \* bound on the rows of application_versions

VARIABLES
  profile,     \* the row of the application
  deleted,     \* deleted_at is set
  versions,    \* application_versions, in the order of the commits
  edit         \* per request: the edit or rollback it is in

versionVars == <<profile, deleted, versions, edit>>

Profiles == [field : Values, enabled : BOOLEAN]
NoEdit == [stage |-> "idle"]

\* History, in edit: no other request or switch wrote since the row was read.
Overlapped(own) ==
  [q \in Requests |->
     IF q \in own \/ edit[q] = NoEdit THEN edit[q] ELSE [edit[q] EXCEPT !.alone = FALSE]]

-----------------------------------------------------------------------------
\* Nothing makes a number unique: a rollback takes the first row that has it.
Numbers == {versions[i].number : i \in DOMAIN versions}
SnapshotOf(n) ==
  versions[Min({i \in DOMAIN versions : versions[i].number = n})].snapshot

\* The request reads the row and, in record_version, the latest version: one
\* step, since what is written between the two makes an overlap either way.
\* What it is going to write is a set of fields.
Begin(r, changes) ==
  /\ edit[r] = NoEdit /\ ~deleted
  /\ edit' = [edit EXCEPT ![r] =
       [stage |-> "loaded", loaded |-> profile, changes |-> changes,
        number |-> Max(Numbers \cup {0}) + 1, alone |-> TRUE]]
  /\ UNCHANGED <<profile, deleted, versions>>

\* update_application sets the fields that were sent.
BeginEdit(r) ==
  \E p \in Profiles, sent \in Forms :
    Begin(r, [f \in sent |-> p[f]])

\* rollback_application sets them all, if the version exists.
BeginRollback(r) == \E n \in Numbers : Begin(r, SnapshotOf(n))

\* record_version's commit, of the row as the request read it.
InsertVersion(r) ==
  /\ edit[r].stage = "loaded" /\ Len(versions) < MaxVersions
  /\ versions' = Append(versions, [number |-> edit[r].number, snapshot |-> edit[r].loaded])
  /\ edit' = [Overlapped({r}) EXCEPT ![r].stage = "recorded"]
  /\ UNCHANGED <<profile, deleted>>

Changed(changes) ==
  [f \in DOMAIN profile |-> IF f \in DOMAIN changes THEN changes[f] ELSE profile[f]]

\* Mutant: a rollback does not record the profile it replaces.
Apply_RollbackUnrecorded(r) ==
  /\ \/ edit[r].stage = "recorded"
     \/ edit[r].stage = "loaded" /\ DOMAIN edit[r].changes = DOMAIN profile
  /\ profile' = Changed(edit[r].changes)
  /\ edit' = [Overlapped({r}) EXCEPT ![r] = NoEdit]
  /\ UNCHANGED <<deleted, versions>>

\* The second commit; a deletion since the row was read is not noticed.
Apply(r) ==
  /\ edit[r].stage = "recorded"
  /\ profile' = Changed(edit[r].changes)
  /\ edit' = [Overlapped({r}) EXCEPT ![r] = NoEdit]
  /\ UNCHANGED <<deleted, versions>>

\* A value that cannot be converted, or a stop: the version stays.
Abandon(r) ==
  /\ edit[r] # NoEdit
  /\ edit' = [edit EXCEPT ![r] = NoEdit]
  /\ UNCHANGED <<profile, deleted, versions>>

\* set_monitoring_enabled.
SwitchMonitoring ==
  /\ ~deleted
  /\ \E enabled \in BOOLEAN : profile' = [profile EXCEPT !.enabled = enabled]
  /\ edit' = Overlapped({})
  /\ UNCHANGED <<deleted, versions>>

\* soft_delete_application.
DeleteProfile ==
  /\ ~deleted
  /\ deleted' = TRUE
  /\ profile' = [profile EXCEPT !.enabled = FALSE]
  /\ edit' = Overlapped({})
  /\ UNCHANGED versions

-----------------------------------------------------------------------------
VersionsInit ==
  /\ profile \in Profiles
  /\ deleted = FALSE
  /\ versions = << >>
  /\ edit = [r \in Requests |-> NoEdit]

VersionsNext ==
  \/ \E r \in Requests :
       \/ BeginEdit(r) \/ BeginRollback(r)
       \/ InsertVersion(r) \/ Apply(r) \/ Abandon(r)
  \/ SwitchMonitoring \/ DeleteProfile

-----------------------------------------------------------------------------
\* What an edit or a rollback replaced, a rollback to some number brings back,
\* unless another request or a switch wrote in between: two that overlap may
\* take one number, and only the first of them can be restored.
\* (application_service 105-146)
UndoIsPossible ==
  [][\A r \in Requests :
       edit[r] # NoEdit /\ edit[r].alone /\ Apply(r)
         => \E n \in Numbers : SnapshotOf(n) = profile]_versionVars
=============================================================================
