----------------------------- MODULE Inventory -----------------------------
(***************************************************************************)
(* What changed on a server, one category of its inventory at a time: a    *)
(* heartbeat's snapshot is compared with the stored one, the differences   *)
(* are committed as server_changes, and only then is the snapshot stored.  *)
(* Heartbeats of one server follow each other; the names are those of two  *)
(* snapshots, compared without case.                                       *)
(***************************************************************************)
EXTENDS FiniteSetsExt, Integers, TLC

CONSTANTS
  Items,    \* services or programs
  PerUser,  \* names that end as those Windows gives services of a logon
  Values,   \* a program's version, a service's state
  Cap       \* MAX_CHANGES_PER_CATEGORY

VARIABLES
  category,  \* "SERVICE" or "PROGRAM"
  snapshot,  \* discovered_..._json
  request,   \* what a heartbeat has brought and not stored yet
  begun,     \* history: a snapshot that is not empty has been stored
  told,      \* history: the inventory as the changes tell it from that first one
  sure       \* history: nothing happened since that the changes leave out

inventoryVars == <<category, snapshot, request, begun, told, sure>>

Inventories == UNION {[found -> Values] : found \in SUBSET Items}
Idle == [busy |-> FALSE, items |-> << >>]

-----------------------------------------------------------------------------
(* _diff_snapshot and _record_changes.                                     *)

\* Programs whose name ends so are left out too.
Usable(inventory) == [i \in DOMAIN inventory \ PerUser |-> inventory[i]]

Added(old, new) == DOMAIN new \ DOMAIN old
Removed(old, new) == DOMAIN old \ DOMAIN new
Altered(old, new) ==
  IF category = "SERVICE" THEN {}
  ELSE {i \in DOMAIN old \cap DOMAIN new : old[i] # new[i]}

\* What a reader of the rows makes of them.
After(inventory, old, new) ==
  [i \in (DOMAIN inventory \cup Added(old, new)) \ Removed(old, new) |->
     IF i \in Added(old, new) \cup Altered(old, new) THEN new[i] ELSE inventory[i]]

WithinCap(old, new) ==
  \A changes \in {Added(old, new), Removed(old, new), Altered(old, new)} :
    Cardinality(changes) <= Cap

\* Mutant: the snapshot is stored before it is compared.
DetectChanges_TooLate(new) ==
  /\ ~request.busy
  /\ request' = [busy |-> TRUE, items |-> new]
  /\ told' = IF begun THEN told ELSE Usable(new)
  /\ UNCHANGED <<category, snapshot, begun, sure>>

\* detect_inventory_changes. Where nothing is stored nothing is compared and no
\* row written: at the first snapshot, where a reader begins, and after an
\* empty one. Beyond the cap some rows are dropped, silently.
DetectChanges(new) ==
  /\ ~request.busy
  /\ request' = [busy |-> TRUE, items |-> new]
  /\ LET before == Usable(snapshot) after == Usable(new)
     IN IF snapshot = << >>
        THEN /\ told' = IF begun THEN told ELSE after
             /\ sure' = (sure /\ (begun => after = << >>))
        ELSE /\ told' = After(told, before, after)
             /\ sure' = (sure /\ WithinCap(before, after))
  /\ UNCHANGED <<category, snapshot, begun>>

StoreSnapshot ==
  /\ request.busy
  /\ snapshot' = request.items
  /\ begun' = (begun \/ request.items # << >>)
  /\ request' = Idle
  /\ UNCHANGED <<category, told, sure>>

\* Between the two commits.
FailRequest ==
  /\ request.busy
  /\ request' = Idle
  /\ told' = IF begun THEN told ELSE << >>
  /\ sure' = (sure /\ ~begun)
  /\ UNCHANGED <<category, snapshot, begun>>

InventoryInit ==
  /\ category \in {"SERVICE", "PROGRAM"}
  /\ snapshot = << >> /\ request = Idle
  /\ begun = FALSE /\ told = << >> /\ sure = TRUE

InventoryNext ==
  \/ \E new \in Inventories : DetectChanges(new)
  \/ StoreSnapshot \/ FailRequest

-----------------------------------------------------------------------------
\* A reader of server_changes knows what is on the server: the rows since the
\* first snapshot add up to the stored one, item by item and, for programs,
\* version by version, names that look like those of a logon apart. The
\* exceptions: a request that failed between its two commits, one that changed
\* more at once than the cap, and what was found after an empty snapshot, which
\* no row tells. (server_service 340-430)
DriftRecorded ==
  sure /\ ~request.busy =>
    IF category = "SERVICE" THEN DOMAIN told = DOMAIN Usable(snapshot)
    ELSE told = Usable(snapshot)
=============================================================================
