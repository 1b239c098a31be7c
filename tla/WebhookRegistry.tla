--------------------------- MODULE WebhookRegistry ---------------------------
(***************************************************************************)
(* WebhookRegistry over S3WebhookStore (src/src/webhook/                   *)
(* webhook_registry.cpp).  add and remove change hooks_ and take a full    *)
(* snapshot under mutex_, and a detached thread of each saves its own      *)
(* snapshot: the saves are not ordered.                                    *)
(***************************************************************************)
EXTENDS Naturals

CONSTANTS
    Hooks,          \* urls; the id of a webhook is a hash of its url
    MaxMutations    \* bound on add and remove in one run of the process

ASSUME RegistryAssumption == MaxMutations \in Nat

VARIABLES
    hooks,      \* hooks_: what is registered under each url
    mutations,  \* history: number of mutations of this run
    saves,      \* snapshots whose thread has not saved yet
    stored,     \* the object in S3
    lost        \* history: the last snapshot failed, was overwritten or not loaded

registryVars == <<hooks, mutations, saves, stored, lost>>

Registries == [Hooks -> {"absent", "active", "paused"}]
Empty == [h \in Hooks |-> "absent"]
Saves == [n : 1 .. MaxMutations, snapshot : Registries]

RegistryInit ==
    /\ hooks = Empty
    /\ mutations = 0
    /\ saves = {}
    /\ stored = Empty
    /\ lost = FALSE

\* activeSnapshot(), a copy made under the lock.
ActiveHooks == {h \in Hooks : hooks[h] = "active"}

\* persist() hands the snapshot to a thread of its own.
MutSnapshotBeforeChange(registry) ==
    /\ mutations' = mutations + 1
    /\ saves' = saves \cup {[n |-> mutations + 1, snapshot |-> hooks]}
    /\ lost' = FALSE
Persist(registry) ==
    /\ mutations' = mutations + 1
    /\ saves' = saves \cup {[n |-> mutations + 1, snapshot |-> registry]}
    /\ lost' = FALSE

Change(h, entry) ==
    /\ mutations < MaxMutations
    /\ hooks' = [hooks EXCEPT ![h] = entry]
    /\ Persist([hooks EXCEPT ![h] = entry])
    /\ UNCHANGED stored

\* POST of a known url updates its entry in place.
Add(h, active) == Change(h, IF active THEN "active" ELSE "paused")

\* DELETE of an unknown id is answered 404 and changes nothing.
Remove(h) == hooks[h] # "absent" /\ Change(h, "absent")

IsLast(save) == save.n = mutations
LastUnderWay == \E save \in saves : IsLast(save)

SaveLands(save) ==
    /\ save \in saves
    /\ saves' = saves \ {save}
    /\ stored' = save.snapshot
    /\ lost' = IF IsLast(save) THEN FALSE ELSE ~LastUnderWay
    /\ UNCHANGED <<hooks, mutations>>

\* A failure is only logged; the object may be stored all the same, and at any
\* time until then SaveLands can happen.
SaveIsLost(save) ==
    /\ save \in saves
    /\ saves' = saves \ {save}
    /\ lost' = (lost \/ IsLast(save))
    /\ UNCHANGED <<hooks, mutations, stored>>

\* A new process loads what is stored; an error of the store counts as an
\* empty registry.  Saves of the old one have landed or not.
Reload ==
    /\ stored' \in {stored} \cup {save.snapshot : save \in saves}
    /\ hooks' \in {stored', Empty}
    /\ lost' = (hooks' # stored')
    /\ mutations' = 0
    /\ saves' = {}

RegistryTypeOK ==
    /\ hooks \in Registries /\ stored \in Registries
    /\ mutations \in 0 .. MaxMutations
    /\ saves \subseteq Saves
    /\ lost \in BOOLEAN

\* Once no save is under way, S3 holds the registry as it is, unless the last
\* save failed or an older one came after it: every snapshot is a full one
\* (webhook_registry.cpp:162-166).
LatestIsStored == saves = {} /\ ~lost => stored = hooks
==============================================================================
